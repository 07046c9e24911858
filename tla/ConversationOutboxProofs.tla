----------------------- MODULE ConversationOutboxProofs -----------------------
(***************************************************************************)
(* For any number of callers, event ids and payloads: the types of         *)
(* ConversationOutbox (TypeCorrect); that an acknowledgement on disk names *)
(* the payload the receiver stored (AcknowledgedIsStored); that the outbox *)
(* implements EventDelivery (OutboxImplementsDelivery); by how much the    *)
(* queue may exceed its limit (QueueOverrunBounded); and, of two processes,*)
(* that what enqueue has accepted is not lost (PromisesKept).              *)
(***************************************************************************)
EXTENDS ConversationOutbox, FiniteSetTheorems, TLAPS

\* The idle job is well formed: there is an event id to name in it.
LEMMA NoJobType == NoJob(NoId) \in Job
<1>1. NoId \in Ids
  BY ConstantsAssumption DEF NoId
<1> QED
  BY <1>1 DEF NoJob, Job, Digest, Targets

\* A job for an event id and a payload is well formed.
LEMMA StartedJobType ==
  ASSUME NEW i \in Ids, NEW d \in Digests
  PROVE  /\ [NoJob(i) EXCEPT !.op = "enqueue", !.digest = d] \in Job
         /\ [NoJob(i) EXCEPT !.op = "deliver"] \in Job
<1>1. NoJob(i) \in Job
  BY DEF NoJob, Job, Digest, Targets
<1>2. \A j \in Job : [j EXCEPT !.op = "enqueue", !.digest = d] \in Job
  BY DEF Job, Digest
<1>3. \A j \in Job : [j EXCEPT !.op = "deliver"] \in Job
  BY DEF Job
<1> QED
  BY <1>1, <1>2, <1>3

ControlTyped == pc \in [Callers -> Steps] /\ job \in [Callers -> Job]

\* The jobs of the other callers are untouched.
Others(c) == \A d \in Callers \ {c} : job'[d] = job[d] /\ pc'[d] = pc[d]

\* Moving a caller keeps the control types and the other callers' places.
LEMMA GotoEffect ==
  ASSUME TypeOK, NEW c \in Callers, NEW s \in Steps, Goto(c, s)
  PROVE  /\ pc' \in [Callers -> Steps]
         /\ pc'[c] = s
         /\ \A d \in Callers \ {c} : pc'[d] = pc[d]
  BY DEF TypeOK, Goto

\* Ending a call clears its job and touches no other caller.
LEMMA FinishEffect ==
  ASSUME TypeOK, NEW c \in Callers, Finish(c)
  PROVE  /\ ControlTyped'
         /\ Others(c)
         /\ pc'[c] = "idle"
         /\ job'[c].reply = "none"
         /\ job'[c].target = "pending"
<1>1. /\ pc' \in [Callers -> Steps]
      /\ pc'[c] = "idle"
      /\ \A d \in Callers \ {c} : pc'[d] = pc[d]
  BY GotoEffect DEF Finish, Steps, Yielded
<1>2. /\ job' \in [Callers -> Job]
      /\ job'[c] = NoJob(NoId)
      /\ \A d \in Callers \ {c} : job'[d] = job[d]
  BY NoJobType DEF TypeOK, Finish
<1> QED
  BY <1>1, <1>2 DEF ControlTyped, Others, NoJob

\* What of a job the setters leave alone.
SameBut(c, id, digest, target, reply) ==
  /\ job' \in [Callers -> Job]
  /\ \A d \in Callers \ {c} : job'[d] = job[d]
  /\ job'[c].id = id
  /\ job'[c].digest = digest
  /\ job'[c].target = target
  /\ job'[c].reply = reply

\* Each setter changes one field of one caller's job.
LEMMA SetterEffect ==
  ASSUME TypeOK, NEW c \in Callers
  PROVE  /\ \A t \in Targets : Target(c, t) =>
              SameBut(c, job[c].id, job[c].digest, t, job[c].reply)
         /\ \A b \in BOOLEAN : Made(c, b) =>
              SameBut(c, job[c].id, job[c].digest, job[c].target, job[c].reply)
         /\ \A d \in Digest : Holds(c, d) =>
              SameBut(c, job[c].id, d, job[c].target, job[c].reply)
         /\ Retry(c) =>
              SameBut(c, job[c].id, job[c].digest, job[c].target, job[c].reply)
  BY DEF TypeOK, Job, Target, Made, Holds, Retry, SameBut

\* A caller that resolves what is accepted ends its call or goes on to a write.
LEMMA ResolveEffect ==
  ASSUME TypeOK, NEW c \in Callers, NEW a, Resolve(c, a)
  PROVE  /\ ControlTyped'
         /\ Others(c)
         /\ pc'[c] \in {"idle", "capacity", "readConflict"}
         /\ job'[c].target # "ack"
         /\ job'[c].reply \in {"none", job[c].reply}
<1>1. CASE Finish(c)
  BY <1>1, FinishEffect
<1>2. CASE \E s \in {"capacity", "readConflict"}, t \in {"pending", "conflict"} :
             Goto(c, s) /\ Target(c, t)
  <2>1. PICK s \in {"capacity", "readConflict"}, t \in {"pending", "conflict"} :
               Goto(c, s) /\ Target(c, t)
    BY <1>2
  <2>2. s \in Steps /\ t \in Targets
    BY DEF Steps, Targets
  <2>3. SameBut(c, job[c].id, job[c].digest, t, job[c].reply)
    BY <2>1, <2>2, SetterEffect
  <2> QED
    BY <2>1, <2>2, <2>3, GotoEffect DEF ControlTyped, Others, SameBut
<1> QED
  BY <1>1, <1>2 DEF Resolve

\* A caller whose sink call was acknowledged holds a payload the receiver has,
\* and stays on the path that writes the acknowledgement.
ReplyIsTrue ==
  \A c \in Callers :
    job[c].reply = "ok" =>
      /\ job[c].digest \in Digests
      /\ stored[job[c].id] = job[c].digest
      /\ \/ pc[c] \in {"await", "recheck"}
         \/ /\ pc[c] \in {"temp", "link", "unlinkTemp", "unlinkPending"}
            /\ job[c].target = "ack"

\* Only such a caller writes an acknowledgement.
AckNeedsReply ==
  \A c \in Callers :
    /\ (job[c].target = "ack" \/ pc[c] = "recheck") => job[c].reply = "ok"
    /\ pc[c] = "await" => job[c].digest \in Digests

IInv == TypeOK /\ AckedIsStored /\ ReplyIsTrue /\ AckNeedsReply

\* Initially nothing is acknowledged and no caller has a job.
LEMMA InitIInv == Init => IInv
<1> SUFFICES ASSUME Init PROVE IInv
  OBVIOUS
<1> USE ConstantsAssumption, NoJobType
<1>1. TypeOK
  BY DEF Init, TypeOK, Digest, Steps, Yielded, Record
<1>2. AckedIsStored
  BY DEF Init, AckedIsStored
<1>3. ReplyIsTrue /\ AckNeedsReply
  BY DEF Init, ReplyIsTrue, AckNeedsReply, NoJob
<1> QED
  BY <1>1, <1>2, <1>3 DEF IInv

\* Every step of a caller keeps pc and job well formed and leaves the other
\* callers where they are.
LEMMA CallerControl ==
  ASSUME TypeOK, NEW c \in Callers, CallerStep(c)
  PROVE  ControlTyped' /\ Others(c)
<1> USE DEF Steps, Yielded, Targets, ControlTyped, Others, SameBut
<1>1. CASE ReadAck(c)
  BY <1>1 DEF ReadAck, TypeOK, Goto, Job
<1>2. CASE ReadPending(c)
  <2>1. CASE Finish(c)
    BY <2>1, FinishEffect
  <2>2. CASE Goto(c, "unlinkStale") /\ UNCHANGED job
    BY <2>2, GotoEffect DEF TypeOK
  <2>3. CASE \E a : Resolve(c, a)
    BY <2>3, ResolveEffect
  <2> QED
    BY <1>2, <2>1, <2>2, <2>3 DEF ReadPending
<1>3. CASE UnlinkStale(c)
  BY <1>3, FinishEffect, ResolveEffect DEF UnlinkStale
<1>4. CASE ReadConflict(c)
  BY <1>4, FinishEffect, GotoEffect DEF ReadConflict, TypeOK
<1>5. CASE Capacity(c)
  BY <1>5, FinishEffect, GotoEffect DEF Capacity, TypeOK
<1>6. CASE WriteTemp(c)
  BY <1>6, GotoEffect DEF WriteTemp, TypeOK
<1>7. CASE Link(c)
  <2>1. CASE Finish(c)
    BY <2>1, FinishEffect
  <2>2. CASE Goto(c, "unlinkTemp") /\ (Made(c, TRUE) \/ Made(c, FALSE))
    BY <2>2, GotoEffect, SetterEffect
  <2> QED
    BY <1>7, <2>1, <2>2 DEF Link
<1>8. CASE UnlinkTemp(c)
  <2>1. CASE Finish(c)
    BY <2>1, FinishEffect
  <2>2. CASE Goto(c, "readAck") /\ Retry(c)
    BY <2>2, GotoEffect, SetterEffect
  <2>3. CASE Goto(c, "unlinkPending") /\ UNCHANGED job
    BY <2>3, GotoEffect DEF TypeOK
  <2> QED
    BY <1>8, <2>1, <2>2, <2>3 DEF UnlinkTemp
<1>9. CASE ReadRecord(c)
  <2>1. pending[job[c].id] \in Digest
    BY DEF TypeOK, Job
  <2>2. CASE Finish(c)
    BY <2>2, FinishEffect
  <2>3. CASE Goto(c, "await") /\ Holds(c, pending[job[c].id])
    BY <2>1, <2>3, GotoEffect, SetterEffect
  <2> QED
    BY <1>9, <2>2, <2>3 DEF ReadRecord
<1>10. CASE SinkReturns(c)
  BY <1>10, FinishEffect, GotoEffect DEF SinkReturns, TypeOK
<1>11. CASE Recheck(c)
  <2>1. CASE Finish(c)
    BY <2>1, FinishEffect
  <2>2. CASE Goto(c, "temp") /\ Target(c, "ack")
    BY <2>2, GotoEffect, SetterEffect
  <2> QED
    BY <1>11, <2>1, <2>2 DEF Recheck
<1>12. CASE UnlinkPending(c)
  BY <1>12, FinishEffect DEF UnlinkPending
<1> QED
  BY <1>1, <1>2, <1>3, <1>4, <1>5, <1>6, <1>7, <1>8, <1>9, <1>10, <1>11, <1>12
  DEF CallerStep

\* Every step of Next keeps the types.
LEMMA TypeStep == TypeOK /\ [Next]_vars => TypeOK'
<1> SUFFICES ASSUME TypeOK, [Next]_vars PROVE TypeOK'
  OBVIOUS
<1> USE NoJobType, ConstantsAssumption
<1>1. ASSUME NEW c \in Callers, CallerStep(c) PROVE TypeOK'
  <2>1. ControlTyped'
    BY <1>1, CallerControl
  <2>2. job[c].id \in Ids /\ job[c].digest \in Digest
    BY DEF TypeOK, Job
  <2>3. promised' = promised \/ Promise(c)
    BY <1>1 DEF CallerStep, ReadAck, ReadPending, UnlinkStale, ReadConflict, Capacity,
       WriteTemp, Link, UnlinkTemp, ReadRecord, SinkReturns, Recheck, UnlinkPending, Resolve
  <2>4. promised' \subseteq Record
    BY <2>2, <2>3 DEF Promise, Record, TypeOK
  <2>5. \/ UNCHANGED <<pending, ack, conflicts>>
        \/ pending' = [pending EXCEPT ![job[c].id] = NoDigest] /\ UNCHANGED <<ack, conflicts>>
        \/ Create(job[c].target, job[c].id, job[c].digest)
    BY <1>1 DEF CallerStep, ReadAck, ReadPending, UnlinkStale, ReadConflict, Capacity,
       WriteTemp, Link, UnlinkTemp, ReadRecord, SinkReturns, Recheck, UnlinkPending, files
  <2>6. /\ pending' \in [Ids -> Digest]
        /\ ack' \in [Ids -> Digest]
        /\ conflicts' \subseteq Record
    BY <2>2, <2>5 DEF Create, Record, Digest, TypeOK
  <2>7. temps' = temps \/ temps' = temps \cup {c} \/ temps' = temps \ {c}
    BY <1>1 DEF CallerStep, ReadAck, ReadPending, UnlinkStale, ReadConflict, Capacity,
       WriteTemp, Link, UnlinkTemp, ReadRecord, SinkReturns, Recheck, UnlinkPending, files
  <2>8. ReceiverUnchanged
    BY <1>1 DEF CallerStep, ReadAck, ReadPending, UnlinkStale, ReadConflict, Capacity,
       WriteTemp, Link, UnlinkTemp, ReadRecord, SinkReturns, Recheck, UnlinkPending
  <2> QED
    BY <2>1, <2>4, <2>6, <2>7, <2>8 DEF TypeOK, ControlTyped, ReceiverUnchanged
<1>2. ASSUME NEW c \in Callers, NEW i \in Ids, StartDeliver(c, i) PROVE TypeOK'
  <2>1. Digests # {} 
    BY <1>2 DEF StartDeliver, TypeOK, Digest
  <2>2. [NoJob(i) EXCEPT !.op = "deliver"] \in Job
    BY <2>1, StartedJobType
  <2>3. job' \in [Callers -> Job] 
    BY <1>2, <2>2 DEF StartDeliver, TypeOK
  <2>4. pc' \in [Callers -> Steps]
    BY <1>2, GotoEffect DEF StartDeliver, Steps
  <2> QED
    BY <1>2, <2>3, <2>4 DEF StartDeliver, TypeOK, files, ReceiverUnchanged
<1>3. ASSUME NEW c \in Callers, NEW i \in Ids, NEW d \in Digests, StartEnqueue(c, i, d)
      PROVE  TypeOK'
  <2>1. job' \in [Callers -> Job] 
    BY <1>3, StartedJobType DEF StartEnqueue, TypeOK
  <2>2. pc' \in [Callers -> Steps]
    BY <1>3, GotoEffect DEF StartEnqueue, Steps
  <2> QED
    BY <1>3, <2>1, <2>2 DEF StartEnqueue, TypeOK, files, ReceiverUnchanged
<1> USE DEF TypeOK, files
<1>4. ASSUME NEW c \in Callers, SinkHandles(c) PROVE TypeOK'
  BY <1>4 DEF SinkHandles, Receive, Job
<1>5. ASSUME NEW c \in Callers, SinkFails(c) PROVE TypeOK'
  <2>1. ControlTyped'
    BY <1>5, FinishEffect DEF SinkFails
  <2> QED
    BY <1>5, <2>1 DEF SinkFails, Abandon, Job, Record, ControlTyped
<1>6. ASSUME NEW r \in wire, LateRequestArrives(r) PROVE TypeOK'
  BY <1>6 DEF LateRequestArrives, Receive, Record, Digest
<1>7. ASSUME NEW p \in Processes, Crash(p) PROVE TypeOK'
  BY <1>7 DEF Crash, Abandon, Job, Steps, Yielded, Record
<1>8. ASSUME NEW p \in Processes, Restart(p) PROVE TypeOK'
  BY <1>8 DEF Restart
<1>9. CASE UNCHANGED vars
  BY <1>9 DEF vars
<1> QED
  BY <1>1, <1>2, <1>3, <1>4, <1>5, <1>6, <1>7, <1>8, <1>9 DEF Next

\* The receiver never forgets or changes a payload.
LEMMA ReceiveKeeps ==
  ASSUME TypeOK, NEW i \in Ids, NEW d \in Digest, Receive(i, d)
  PROVE  /\ \A k \in Ids : stored[k] # NoDigest => stored'[k] = stored[k]
         /\ Accepts(i, d) => stored'[i] = d
  BY DEF TypeOK, Receive, Accepts

\* What the other callers know stays true while one caller steps.
LEMMA CallerInvStep ==
  ASSUME IInv, NEW c \in Callers, CallerStep(c)
  PROVE  (AckedIsStored /\ ReplyIsTrue /\ AckNeedsReply)'
<1>1. TypeOK /\ ControlTyped' /\ Others(c) /\ ReceiverUnchanged
  BY CallerControl DEF IInv, CallerStep, ReadAck, ReadPending, UnlinkStale, ReadConflict,
     Capacity, WriteTemp, Link, UnlinkTemp, ReadRecord, SinkReturns, Recheck, UnlinkPending
<1> DEFINE ReplyOf(d) ==
      /\ job[d].reply = "ok" =>
           /\ job[d].digest \in Digests
           /\ stored[job[d].id] = job[d].digest
           /\ \/ pc[d] \in {"await", "recheck"}
              \/ /\ pc[d] \in {"temp", "link", "unlinkTemp", "unlinkPending"}
                 /\ job[d].target = "ack"
      /\ (job[d].target = "ack" \/ pc[d] = "recheck") => job[d].reply = "ok"
      /\ pc[d] = "await" => job[d].digest \in Digests
<1>2. (\A d \in Callers : ReplyOf(d)) <=> (ReplyIsTrue /\ AckNeedsReply)
  BY DEF ReplyIsTrue, AckNeedsReply
<1>3. (\A d \in Callers : ReplyOf(d)') <=> (ReplyIsTrue /\ AckNeedsReply)'
  BY DEF ReplyIsTrue, AckNeedsReply
<1>4. \A d \in Callers \ {c} : ReplyOf(d)'
  BY <1>1, <1>2 DEF Others, ReceiverUnchanged, IInv
<1>5. Finish(c) => ReplyOf(c)'
  BY <1>1, FinishEffect
<1>6. ReplyOf(c)
  BY <1>2 DEF IInv
<1>7. ASSUME UNCHANGED ack PROVE AckedIsStored'
  BY <1>1, <1>7 DEF IInv, AckedIsStored, ReceiverUnchanged
<1> USE DEF Steps, Yielded, Targets, At, SameBut, ReceiverUnchanged
<1>11. CASE ReadAck(c)
  <2>1. /\ job'[c].reply = job[c].reply /\ job'[c].target = job[c].target
        /\ pc'[c] \in {"record", "readPending"}
    BY <1>1, <1>11 DEF ReadAck, TypeOK, Goto, Job
  <2> QED
    BY <1>11, <2>1, <1>6, <1>3, <1>4, <1>7 DEF ReadAck, files
<1>12. CASE ReadPending(c)
  <2>1. ASSUME Goto(c, "unlinkStale") /\ UNCHANGED job PROVE ReplyOf(c)'
    BY <1>1, <1>12, <2>1, <1>6, GotoEffect DEF ReadPending
  <2>2. ASSUME \E a : Resolve(c, a) PROVE ReplyOf(c)'
    BY <1>1, <1>12, <2>2, <1>6, ResolveEffect DEF ReadPending
  <2>3. ReplyOf(c)'
    BY <1>12, <1>5, <2>1, <2>2 DEF ReadPending
  <2> QED
    BY <1>12, <2>3, <1>3, <1>4, <1>7 DEF ReadPending, files
<1>13. CASE UnlinkStale(c)
  <2>1. ReplyOf(c)'
    BY <1>1, <1>13, <1>6, <1>5, ResolveEffect DEF UnlinkStale
  <2> QED
    BY <1>13, <2>1, <1>3, <1>4, <1>7 DEF UnlinkStale
<1>14. CASE ReadConflict(c)
  <2>1. ReplyOf(c)'
    BY <1>1, <1>14, <1>6, <1>5, GotoEffect DEF ReadConflict
  <2> QED
    BY <1>14, <2>1, <1>3, <1>4, <1>7 DEF ReadConflict, files
<1>15. CASE Capacity(c)
  <2>1. ReplyOf(c)'
    BY <1>1, <1>15, <1>6, <1>5, GotoEffect DEF Capacity
  <2> QED
    BY <1>15, <2>1, <1>3, <1>4, <1>7 DEF Capacity, files
<1>16. CASE WriteTemp(c)
  <2>1. ReplyOf(c)'
    BY <1>1, <1>16, <1>6, GotoEffect DEF WriteTemp
  <2> QED
    BY <1>16, <2>1, <1>3, <1>4, <1>7 DEF WriteTemp
<1>17. CASE Link(c)
  <2>1. ASSUME Goto(c, "unlinkTemp") /\ (Made(c, TRUE) \/ Made(c, FALSE)) PROVE ReplyOf(c)'
    <3>1. /\ SameBut(c, job[c].id, job[c].digest, job[c].target, job[c].reply)
          /\ pc'[c] = "unlinkTemp" /\ pc[c] = "link"
      BY <1>1, <1>17, <2>1, GotoEffect, SetterEffect DEF Link
    <3> QED
      BY <1>1, <3>1, <1>6
  <2>2. ReplyOf(c)'
    BY <1>17, <1>5, <2>1 DEF Link
  <2>3. AckedIsStored'
    <3>1. CASE UNCHANGED ack
      BY <3>1, <1>7
    <3>2. CASE job[c].target = "ack" /\ ack' = [ack EXCEPT ![job[c].id] = job[c].digest]
      <4>1. stored[job[c].id] = job[c].digest
        BY <3>2, <1>6
      <4> QED
        BY <1>1, <3>2, <4>1 DEF IInv, TypeOK, AckedIsStored
    <3> QED
      BY <1>17, <3>1, <3>2 DEF Link, Create
  <2> QED
    BY <2>2, <2>3, <1>3, <1>4
<1>18. CASE UnlinkTemp(c)
  <2>1. ASSUME Goto(c, "readAck") /\ Retry(c) /\ job[c].target = "pending" PROVE ReplyOf(c)'
    <3>1. /\ SameBut(c, job[c].id, job[c].digest, job[c].target, job[c].reply)
          /\ pc'[c] = "readAck" /\ pc[c] = "unlinkTemp"
      BY <1>1, <1>18, <2>1, GotoEffect, SetterEffect DEF UnlinkTemp
    <3> QED
      BY <1>1, <2>1, <3>1, <1>6
  <2>2. ASSUME Goto(c, "unlinkPending") /\ UNCHANGED job PROVE ReplyOf(c)'
    BY <1>1, <1>18, <2>2, <1>6, GotoEffect DEF UnlinkTemp
  <2>3. ReplyOf(c)'
    BY <1>18, <1>5, <2>1, <2>2 DEF UnlinkTemp
  <2> QED
    BY <1>18, <2>3, <1>3, <1>4, <1>7 DEF UnlinkTemp
<1>19. CASE ReadRecord(c)
  <2>1. ASSUME Goto(c, "await") /\ Holds(c, pending[job[c].id]) /\ pending[job[c].id] # NoDigest PROVE ReplyOf(c)'
    <3>1. pending[job[c].id] \in Digests
      BY <1>1, <2>1 DEF TypeOK, Job, Digest
    <3>2. /\ SameBut(c, job[c].id, pending[job[c].id], job[c].target, job[c].reply)
          /\ pc'[c] = "await" /\ pc[c] = "record"
      BY <1>1, <1>19, <2>1, <3>1, GotoEffect, SetterEffect DEF ReadRecord, Digest
    <3> QED
      BY <1>1, <3>1, <3>2, <1>6
  <2>2. ReplyOf(c)'
    BY <1>19, <1>5, <2>1 DEF ReadRecord
  <2> QED
    BY <1>19, <2>2, <1>3, <1>4, <1>7 DEF ReadRecord, files
<1>20. CASE SinkReturns(c)
  <2>1. ReplyOf(c)'
    BY <1>1, <1>20, <1>6, <1>5, GotoEffect DEF SinkReturns
  <2> QED
    BY <1>20, <2>1, <1>3, <1>4, <1>7 DEF SinkReturns, files
<1>21. CASE Recheck(c)
  <2>1. ASSUME Goto(c, "temp") /\ Target(c, "ack") PROVE ReplyOf(c)'
    <3>1. /\ SameBut(c, job[c].id, job[c].digest, "ack", job[c].reply)
          /\ pc'[c] = "temp" /\ pc[c] = "recheck"
      BY <1>1, <1>21, <2>1, GotoEffect, SetterEffect DEF Recheck
    <3> QED
      BY <1>1, <3>1, <1>6
  <2>2. ReplyOf(c)'
    BY <1>21, <1>5, <2>1 DEF Recheck
  <2> QED
    BY <1>21, <2>2, <1>3, <1>4, <1>7 DEF Recheck, files
<1>22. CASE UnlinkPending(c)
  BY <1>22, <1>5, <1>3, <1>4, <1>7 DEF UnlinkPending
<1> QED
  BY <1>11, <1>12, <1>13, <1>14, <1>15, <1>16, <1>17, <1>18, <1>19, <1>20, <1>21, <1>22
  DEF CallerStep

\* The strengthened invariant is inductive.
LEMMA NextIInv == IInv /\ [Next]_vars => IInv'
<1> SUFFICES ASSUME IInv, [Next]_vars PROVE IInv'
  OBVIOUS
<1>1. TypeOK'
  BY TypeStep DEF IInv
<1>2. ASSUME NEW c \in Callers, CallerStep(c)
      PROVE  (AckedIsStored /\ ReplyIsTrue /\ AckNeedsReply)'
  BY <1>2, CallerInvStep
<1> USE ConstantsAssumption, NoJobType
<1> USE DEF IInv, TypeOK, AckedIsStored, ReplyIsTrue, AckNeedsReply,
            At, Goto, Finish, files
<1>3. ASSUME NEW c \in Callers, NEW i \in Ids, StartDeliver(c, i)
      PROVE  (AckedIsStored /\ ReplyIsTrue /\ AckNeedsReply)'
  BY <1>3 DEF StartDeliver, ReceiverUnchanged, Job, NoJob
<1>4. ASSUME NEW c \in Callers, NEW i \in Ids, NEW d \in Digests, StartEnqueue(c, i, d)
      PROVE  (AckedIsStored /\ ReplyIsTrue /\ AckNeedsReply)'
  BY <1>4 DEF StartEnqueue, ReceiverUnchanged, Job, NoJob
<1>5. ASSUME NEW c \in Callers, SinkHandles(c)
      PROVE  (AckedIsStored /\ ReplyIsTrue /\ AckNeedsReply)'
  <2>1. job[c].id \in Ids /\ job[c].digest \in Digests
    BY <1>5 DEF SinkHandles, Job
  <2>2. /\ \A k \in Ids : stored[k] # NoDigest => stored'[k] = stored[k]
        /\ Accepts(job[c].id, job[c].digest) => stored'[job[c].id] = job[c].digest
    BY <1>5, <2>1, ReceiveKeeps DEF SinkHandles, Digest
  <2> QED
    BY <1>5, <2>1, <2>2 DEF SinkHandles, Job
<1>6. ASSUME NEW c \in Callers, SinkFails(c)
      PROVE  (AckedIsStored /\ ReplyIsTrue /\ AckNeedsReply)'
  BY <1>6 DEF SinkFails, Job, NoJob
<1>7. ASSUME NEW r \in wire, LateRequestArrives(r)
      PROVE  (AckedIsStored /\ ReplyIsTrue /\ AckNeedsReply)'
  <2>1. r[1] \in Ids /\ r[2] \in Digest
    BY DEF Record
  <2>2. \A k \in Ids : stored[k] # NoDigest => stored'[k] = stored[k]
    BY <1>7, <2>1, ReceiveKeeps DEF LateRequestArrives
  <2> QED
    BY <1>7, <2>2 DEF LateRequestArrives, Job
<1>8. ASSUME NEW p \in Processes, Crash(p)
      PROVE  (AckedIsStored /\ ReplyIsTrue /\ AckNeedsReply)'
  BY <1>8 DEF Crash, Job, NoJob
<1>9. ASSUME NEW p \in Processes, Restart(p)
      PROVE  (AckedIsStored /\ ReplyIsTrue /\ AckNeedsReply)'
  BY <1>9 DEF Restart
<1>10. CASE UNCHANGED vars
  BY <1>10 DEF vars
<1> QED
  BY <1>1, <1>2, <1>3, <1>4, <1>5, <1>6, <1>7, <1>8, <1>9, <1>10 DEF Next

\* The types hold in every reachable state.
THEOREM TypeCorrect == Spec => []TypeOK
<1>1. IInv => TypeOK
  BY DEF IInv
<1> QED
  BY InitIInv, NextIInv, <1>1, PTL DEF Spec

\* What deliver acknowledges on disk is what the receiver stored, for any
\* interleaving of any number of processes.
THEOREM AcknowledgedIsStored == Spec => []AckedIsStored
<1>1. IInv => AckedIsStored
  BY DEF IInv
<1> QED
  BY InitIInv, NextIInv, <1>1, PTL DEF Spec

\* A payload that reaches the receiver is taken by it or changes nothing.
LEMMA ReceiveImplements ==
  ASSUME TypeOK, NEW i \in Ids, NEW d \in Digest, Receive(i, d), UNCHANGED ack
  PROVE  [Delivery!Next]_(Delivery!channel)
<1>1. CASE stored[i] = NoDigest /\ d \in Digests
  <2>1. Delivery!Accept(i, d)
    BY <1>1 DEF Receive, Accepts, Delivery!Accept
  <2> QED
    BY <1>1, <2>1 DEF Delivery!Next
<1>2. CASE stored[i] # NoDigest \/ d \notin Digests
  <2>1. stored' = stored
    BY <1>2 DEF Receive, Accepts, TypeOK, Digest
  <2> QED
    BY <2>1 DEF Delivery!channel
<1> QED
  BY <1>1, <1>2

\* The link that makes an acknowledgement acknowledges what the receiver has.
LEMMA LinkImplements ==
  ASSUME IInv, NEW c \in Callers, Link(c)
  PROVE  [Delivery!Next]_(Delivery!channel)
<1>1. UNCHANGED stored
  BY DEF Link, ReceiverUnchanged
<1>2. CASE ack' = ack
  BY <1>1, <1>2 DEF Delivery!channel
<1>3. CASE ack' # ack
  <2>1. /\ job[c].target = "ack"
        /\ ~Exists("ack", job[c].id, job[c].digest)
        /\ ack' = [ack EXCEPT ![job[c].id] = job[c].digest]
    BY <1>3 DEF Link, Create
  <2>2. job[c].id \in Ids
    BY DEF IInv, TypeOK, Job
  <2>3. ack[job[c].id] = NoDigest
    BY <2>1 DEF Exists
  <2>4. stored[job[c].id] = job[c].digest /\ job[c].digest \in Digests
    BY <2>1 DEF IInv, AckNeedsReply, ReplyIsTrue
  <2>5. Delivery!Acknowledge(job[c].id)
    BY <1>1, <2>1, <2>2, <2>3, <2>4, ConstantsAssumption DEF Delivery!Acknowledge
  <2> QED
    BY <2>2, <2>5 DEF Delivery!Next
<1> QED
  BY <1>2, <1>3

\* Every step of the outbox is a step of EventDelivery or changes nothing there.
LEMMA StepImplements == IInv /\ [Next]_vars => [Delivery!Next]_(Delivery!channel)
<1> SUFFICES ASSUME IInv, [Next]_vars PROVE [Delivery!Next]_(Delivery!channel)
  OBVIOUS
<1> USE DEF Delivery!channel, files, ReceiverUnchanged
<1>1. ASSUME NEW c \in Callers, CallerStep(c)
      PROVE  [Delivery!Next]_(Delivery!channel)
  <2>1. CASE Link(c)
    BY <2>1, LinkImplements
  <2>2. CASE ~Link(c)
    BY <1>1, <2>2 DEF CallerStep, ReadAck, ReadPending, UnlinkStale, ReadConflict,
       Capacity, WriteTemp, UnlinkTemp, ReadRecord, SinkReturns, Recheck, UnlinkPending
  <2> QED
    BY <2>1, <2>2
<1>2. ASSUME NEW c \in Callers, SinkHandles(c)
      PROVE  [Delivery!Next]_(Delivery!channel)
  <2>1. job[c].id \in Ids /\ job[c].digest \in Digest
    BY DEF IInv, TypeOK, Job
  <2> QED
    BY <1>2, <2>1, ReceiveImplements DEF SinkHandles, IInv
<1>3. ASSUME NEW r \in wire, LateRequestArrives(r)
      PROVE  [Delivery!Next]_(Delivery!channel)
  <2>1. r[1] \in Ids /\ r[2] \in Digest
    BY DEF IInv, TypeOK, Record
  <2> QED
    BY <1>3, <2>1, ReceiveImplements DEF LateRequestArrives, IInv
<1>4. ASSUME NEW c \in Callers,
             \/ \E i \in Ids : StartDeliver(c, i)
             \/ \E i \in Ids, d \in Digests : StartEnqueue(c, i, d)
             \/ SinkFails(c)
      PROVE  [Delivery!Next]_(Delivery!channel)
  BY <1>4 DEF StartDeliver, StartEnqueue, SinkFails
<1>5. ASSUME NEW p \in Processes, Crash(p) \/ Restart(p)
      PROVE  [Delivery!Next]_(Delivery!channel)
  BY <1>5 DEF Crash, Restart
<1>6. CASE UNCHANGED vars
  BY <1>6 DEF vars
<1> QED
  BY <1>1, <1>2, <1>3, <1>4, <1>5, <1>6 DEF Next

\* The outbox and its sink implement EventDelivery: for any number of processes,
\* crashes and lost replies an acknowledgement file is written once, after the
\* receiver took the payload it names, and is never changed.
THEOREM OutboxImplementsDelivery == Spec => DeliversEvents
<1>1. Init => Delivery!Init
  BY DEF Init, Delivery!Init, Digest
<1> QED
  BY InitIInv, NextIInv, StepImplements, <1>1, PTL DEF Spec, DeliversEvents, Delivery!Spec

(***************************************************************************)
(* What was promised is kept                                               *)
(*                                                                         *)
(* A pending record is removed by name, whatever it holds by then.  It is  *)
(* the acknowledged one as long as nobody can write another payload under  *)
(* the name after it was read: such a writer has read the files before the *)
(* acknowledgement was there, and it runs in a process of its own, beside  *)
(* the one that removes the record and the one that had removed it before. *)
(* With two processes there is no third one.                               *)
(***************************************************************************)

\* At most two Node processes open the outbox root.
AtMostTwo == \A p, q, r \in Processes : p = q \/ q = r \/ p = r

\* The calls of one process do not interleave between two awaits.
OneAtATime ==
  \A c, d \in Callers :
    c # d /\ ProcessOf[c] = ProcessOf[d] => pc[c] \in Yielded \/ pc[d] \in Yielded

\* A caller that runs keeps to its turn.
LEMMA TurnsKept ==
  ASSUME OneAtATime, NEW c \in Callers, Runs(c), Others(c)
  PROVE  OneAtATime'
BY DEF OneAtATime, Runs, Others

\* A caller that takes one of its own steps runs.
LEMMA CallerRuns ==
  ASSUME NEW c \in Callers, CallerStep(c)
  PROVE  Runs(c)
BY DEF CallerStep, At, ReadAck, ReadPending, UnlinkStale, ReadConflict, Capacity, WriteTemp,
   Link, UnlinkTemp, ReadRecord, SinkReturns, Recheck, UnlinkPending

\* Between two awaits at most one call of a process is under way.
LEMMA TurnsStep == TypeOK /\ OneAtATime /\ [Next]_vars => OneAtATime'
<1> SUFFICES ASSUME TypeOK, OneAtATime, [Next]_vars PROVE OneAtATime'
  OBVIOUS
<1>1. ASSUME NEW c \in Callers, CallerStep(c) PROVE OneAtATime'
  BY <1>1, CallerControl, CallerRuns, TurnsKept
<1>2. ASSUME NEW c \in Callers, NEW i \in Ids,
             StartDeliver(c, i) \/ \E d \in Digests : StartEnqueue(c, i, d)
      PROVE  OneAtATime'
  <2>1. Others(c) /\ Runs(c)
    BY <1>2 DEF StartDeliver, StartEnqueue, Others, At, Goto, TypeOK
  <2> QED
    BY <2>1, TurnsKept
<1>3. ASSUME NEW c \in Callers, SinkFails(c) PROVE OneAtATime'
  <2>1. Others(c) /\ Runs(c)
    BY <1>3, FinishEffect DEF SinkFails, At
  <2> QED
    BY <2>1, TurnsKept
<1>4. ASSUME \A c \in Callers : pc'[c] = pc[c] \/ pc'[c] = "idle" PROVE OneAtATime'
  BY <1>4 DEF OneAtATime, Yielded
<1>5. ASSUME NEW c \in Callers, SinkHandles(c) PROVE OneAtATime'
  BY <1>4, <1>5 DEF SinkHandles
<1>6. ASSUME NEW r \in wire, LateRequestArrives(r) PROVE OneAtATime'
  BY <1>4, <1>6 DEF LateRequestArrives
<1>7. ASSUME NEW p \in Processes, Crash(p) \/ Restart(p) PROVE OneAtATime'
  BY <1>4, <1>7 DEF Crash, Restart
<1>8. CASE UNCHANGED vars
  BY <1>4, <1>8 DEF vars
<1> QED
  BY <1>1, <1>2, <1>3, <1>5, <1>6, <1>7, <1>8 DEF Next

\* The caller may still write its payload as the pending record of an event.
Writing(c, i) ==
  /\ job[c].id = i
  /\ \/ pc[c] \in {"capacity", "temp", "link"} /\ job[c].target = "pending"
     \/ pc[c] = "readPending" /\ job[c].seen = NoDigest

\* The caller is about to remove the pending record, or to acknowledge it.
Clearing(c) ==
  \/ pc[c] \in {"unlinkStale", "unlinkPending"}
  \/ pc[c] \in {"temp", "link", "unlinkTemp"} /\ job[c].target = "ack"

\* The payload that the caller takes the pending record for.
Cleared(c) == IF pc[c] = "unlinkStale" THEN job[c].seen ELSE job[c].digest

\* What a caller has read, and what it has done.
PathInv(c) ==
  /\ job[c].op = "enqueue" => job[c].digest \in Digests
  /\ pc[c] \in {"readAck", "readPending", "unlinkStale"} => job[c].op # "none"
  /\ pc[c] = "readPending" => job[c].seen \in {NoDigest, ack[job[c].id]}
  /\ pc[c] = "unlinkStale" => job[c].seen = ack[job[c].id] /\ job[c].seen # NoDigest
  /\ pc[c] = "readConflict" => job[c].target = "conflict"
  /\ pc[c] \in {"readConflict", "capacity"} => job[c].op = "enqueue" /\ job[c].target # "ack"
  /\ pc[c] \in {"temp", "link", "unlinkTemp"} /\ job[c].target # "ack" => job[c].op = "enqueue"
  /\ pc[c] = "readPending" /\ job[c].seen = NoDigest => job[c].op = "enqueue"
  /\ pc[c] = "unlinkTemp" /\ job[c].target = "pending" /\ job[c].made =>
       pending[job[c].id] = job[c].digest \/ ack[job[c].id] = job[c].digest
  /\ pc[c] = "unlinkTemp" /\ job[c].target = "conflict" =>
       <<job[c].id, job[c].digest>> \in conflicts
  /\ pc[c] = "unlinkTemp" /\ job[c].target = "ack" /\ job[c].made =>
       ack[job[c].id] = job[c].digest
  /\ pc[c] = "unlinkPending" => job[c].reply = "ok" /\ ack[job[c].id] = job[c].digest

\* Whoever removes the pending record finds the acknowledged payload in it, or
\* nothing, and then nobody is on the way to write another one.
ClearInv(c) ==
  Clearing(c) =>
    \/ pending[job[c].id] = Cleared(c)
    \/ /\ pending[job[c].id] = NoDigest /\ ack[job[c].id] = Cleared(c)
       /\ \A d \in Callers : ~Writing(d, job[c].id)

KeepInv ==
  /\ IInv /\ OneAtATime /\ PromisedIsKept /\ promised \subseteq Ids \X Digests
  /\ \A c \in Callers : PathInv(c) /\ ClearInv(c)

\* What the caller that steps has of its own.
OwnInv(c) == PathInv(c) /\ ClearInv(c)

\* What ends a call needs nothing any more.
LEMMA FinishOwn ==
  ASSUME TypeOK, NEW c \in Callers, Finish(c)
  PROVE  OwnInv(c)' /\ \A i \in Ids : ~Writing(c, i)'
<1>1. pc'[c] = "idle" /\ job'[c] = NoJob(NoId)
  BY NoJobType DEF TypeOK, Finish, Goto
<1> QED
  BY <1>1 DEF OwnInv, PathInv, ClearInv, Clearing, Writing, NoJob

\* One field of a job changes, the others stay.
LEMMA FieldsKept ==
  ASSUME TypeOK, NEW c \in Callers
  PROVE  /\ \A t \in Targets : Target(c, t) =>
              /\ job'[c].target = t /\ job'[c].op = job[c].op /\ job'[c].id = job[c].id
              /\ job'[c].digest = job[c].digest /\ job'[c].seen = job[c].seen
              /\ job'[c].made = job[c].made /\ job'[c].reply = job[c].reply
         /\ \A b \in BOOLEAN : Made(c, b) =>
              /\ job'[c].target = job[c].target /\ job'[c].op = job[c].op
              /\ job'[c].id = job[c].id /\ job'[c].digest = job[c].digest
              /\ job'[c].seen = job[c].seen /\ job'[c].made = b /\ job'[c].reply = job[c].reply
         /\ \A d \in Digest : Holds(c, d) =>
              /\ job'[c].target = job[c].target /\ job'[c].op = job[c].op
              /\ job'[c].id = job[c].id /\ job'[c].digest = d /\ job'[c].seen = job[c].seen
              /\ job'[c].made = job[c].made /\ job'[c].reply = job[c].reply
         /\ Retry(c) =>
              /\ job'[c].target = job[c].target /\ job'[c].op = job[c].op
              /\ job'[c].id = job[c].id /\ job'[c].digest = job[c].digest
              /\ job'[c].seen = job[c].seen /\ job'[c].made = job[c].made
              /\ job'[c].reply = job[c].reply
BY DEF TypeOK, Job, Target, Made, Holds, Retry

\* What is known of a caller that steps.
LEMMA CallerFacts ==
  ASSUME KeepInv, NEW c \in Callers
  PROVE  /\ TypeOK /\ PathInv(c) /\ ClearInv(c) /\ NoDigest \notin Digests
         /\ job[c].id \in Ids /\ job[c].digest \in Digest /\ job[c].seen \in Digest
         /\ job[c].target \in Targets /\ job[c].made \in BOOLEAN
         /\ pending[job[c].id] \in Digest /\ ack[job[c].id] \in Digest
         /\ job[c].reply = "ok" =>
              /\ job[c].digest \in Digests /\ stored[job[c].id] = job[c].digest
              /\ ack[job[c].id] \in {NoDigest, job[c].digest}
         /\ job[c].target = "ack" \/ pc[c] = "recheck" => job[c].reply = "ok"
BY ConstantsAssumption
DEF ConstantsAssumption, KeepInv, IInv, TypeOK, Job, ReplyIsTrue, AckNeedsReply, AckedIsStored

\* A caller removes what it took the record for, or nothing.
LEMMA ClearedIsAcked ==
  ASSUME KeepInv, NEW c \in Callers, pc[c] \in {"unlinkStale", "unlinkPending"}
  PROVE  /\ pending[job[c].id] \in {NoDigest, ack[job[c].id]}
         /\ ack[job[c].id] = Cleared(c) /\ ack[job[c].id] # NoDigest
BY CallerFacts DEF PathInv, ClearInv, Clearing, Cleared

\* Acknowledgements and conflicts stay, a pending record goes only when it is
\* acknowledged, and comes only from a caller on its way to write it.
FilesGrow(c) ==
  /\ \A i \in Ids : ack[i] # NoDigest => ack'[i] = ack[i]
  /\ conflicts \subseteq conflicts'
  /\ \A i \in Ids : pending[i] # NoDigest =>
       \/ pending'[i] = pending[i]
       \/ /\ pending'[i] = NoDigest /\ ack[i] = pending[i]
          /\ pc[c] \in {"unlinkStale", "unlinkPending"}
  /\ \A i \in Ids : pending[i] = NoDigest => pending'[i] = NoDigest \/ Writing(c, i)

\* Every step of a caller makes the files grow in this sense.
LEMMA StepGrows ==
  ASSUME KeepInv, NEW c \in Callers, CallerStep(c)
  PROVE  FilesGrow(c)
<1>1. CASE UNCHANGED <<pending, ack, conflicts>>
  BY <1>1 DEF FilesGrow
<1>2. CASE UnlinkStale(c) \/ UnlinkPending(c)
  <2>1. /\ pc[c] \in {"unlinkStale", "unlinkPending"}
        /\ pending' = [pending EXCEPT ![job[c].id] = NoDigest]
        /\ ack' = ack /\ conflicts' = conflicts
    BY <1>2 DEF UnlinkStale, UnlinkPending, At
  <2>2. pending[job[c].id] \in {NoDigest, ack[job[c].id]}
    BY <2>1, ClearedIsAcked
  <2>3. pending \in [Ids -> Digest]
    BY DEF KeepInv, IInv, TypeOK
  <2> QED
    BY <2>1, <2>2, <2>3 DEF FilesGrow
<1>3. CASE Link(c)
  <2>1. CASE UNCHANGED <<pending, ack, conflicts>>
    BY <2>1 DEF FilesGrow
  <2>2. CASE /\ pc[c] = "link"
             /\ ~Exists(job[c].target, job[c].id, job[c].digest)
             /\ Create(job[c].target, job[c].id, job[c].digest)
    <3>1. pending \in [Ids -> Digest] /\ ack \in [Ids -> Digest]
      BY DEF KeepInv, IInv, TypeOK
    <3> QED
      BY <2>2, <3>1, CallerFacts DEF Targets, Exists, Create, FilesGrow, Writing
  <2> QED
    BY <1>3, <2>1, <2>2 DEF Link, At
<1> QED
  BY <1>1, <1>2, <1>3 DEF CallerStep, ReadAck, ReadPending, ReadConflict, Capacity, WriteTemp,
     UnlinkTemp, ReadRecord, SinkReturns, Recheck, files

\* What the caller that resolves goes on to.
LEMMA ResolveOwn ==
  ASSUME KeepInv, NEW c \in Callers, NEW a, Resolve(c, a), job[c].op = "enqueue",
         job[c].digest \in Digests
  PROVE  /\ PathInv(c)' /\ ~Clearing(c)'
         /\ (\E i \in Ids : Writing(c, i)') => a = NoDigest /\ job'[c].id = job[c].id
<1>1. CASE Finish(c)
  BY <1>1, FinishOwn, NoJobType DEF OwnInv, Clearing, KeepInv, IInv, Finish, Goto, TypeOK
<1>2. CASE a = NoDigest /\ Goto(c, "capacity") /\ Target(c, "pending")
  <2>1. pc'[c] = "capacity"
    BY <1>2, GotoEffect DEF KeepInv, IInv, Steps
  <2>2. /\ job'[c].target = "pending" /\ job'[c].op = "enqueue" /\ job'[c].id = job[c].id
        /\ job'[c].digest = job[c].digest
    BY <1>2, FieldsKept DEF KeepInv, IInv, Targets
  <2> QED
    BY <1>2, <2>1, <2>2 DEF PathInv, Clearing
<1>3. CASE Goto(c, "readConflict") /\ Target(c, "conflict")
  <2>1. pc'[c] = "readConflict"
    BY <1>3, GotoEffect DEF KeepInv, IInv, Steps
  <2>2. /\ job'[c].target = "conflict" /\ job'[c].op = "enqueue"
        /\ job'[c].digest = job[c].digest
    BY <1>3, FieldsKept DEF KeepInv, IInv, Targets
  <2> QED
    BY <2>1, <2>2 DEF PathInv, Clearing, Writing
<1> QED
  BY <1>1, <1>2, <1>3 DEF Resolve

\* Calls that look at no record of their own any more write none either.
Settled(c) == OwnInv(c)' /\ \A i \in Ids : Writing(c, i)' => Writing(c, i) \/ ack[i] = NoDigest

\* A caller that clears stays on its way while the pending record is untouched.
LEMMA ClearingGoesOn ==
  ASSUME KeepInv, NEW c \in Callers, CallerStep(c), Clearing(c), Clearing(c)',
         job'[c].id = job[c].id, Cleared(c)' = Cleared(c), UNCHANGED pending
  PROVE  ClearInv(c)'
<1>1. Others(c) /\ FilesGrow(c)
  BY CallerControl, StepGrows DEF KeepInv, IInv
<1>2. \A i : ~Writing(c, i)'
  BY DEF Clearing, Writing
<1>3. Cleared(c) # NoDigest
  BY CallerFacts DEF Cleared, Clearing, PathInv
<1>4. CASE pending[job[c].id] = Cleared(c)
  BY <1>4 DEF ClearInv
<1>5. CASE /\ pending[job[c].id] = NoDigest /\ ack[job[c].id] = Cleared(c)
           /\ \A d \in Callers : ~Writing(d, job[c].id)
  <2>1. ack'[job[c].id] = Cleared(c)
    BY <1>1, <1>3, <1>5, CallerFacts DEF FilesGrow
  <2>2. \A d \in Callers : ~Writing(d, job[c].id)'
    BY <1>1, <1>2, <1>5 DEF Others, Writing
  <2> QED
    BY <1>5, <2>1, <2>2 DEF ClearInv
<1> QED
  BY <1>4, <1>5, CallerFacts DEF ClearInv

\* What enqueue and replay read leaves the caller's own facts true.
LEMMA ReadsSettled ==
  ASSUME KeepInv, NEW c \in Callers, ReadAck(c) \/ ReadPending(c) \/ ReadConflict(c)
  PROVE  Settled(c)
<1> USE DEF Settled, OwnInv
<1>1. CASE ReadAck(c)
  <2>1. /\ job'[c].seen = ack[job[c].id] /\ job'[c].id = job[c].id /\ job'[c].op = job[c].op
        /\ job'[c].digest = job[c].digest
        /\ pc'[c] = IF job[c].op = "deliver" /\ ack[job[c].id] = NoDigest
                    THEN "record" ELSE "readPending"
    BY <1>1, CallerFacts DEF ReadAck, TypeOK, Goto, Job
  <2>2. ack' = ack /\ pc[c] = "readAck"
    BY <1>1 DEF ReadAck, files, At
  <2>3. job[c].op \in {"none", "enqueue", "deliver"} /\ job[c].op # "none"
    BY <2>2, CallerFacts DEF PathInv, TypeOK, Job
  <2>4. PathInv(c)'
    BY <2>1, <2>2, <2>3, CallerFacts DEF PathInv
  <2>5. ~Clearing(c)'
    BY <2>1 DEF Clearing
  <2> QED
    BY <2>1, <2>2, <2>4, <2>5 DEF ClearInv, Writing
<1>2. CASE ReadPending(c)
  <2>1. pc[c] = "readPending" /\ UNCHANGED files
    BY <1>2 DEF ReadPending, At
  <2>2. CASE Finish(c)
    BY <2>2, FinishOwn, CallerFacts
  <2>3. CASE /\ job[c].seen # NoDigest /\ pending[job[c].id] = job[c].seen
             /\ Goto(c, "unlinkStale") /\ UNCHANGED job
    <3>1. pc'[c] = "unlinkStale"
      BY <2>3, GotoEffect, CallerFacts DEF Steps
    <3>2. PathInv(c)'
      BY <2>1, <2>3, <3>1, CallerFacts DEF PathInv, files
    <3>3. ClearInv(c)'
      BY <2>1, <2>3, <3>1 DEF ClearInv, Cleared, files
    <3> QED
      BY <2>3, <3>1, <3>2, <3>3 DEF Writing
  <2>4. CASE /\ job[c].op # "deliver"
             /\ Resolve(c, IF job[c].seen # NoDigest THEN job[c].seen ELSE pending[job[c].id])
    <3>1. job[c].op = "enqueue" /\ job[c].digest \in Digests
      BY <2>1, <2>4, CallerFacts DEF PathInv, TypeOK, Job
    <3>2. /\ PathInv(c)' /\ ~Clearing(c)'
          /\ (\E i \in Ids : Writing(c, i)') => job[c].seen = NoDigest /\ job'[c].id = job[c].id
      BY <2>4, <3>1, ResolveOwn
    <3> QED
      BY <2>1, <3>2 DEF ClearInv, Writing
  <2> QED
    BY <1>2, <2>2, <2>3, <2>4 DEF ReadPending
<1>3. CASE ReadConflict(c)
  <2>1. CASE Finish(c)
    BY <2>1, FinishOwn, CallerFacts
  <2>2. CASE Goto(c, "capacity") /\ UNCHANGED job
    <3>1. pc'[c] = "capacity" /\ pc[c] = "readConflict"
      BY <1>3, <2>2, GotoEffect, CallerFacts DEF ReadConflict, At, Steps
    <3> QED
      BY <2>2, <3>1, CallerFacts DEF PathInv, ClearInv, Clearing, Writing
  <2> QED
    BY <1>3, <2>1, <2>2 DEF ReadConflict
<1> QED
  BY <1>1, <1>2, <1>3

\* So do the steps of a durable write.
LEMMA WritesSettled ==
  ASSUME KeepInv, NEW c \in Callers, Capacity(c) \/ WriteTemp(c) \/ Link(c) \/ UnlinkTemp(c)
  PROVE  Settled(c)
<1> USE DEF Settled, OwnInv
<1>0. CallerStep(c)
  BY DEF CallerStep
<1>1. CASE Finish(c)
  BY <1>1, FinishOwn, CallerFacts
<1>2. CASE Capacity(c) /\ Goto(c, "temp") /\ UNCHANGED job
  <2>1. pc'[c] = "temp" /\ pc[c] = "capacity"
    BY <1>2, GotoEffect, CallerFacts DEF Capacity, At, Steps
  <2> QED
    BY <1>2, <2>1, CallerFacts DEF PathInv, ClearInv, Clearing, Writing
<1>3. CASE WriteTemp(c)
  <2>1. /\ pc'[c] = "link" /\ pc[c] = "temp"
        /\ UNCHANGED <<pending, ack, conflicts, job>>
    BY <1>3, GotoEffect, CallerFacts DEF WriteTemp, At, Steps
  <2>2. PathInv(c)'
    BY <2>1, CallerFacts DEF PathInv
  <2>3. ClearInv(c)'
    <3>1. CASE job[c].target = "ack"
      BY <1>0, <2>1, <3>1, ClearingGoesOn DEF Clearing, Cleared
    <3>2. CASE job[c].target # "ack"
      BY <2>1, <3>2 DEF ClearInv, Clearing
    <3> QED
      BY <3>1, <3>2
  <2> QED
    BY <2>1, <2>2, <2>3 DEF Writing
<1>4. CASE Link(c) /\ Goto(c, "unlinkTemp") /\ (Made(c, TRUE) \/ Made(c, FALSE))
  <2>1. /\ pc'[c] = "unlinkTemp" /\ pc[c] = "link"
        /\ job'[c].target = job[c].target /\ job'[c].op = job[c].op
        /\ job'[c].id = job[c].id /\ job'[c].digest = job[c].digest
        /\ job'[c].reply = job[c].reply
    BY <1>4, GotoEffect, FieldsKept, CallerFacts DEF Link, At, Steps
  <2>2. \/ /\ job'[c].made
           /\ ~Exists(job[c].target, job[c].id, job[c].digest)
           /\ Create(job[c].target, job[c].id, job[c].digest)
        \/ /\ ~job'[c].made
           /\ Exists(job[c].target, job[c].id, job[c].digest)
           /\ UNCHANGED <<pending, ack, conflicts>>
    <3>1. ~Finish(c)
      BY <2>1, FinishEffect, CallerFacts
    <3>2. Made(c, TRUE) => job'[c].made
      BY FieldsKept, CallerFacts
    <3>3. Made(c, FALSE) => ~job'[c].made
      BY FieldsKept, CallerFacts
    <3> QED
      BY <1>4, <3>1, <3>2, <3>3 DEF Link
  <2>3. PathInv(c)'
    <3>1. CASE job[c].target = "pending" /\ job'[c].made
      <4>1. pending'[job[c].id] = job[c].digest
        BY <2>2, <3>1, CallerFacts DEF Create, TypeOK
      <4> QED
        BY <2>1, <3>1, <4>1, CallerFacts DEF PathInv
    <3>2. CASE job[c].target = "conflict"
      BY <2>1, <2>2, <3>2, CallerFacts DEF PathInv, Create, Exists
    <3>3. CASE job[c].target = "ack" /\ job'[c].made
      <4>1. ack'[job[c].id] = job[c].digest
        BY <2>2, <3>3, CallerFacts DEF Create, TypeOK
      <4> QED
        BY <2>1, <3>3, <4>1, CallerFacts DEF PathInv
    <3>4. CASE ~job'[c].made /\ job[c].target # "conflict"
      BY <2>1, <3>4, CallerFacts DEF PathInv
    <3> QED
      BY <3>1, <3>2, <3>3, <3>4, CallerFacts DEF Targets
  <2>4. ClearInv(c)'
    <3>1. CASE job[c].target = "ack"
      <4>1. UNCHANGED pending
        BY <2>2, <3>1 DEF Create
      <4> QED
        BY <1>0, <2>1, <3>1, <4>1, ClearingGoesOn DEF Clearing, Cleared
    <3>2. CASE job[c].target # "ack"
      BY <2>1, <3>2 DEF ClearInv, Clearing
    <3> QED
      BY <3>1, <3>2
  <2> QED
    BY <2>1, <2>3, <2>4 DEF Writing
<1>5. CASE UnlinkTemp(c) /\ ~Finish(c)
  <2>1. pc[c] = "unlinkTemp" /\ UNCHANGED <<pending, ack, conflicts>>
    BY <1>5 DEF UnlinkTemp, At
  <2>2. CASE job[c].target = "pending" /\ Goto(c, "readAck") /\ Retry(c)
    <3>1. /\ pc'[c] = "readAck" /\ job'[c].op = "enqueue"
          /\ job'[c].digest = job[c].digest
      <4>1. pc'[c] = "readAck"
        BY <2>2, GotoEffect, CallerFacts DEF Steps
      <4>2. job'[c].op = job[c].op /\ job'[c].digest = job[c].digest
        BY <2>2, FieldsKept, CallerFacts
      <4>3. job[c].op = "enqueue"
        BY <2>1, <2>2, CallerFacts DEF PathInv
      <4> QED
        BY <4>1, <4>2, <4>3
    <3> QED
      BY <3>1, <2>1, <2>2, CallerFacts DEF PathInv, ClearInv, Clearing, Writing
  <2>3. CASE /\ job[c].target = "ack" /\ (job[c].made \/ ack[job[c].id] = job[c].digest)
             /\ Goto(c, "unlinkPending") /\ UNCHANGED job
    <3>1. pc'[c] = "unlinkPending"
      BY <2>3, GotoEffect, CallerFacts DEF Steps
    <3>2. PathInv(c)'
      BY <2>1, <2>3, <3>1, CallerFacts DEF PathInv
    <3>3. ClearInv(c)'
      BY <1>0, <2>1, <2>3, <3>1, ClearingGoesOn DEF Clearing, Cleared
    <3> QED
      BY <3>1, <3>2, <3>3 DEF Writing
  <2> QED
    BY <1>5, <2>2, <2>3 DEF UnlinkTemp
<1> QED
  BY <1>1, <1>2, <1>3, <1>4, <1>5 DEF Capacity, Link

\* And the steps of a delivery, and the removal of what was acknowledged.
LEMMA DeliveriesSettled ==
  ASSUME KeepInv, NEW c \in Callers,
         UnlinkStale(c) \/ ReadRecord(c) \/ SinkReturns(c) \/ Recheck(c) \/ UnlinkPending(c)
  PROVE  Settled(c)
<1> USE DEF Settled, OwnInv
<1>1. CASE Finish(c)
  BY <1>1, FinishOwn, CallerFacts
<1>2. CASE UnlinkStale(c) /\ job[c].op # "deliver" /\ Resolve(c, job[c].seen)
  <2>1. pc[c] = "unlinkStale"
    BY <1>2 DEF UnlinkStale, At
  <2>2. job[c].op = "enqueue" /\ job[c].digest \in Digests /\ job[c].seen # NoDigest
    BY <1>2, <2>1, CallerFacts DEF PathInv, TypeOK, Job
  <2> QED
    BY <1>2, <2>2, ResolveOwn DEF ClearInv
<1>3. CASE /\ ReadRecord(c) /\ pending[job[c].id] # NoDigest
           /\ Goto(c, "await") /\ Holds(c, pending[job[c].id])
  <2>1. pc'[c] = "await"
    BY <1>3, GotoEffect, CallerFacts DEF Steps, Yielded
  <2>2. job'[c].digest \in Digests
    BY <1>3, FieldsKept, CallerFacts DEF Digest
  <2> QED
    BY <2>1, <2>2 DEF PathInv, ClearInv, Clearing, Writing
<1>4. CASE SinkReturns(c) /\ Goto(c, "recheck") /\ UNCHANGED job
  <2>1. pc'[c] = "recheck"
    BY <1>4, GotoEffect, CallerFacts DEF Steps
  <2> QED
    BY <1>4, <2>1, CallerFacts DEF PathInv, ClearInv, Clearing, Writing
<1>5. CASE /\ Recheck(c) /\ pending[job[c].id] = job[c].digest
           /\ Goto(c, "temp") /\ Target(c, "ack")
  <2>1. pc'[c] = "temp"
    BY <1>5, GotoEffect, CallerFacts DEF Steps
  <2>2. /\ job'[c].target = "ack" /\ job'[c].id = job[c].id
        /\ job'[c].digest = job[c].digest /\ job'[c].op = job[c].op
    BY <1>5, FieldsKept, CallerFacts DEF Targets
  <2>3. pending' = pending
    BY <1>5 DEF Recheck, files
  <2>4. PathInv(c)'
    BY <2>1, <2>2, CallerFacts DEF PathInv
  <2>5. ClearInv(c)'
    BY <1>5, <2>1, <2>2, <2>3 DEF ClearInv, Cleared
  <2> QED
    BY <2>1, <2>2, <2>4, <2>5 DEF Writing
<1> QED
  BY <1>1, <1>2, <1>3, <1>4, <1>5
  DEF UnlinkStale, ReadRecord, SinkReturns, Recheck, UnlinkPending

\* What a call begins with.
LEMMA StartsSettled ==
  ASSUME KeepInv, NEW c \in Callers, NEW i \in Ids,
         StartDeliver(c, i) \/ \E d \in Digests : StartEnqueue(c, i, d)
  PROVE  Settled(c)
<1>1. pc'[c] = "readAck"
  BY GotoEffect, CallerFacts DEF StartEnqueue, StartDeliver, Steps
<1>2. job'[c].op # "none" /\ (job'[c].op = "enqueue" => job'[c].digest \in Digests)
  <2>1. CASE StartDeliver(c, i)
    BY <2>1, CallerFacts DEF StartDeliver, NoJob, TypeOK
  <2>2. ASSUME NEW d \in Digests, StartEnqueue(c, i, d)
        PROVE  job'[c].op = "enqueue" /\ job'[c].digest = d
    BY <2>2, CallerFacts DEF StartEnqueue, NoJob, TypeOK
  <2> QED
    BY <2>1, <2>2
<1> QED
  BY <1>1, <1>2 DEF Settled, OwnInv, PathInv, ClearInv, Clearing, Writing

\* A call that removes a pending record while another one clears it: nobody
\* else is inside a synchronous section.
LEMMA NobodyElse ==
  ASSUME KeepInv, AtMostTwo, NEW c \in Callers, NEW d \in Callers, c # d,
         pc[c] \notin Yielded, pc[d] \notin Yielded, NEW e \in Callers \ {c, d}
  PROVE  pc[e] \in Yielded
BY ConstantsAssumption DEF ConstantsAssumption, KeepInv, AtMostTwo, OneAtATime

\* The step of one caller leaves what the others have read and done true.
LEMMA OthersSettled ==
  ASSUME KeepInv, AtMostTwo, NEW c \in Callers, FilesGrow(c), Settled(c), Others(c),
         NEW d \in Callers \ {c}
  PROVE  PathInv(d)' /\ ClearInv(d)'
<1> DEFINE x == Cleared(d)
<1>0. PICK i \in Ids : i = job[d].id
  BY CallerFacts
<1>1. pc'[d] = pc[d] /\ job'[d] = job[d]
  BY DEF Others
<1>2. /\ i = job[d].id /\ PathInv(d) /\ ClearInv(d)
      /\ pc[d] = "unlinkPending" \/ job[d].target = "ack" => job[d].digest # NoDigest
      /\ job[d].op = "enqueue" => job[d].digest # NoDigest
  BY <1>0, CallerFacts DEF PathInv
<1>3. PathInv(d)'
  <2>1. ack[i] # NoDigest => ack'[i] = ack[i]
    BY <1>2 DEF FilesGrow
  <2>2. \A y : y # NoDigest /\ (pending[i] = y \/ ack[i] = y) => pending'[i] = y \/ ack'[i] = y
    BY <1>2 DEF FilesGrow
  <2>3. conflicts \subseteq conflicts'
    BY DEF FilesGrow
  <2> QED
    BY <1>1, <1>2, <2>1, <2>2, <2>3 DEF PathInv
<1>4. ASSUME Clearing(d)
      PROVE  \/ pending'[i] = x
             \/ /\ pending'[i] = NoDigest /\ ack'[i] = x
                /\ \A e \in Callers : ~Writing(e, i)'
  <2>1. x # NoDigest
    BY <1>2, <1>4 DEF Clearing, Cleared, PathInv
  <2>2. CASE pending[i] = x /\ pending'[i] # x
    <3>1. /\ pending'[i] = NoDigest /\ ack[i] = x /\ ack'[i] = x
          /\ pc[c] \in {"unlinkStale", "unlinkPending"}
      BY <1>2, <2>1, <2>2 DEF FilesGrow
    <3>2. ~Writing(c, i)'
      BY <1>2, <2>1, <3>1 DEF Settled, Writing
    <3>3. ~Writing(d, i)'
      BY <1>1, <1>4 DEF Clearing, Writing
    <3>4. pc[d] \notin Yielded /\ pc[c] \notin Yielded
      BY <1>4, <3>1 DEF Clearing, Yielded
    <3>5. \A e \in Callers \ {c, d} : pc[e] \in Yielded
      BY <3>4, NobodyElse
    <3>6. \A e \in Callers \ {c, d} : pc'[e] \in Yielded
      BY <3>5 DEF Others
    <3>7. \A e \in Callers \ {c, d} : ~Writing(e, i)'
      BY <3>6 DEF Writing, Yielded
    <3> QED
      BY <3>1, <3>2, <3>3, <3>7
  <2>3. CASE pending[i] = NoDigest /\ ack[i] = x /\ \A e \in Callers : ~Writing(e, i)
    <3>1. pending'[i] = NoDigest /\ ack'[i] = x
      BY <1>2, <2>1, <2>3 DEF FilesGrow
    <3>2. ~Writing(c, i)'
      BY <1>2, <2>1, <2>3 DEF Settled
    <3>3. \A e \in Callers \ {c} : ~Writing(e, i)'
      BY <2>3 DEF Others, Writing
    <3> QED
      BY <3>1, <3>2, <3>3
  <2> QED
    BY <1>2, <1>4, <2>2, <2>3 DEF ClearInv
<1>5. ClearInv(d)'
  BY <1>0, <1>1, <1>4 DEF ClearInv, Clearing, Cleared
<1> QED
  BY <1>3, <1>5

\* enqueue returns without an error only when the files hold its payload.
LEMMA PromiseBacked ==
  ASSUME KeepInv, NEW c \in Callers, CallerStep(c), promised' # promised
  PROVE  /\ promised' = promised \cup {<<job[c].id, job[c].digest>>}
         /\ job[c].digest \in Digests
         /\ \/ pending'[job[c].id] = job[c].digest
            \/ ack'[job[c].id] = job[c].digest
            \/ <<job[c].id, job[c].digest>> \in conflicts'
<1>1. CASE ReadPending(c)
  <2>1. /\ pc[c] = "readPending" /\ UNCHANGED files
        /\ job[c].op # "deliver"
        /\ Promise(c)
        /\ (IF job[c].seen # NoDigest THEN job[c].seen ELSE pending[job[c].id]) = job[c].digest
    BY <1>1 DEF ReadPending, Resolve, At
  <2>2. job[c].op = "enqueue"
    BY <2>1, CallerFacts DEF PathInv, TypeOK, Job
  <2> QED
    BY <2>1, <2>2, CallerFacts DEF PathInv, Promise, files
<1>2. CASE UnlinkStale(c)
  <2>1. /\ pc[c] = "unlinkStale" /\ ack' = ack
        /\ job[c].op # "deliver"
        /\ Promise(c)
        /\ job[c].seen = job[c].digest
    BY <1>2 DEF UnlinkStale, Resolve, At
  <2>2. job[c].op = "enqueue"
    BY <2>1, CallerFacts DEF PathInv, TypeOK, Job
  <2> QED
    BY <2>1, <2>2, CallerFacts DEF PathInv, Promise
<1>3. CASE ReadConflict(c)
  <2>1. /\ pc[c] = "readConflict" /\ UNCHANGED files
        /\ Promise(c) /\ <<job[c].id, job[c].digest>> \in conflicts
    BY <1>3 DEF ReadConflict, At
  <2> QED
    BY <2>1, CallerFacts DEF PathInv, Promise, files
<1>4. CASE UnlinkTemp(c)
  <2>1. /\ pc[c] = "unlinkTemp" /\ UNCHANGED <<pending, ack, conflicts>>
        /\ Promise(c)
        /\ (job[c].target = "pending" /\ job[c].made) \/ job[c].target = "conflict"
    BY <1>4 DEF UnlinkTemp, At
  <2> QED
    BY <2>1, CallerFacts DEF PathInv, Promise
<1> QED
  BY <1>1, <1>2, <1>3, <1>4 DEF CallerStep, ReadAck, Capacity, WriteTemp, Link, ReadRecord,
     SinkReturns, Recheck, UnlinkPending

\* What was promised stays when the files grow.
LEMMA PromisesStay ==
  ASSUME KeepInv, NEW c \in Callers, FilesGrow(c), NEW r \in promised
  PROVE  pending'[r[1]] = r[2] \/ ack'[r[1]] = r[2] \/ r \in conflicts'
<1>1. r[1] \in Ids /\ r[2] # NoDigest
  BY ConstantsAssumption DEF ConstantsAssumption, KeepInv
<1>2. pending[r[1]] = r[2] \/ ack[r[1]] = r[2] \/ r \in conflicts
  BY DEF KeepInv, PromisedIsKept
<1> QED
  BY <1>1, <1>2 DEF FilesGrow

\* The empty outbox satisfies the invariant.
LEMMA InitKeepInv == Init => KeepInv
<1> SUFFICES ASSUME Init PROVE KeepInv
  OBVIOUS
<1>1. IInv
  BY InitIInv
<1>2. \A c \in Callers : pc[c] = "idle" /\ job[c] = NoJob(NoId)
  BY DEF Init
<1>3. promised = {}
  BY DEF Init
<1> QED
  BY <1>1, <1>2, <1>3 DEF KeepInv, OneAtATime, PromisedIsKept, PathInv, ClearInv, Clearing,
     NoJob, Yielded

\* A step of one caller of the outbox.
LEMMA MoverKeeps ==
  ASSUME KeepInv, AtMostTwo, IInv', NEW c \in Callers,
         FilesGrow(c), Settled(c), Others(c), OneAtATime',
         \A r \in promised' \ promised :
           /\ r \in Ids \X Digests
           /\ pending'[r[1]] = r[2] \/ ack'[r[1]] = r[2] \/ r \in conflicts'
  PROVE  KeepInv'
<1>1. \A d \in Callers : PathInv(d)' /\ ClearInv(d)'
  BY OthersSettled DEF Settled, OwnInv
<1>2. PromisedIsKept'
  BY PromisesStay DEF PromisedIsKept
<1>3. (promised \subseteq Ids \X Digests)'
  BY DEF KeepInv
<1> QED
  BY <1>1, <1>2, <1>3 DEF KeepInv

\* Every step keeps it while at most two processes share the root.
LEMMA NextKeepInv == AtMostTwo /\ KeepInv /\ [Next]_vars => KeepInv'
<1> SUFFICES ASSUME AtMostTwo, KeepInv, [Next]_vars PROVE KeepInv'
  OBVIOUS
<1>1. IInv'
  BY NextIInv DEF KeepInv
<1>2. TypeOK /\ OneAtATime'
  BY TurnsStep DEF KeepInv, IInv
<1>3. ASSUME NEW c \in Callers, CallerStep(c) PROVE KeepInv'
  <2>1. Settled(c)
    BY <1>3, ReadsSettled, WritesSettled, DeliveriesSettled DEF CallerStep
  <2>2. Others(c) /\ FilesGrow(c)
    BY <1>2, <1>3, CallerControl, StepGrows
  <2>3. ASSUME NEW r \in promised' \ promised
        PROVE  /\ r \in Ids \X Digests
               /\ pending'[r[1]] = r[2] \/ ack'[r[1]] = r[2] \/ r \in conflicts'
    <3>1. promised' # promised
      BY <2>3
    <3>2. r = <<job[c].id, job[c].digest>>
      BY <1>3, <2>3, <3>1, PromiseBacked
    <3> QED
      BY <1>3, <3>1, <3>2, PromiseBacked, CallerFacts
  <2> QED
    BY <1>1, <1>2, <2>1, <2>2, <2>3, MoverKeeps
<1>4. ASSUME NEW c \in Callers, NEW i \in Ids,
             StartDeliver(c, i) \/ \E d \in Digests : StartEnqueue(c, i, d)
      PROVE  KeepInv'
  <2>1. Others(c) /\ UNCHANGED <<files, promised>>
    BY <1>2, <1>4 DEF StartDeliver, StartEnqueue, Others, Goto, TypeOK
  <2>2. FilesGrow(c)
    BY <2>1 DEF FilesGrow, files
  <2> QED
    BY <1>1, <1>2, <1>4, <2>1, <2>2, StartsSettled, MoverKeeps
<1>5. ASSUME NEW c \in Callers, SinkHandles(c) PROVE KeepInv'
  <2>1. /\ UNCHANGED <<files, pc, promised>>
        /\ pc[c] = "await" /\ job'[c].op = job[c].op /\ job'[c].digest = job[c].digest
        /\ \A d \in Callers \ {c} : job'[d] = job[d]
    BY <1>2, <1>5 DEF SinkHandles, TypeOK, Job
  <2>2. FilesGrow(c) /\ Others(c)
    BY <2>1 DEF FilesGrow, Others, files
  <2>3. Settled(c)
    BY <2>1, CallerFacts DEF Settled, OwnInv, PathInv, ClearInv, Clearing, Writing
  <2> QED
    BY <1>1, <1>2, <2>1, <2>2, <2>3, MoverKeeps
<1>6. ASSUME NEW c \in Callers, SinkFails(c) PROVE KeepInv'
  <2>1. Finish(c) /\ UNCHANGED <<files, promised>>
    BY <1>6 DEF SinkFails
  <2>2. FilesGrow(c) /\ Others(c)
    BY <1>2, <2>1, FinishEffect DEF FilesGrow, files
  <2>3. Settled(c)
    BY <1>2, <2>1, FinishOwn DEF Settled
  <2> QED
    BY <1>1, <1>2, <2>1, <2>2, <2>3, MoverKeeps
<1>7. ASSUME UNCHANGED <<pending, ack, conflicts, promised>>,
             \A c \in Callers : \/ pc'[c] = pc[c] /\ job'[c] = job[c]
                                \/ pc'[c] = "idle" /\ job'[c] = NoJob(NoId)
      PROVE  KeepInv'
  <2>1. ASSUME NEW c \in Callers PROVE PathInv(c)' /\ ClearInv(c)'
    <3>1. CASE pc'[c] = pc[c] /\ job'[c] = job[c]
      <4>1. PathInv(c)'
        BY <1>7, <3>1, CallerFacts DEF PathInv
      <4>2. Clearing(c)' = Clearing(c) /\ Cleared(c)' = Cleared(c)
        BY <3>1 DEF Clearing, Cleared
      <4>3. ClearInv(c)
        BY CallerFacts
      <4>4. (\A d \in Callers : ~Writing(d, job[c].id))
              => \A d \in Callers : ~Writing(d, job[c].id)'
        BY <1>7, <3>1 DEF Writing
      <4> QED
        BY <1>7, <3>1, <4>1, <4>2, <4>3, <4>4 DEF ClearInv
    <3>2. CASE pc'[c] = "idle" /\ job'[c] = NoJob(NoId)
      BY <3>2 DEF PathInv, ClearInv, Clearing, NoJob
    <3> QED
      BY <1>7, <3>1, <3>2
  <2>2. PromisedIsKept' /\ (promised \subseteq Ids \X Digests)'
    BY <1>7 DEF KeepInv, PromisedIsKept
  <2> QED
    BY <1>1, <1>2, <2>1, <2>2 DEF KeepInv
<1>8. ASSUME NEW r \in wire, LateRequestArrives(r) PROVE KeepInv'
  BY <1>7, <1>8 DEF LateRequestArrives, files
<1>9. ASSUME NEW p \in Processes, Crash(p) PROVE KeepInv'
  BY <1>7, <1>9 DEF Crash, files
<1>10. ASSUME NEW p \in Processes, Restart(p) PROVE KeepInv'
  BY <1>7, <1>10 DEF Restart
<1>11. CASE UNCHANGED vars
  BY <1>7, <1>11 DEF vars, files
<1> QED
  BY <1>3, <1>4, <1>5, <1>6, <1>8, <1>9, <1>10, <1>11 DEF Next

\* What enqueue has returned for stays on disk: while at most two processes
\* open the outbox root, no crash, lost reply, late request or interleaving of
\* their calls removes a promised payload that is neither acknowledged nor
\* preserved as a conflict (src/ingest/conversation-event-v3-outbox.mjs).
THEOREM PromisesKept == ASSUME AtMostTwo PROVE Spec => []PromisedIsKept
<1>1. Init => KeepInv
  BY InitKeepInv
<1>2. KeepInv /\ [Next]_vars => KeepInv'
  BY NextKeepInv
<1>3. KeepInv => PromisedIsKept
  BY DEF KeepInv
<1> QED
  BY <1>1, <1>2, <1>3, PTL DEF Spec

(***************************************************************************)
(* The overrun of maxPendingCount.  A call counts the queue and then       *)
(* writes; between the two only the calls of other processes run, so each  *)
(* process has at most one record on its way to the queue.                 *)
(***************************************************************************)

\* The caller has counted the queue and goes to add a record to it.
Adding(c) == pc[c] \in {"temp", "link"} /\ job[c].target \in {"pending", "conflict"}

\* The processes with a record on its way.
Busy == {p \in Processes : \E c \in Callers : ProcessOf[c] = p /\ Adding(c)}

Held == {i \in Ids : pending[i] # NoDigest}

OverInv ==
  /\ TypeOK /\ OneAtATime
  /\ IsFiniteSet(Held) /\ IsFiniteSet(conflicts)
  /\ QueueCount + Cardinality(Busy) <= MaxPendingCount + Cardinality(Processes) - 1

\* The counts are numbers.
LEMMA CountsAreNumbers ==
  ASSUME IsFiniteSet(Processes), IsFiniteSet(Held), IsFiniteSet(conflicts)
  PROVE  /\ IsFiniteSet(Busy) /\ Cardinality(Busy) \in Nat
         /\ Cardinality(Busy) <= Cardinality(Processes)
         /\ Cardinality(Processes) \in Nat /\ MaxPendingCount \in Nat /\ MaxPendingCount >= 1
         /\ Cardinality(Held) \in Nat /\ Cardinality(conflicts) \in Nat
         /\ QueueCount = Cardinality(Held) + Cardinality(conflicts)
<1>1. Busy \in SUBSET Processes
  BY DEF Busy
<1>2. IsFiniteSet(Busy) /\ Cardinality(Busy) <= Cardinality(Processes)
  BY <1>1, FS_Subset
<1>3. MaxPendingCount \in Nat /\ MaxPendingCount >= 1
  BY ConstantsAssumption DEF ConstantsAssumption
<1> QED
  BY <1>2, <1>3, FS_CardinalityType DEF QueueCount, Held

\* A step that adds nothing to the queue and sends no record on its way.
LEMMA QuietStep ==
  ASSUME IsFiniteSet(Processes), OverInv, TypeOK', OneAtATime',
         Held' \subseteq Held, conflicts' = conflicts, Busy' \subseteq Busy
  PROVE  OverInv'
<1>1. IsFiniteSet(Held') /\ Cardinality(Held') <= Cardinality(Held)
  BY FS_Subset DEF OverInv
<1>2. IsFiniteSet(Busy') /\ Cardinality(Busy') <= Cardinality(Busy)
  BY CountsAreNumbers, FS_Subset DEF OverInv
<1>3. QueueCount' = Cardinality(Held') + Cardinality(conflicts)
  BY DEF QueueCount, Held
<1>4. Cardinality(Held') \in Nat /\ Cardinality(Busy') \in Nat
  BY <1>1, <1>2, FS_CardinalityType
<1> QED
  BY <1>1, <1>2, <1>3, <1>4, CountsAreNumbers DEF OverInv

\* A caller that is not on its way after its step sends no record.
LEMMA BusyShrinks ==
  ASSUME NEW c \in Callers, Others(c), Adding(c)' => Adding(c)
  PROVE  Busy' \subseteq Busy
<1>1. \A d \in Callers : Adding(d)' => Adding(d)
  BY DEF Others, Adding
<1> QED
  BY <1>1 DEF Busy

\* A call ends.
LEMMA FinishQuiet ==
  ASSUME TypeOK, NEW c \in Callers, Finish(c)
  PROVE  Busy' \subseteq Busy
<1>1. ~Adding(c)'
  BY FinishEffect DEF Adding
<1> QED
  BY <1>1, FinishEffect, BusyShrinks

\* The count that a call made leaves room for every other process.
LEMMA CapacityBounded ==
  ASSUME IsFiniteSet(Processes), OverInv, TypeOK', OneAtATime',
         NEW c \in Callers, Capacity(c)
  PROVE  OverInv'
<1>1. UNCHANGED <<Held, conflicts, QueueCount>>
  BY DEF Capacity, files, Held, QueueCount
<1>2. CASE Finish(c)
  BY <1>1, <1>2, FinishQuiet, QuietStep DEF OverInv
<1>3. CASE QueueCount + 1 <= MaxPendingCount
  <2>1. Busy' \in SUBSET Processes
    BY DEF Busy
  <2>2. Cardinality(Busy') \in Nat /\ Cardinality(Busy') <= Cardinality(Processes)
    BY <2>1, FS_Subset, FS_CardinalityType
  <2> QED
    BY <1>1, <1>3, <2>2, CountsAreNumbers DEF OverInv
<1> QED
  BY <1>2, <1>3 DEF Capacity

\* A record that arrives in the queue is no longer on its way.
LEMMA LinkBounded ==
  ASSUME IsFiniteSet(Processes), OverInv, TypeOK', OneAtATime',
         NEW c \in Callers, Link(c), Others(c)
  PROVE  OverInv'
<1>1. pc[c] = "link" /\ ~Adding(c)'
  <2>1. CASE Finish(c)
    BY <2>1, FinishEffect DEF OverInv, Link, At, Adding
  <2>2. CASE Goto(c, "unlinkTemp")
    BY <2>2, GotoEffect DEF OverInv, Link, At, Steps, Adding
  <2> QED
    BY <2>1, <2>2 DEF Link
<1>2. CASE UNCHANGED <<pending, conflicts>>
  <2>1. Busy' \subseteq Busy
    BY <1>1, BusyShrinks
  <2> QED
    BY <1>2, <2>1, QuietStep DEF Held
<1>3. CASE Create(job[c].target, job[c].id, job[c].digest) /\ job[c].target \in {"pending", "conflict"}
  <2>1. ProcessOf[c] \in Processes /\ ProcessOf[c] \in Busy
    BY <1>1, <1>3, ConstantsAssumption DEF ConstantsAssumption, Busy, Adding
  <2>2. \A d \in Callers : d # c /\ ProcessOf[d] = ProcessOf[c] => pc[d] \in Yielded
    BY <1>1 DEF OverInv, OneAtATime, Yielded
  <2>3. \A d \in Callers : ProcessOf[d] = ProcessOf[c] => ~Adding(d)'
    BY <1>1, <2>2 DEF Others, Adding, Yielded
  <2>4. Busy' \subseteq Busy \ {ProcessOf[c]}
    <3>1. Busy' \subseteq Busy
      BY <1>1, BusyShrinks
    <3>2. ProcessOf[c] \notin Busy'
      BY <2>3 DEF Busy
    <3> QED
      BY <3>1, <3>2
  <2>5. IsFiniteSet(Busy) /\ IsFiniteSet(Held) /\ IsFiniteSet(conflicts)
    BY CountsAreNumbers DEF OverInv
  <2>6. /\ IsFiniteSet(Busy \ {ProcessOf[c]})
        /\ Cardinality(Busy \ {ProcessOf[c]}) = Cardinality(Busy) - 1
    BY <2>1, <2>5, FS_RemoveElement
  <2>7. Cardinality(Busy') \in Nat /\ Cardinality(Busy') <= Cardinality(Busy) - 1
    BY <2>4, <2>6, FS_Subset, FS_CardinalityType
  <2>8. /\ IsFiniteSet(Held') /\ IsFiniteSet(conflicts')
        /\ Cardinality(Held') + Cardinality(conflicts') <= Cardinality(Held) + Cardinality(conflicts) + 1
    <3>1. CASE job[c].target = "pending"
      <4>1. Held' \subseteq Held \cup {job[c].id} /\ conflicts' = conflicts
        BY <1>3, <3>1 DEF OverInv, TypeOK, Create, Held
      <4>2. /\ IsFiniteSet(Held \cup {job[c].id})
            /\ Cardinality(Held \cup {job[c].id}) \in {Cardinality(Held), Cardinality(Held) + 1}
        BY <2>5, FS_AddElement
      <4>3. IsFiniteSet(Held') /\ Cardinality(Held') <= Cardinality(Held \cup {job[c].id})
        BY <4>1, <4>2, FS_Subset
      <4> QED
        BY <2>5, <4>1, <4>2, <4>3, FS_CardinalityType
    <3>2. CASE job[c].target = "conflict"
      <4>1. Held' = Held /\ conflicts' = conflicts \cup {<<job[c].id, job[c].digest>>}
        BY <1>3, <3>2 DEF Create, Held
      <4>2. /\ IsFiniteSet(conflicts')
            /\ Cardinality(conflicts') \in {Cardinality(conflicts), Cardinality(conflicts) + 1}
        BY <2>5, <4>1, FS_AddElement
      <4> QED
        BY <2>5, <4>1, <4>2, FS_CardinalityType
    <3> QED
      BY <1>3, <3>1, <3>2
  <2>9. QueueCount' = Cardinality(Held') + Cardinality(conflicts')
    BY DEF QueueCount, Held
  <2>10. Cardinality(Held') \in Nat /\ Cardinality(conflicts') \in Nat
    BY <2>8, FS_CardinalityType
  <2> QED
    BY <2>7, <2>8, <2>9, <2>10, CountsAreNumbers DEF OverInv
<1> QED
  BY <1>2, <1>3 DEF Link, Create, OverInv, TypeOK, Job, Targets

\* Nothing is queued or on its way at first.
LEMMA InitOverInv == ASSUME IsFiniteSet(Processes) PROVE Init => OverInv
<1> SUFFICES ASSUME Init PROVE OverInv
  OBVIOUS
<1>1. TypeOK
  BY InitIInv DEF IInv
<1>2. Held = {} /\ Busy = {} /\ conflicts = {}
  BY DEF Init, Held, Busy, Adding
<1>3. IsFiniteSet(Held) /\ IsFiniteSet(conflicts) /\ Cardinality({}) = 0
  BY <1>2, FS_EmptySet
<1>4. OneAtATime
  BY DEF Init, OneAtATime, Yielded
<1> QED
  BY <1>1, <1>2, <1>3, <1>4, CountsAreNumbers DEF OverInv

\* Every step keeps the count.
LEMMA NextOverInv ==
  ASSUME IsFiniteSet(Processes)
  PROVE  OverInv /\ [Next]_vars => OverInv'
<1> SUFFICES ASSUME OverInv, [Next]_vars PROVE OverInv'
  OBVIOUS
<1>1. TypeOK /\ TypeOK' /\ OneAtATime'
  BY TypeStep, TurnsStep DEF OverInv
<1>2. ASSUME NEW c \in Callers, CallerStep(c) PROVE OverInv'
  <2>1. Others(c)
    BY <1>1, <1>2, CallerControl
  <2>2. CASE Capacity(c)
    BY <1>1, <2>2, CapacityBounded
  <2>3. CASE Link(c)
    BY <1>1, <2>1, <2>3, LinkBounded
  <2>4. CASE ~Capacity(c) /\ ~Link(c)
    <3>1. conflicts' = conflicts /\ (pending' = pending \/ pending' = [pending EXCEPT ![job[c].id] = NoDigest])
      BY <1>2, <2>4 DEF CallerStep, ReadAck, ReadPending, UnlinkStale, ReadConflict, WriteTemp,
         UnlinkTemp, ReadRecord, SinkReturns, Recheck, UnlinkPending, files
    <3>2. Held' \subseteq Held
      BY <1>1, <3>1 DEF Held, TypeOK
    <3>3. Adding(c)' => Adding(c)
      <4>1. CASE WriteTemp(c)
        BY <4>1 DEF WriteTemp, At, Adding
      <4>2. CASE Recheck(c)
        BY <1>1, <4>2, FieldsKept, FinishEffect DEF Recheck, Targets, Adding
      <4>3. CASE ~WriteTemp(c) /\ ~Recheck(c)
        <5>1. \/ Finish(c)
              \/ \E a : Resolve(c, a)
              \/ \E s \in Steps \ {"temp", "link"} : Goto(c, s)
          BY <1>2, <2>4, <4>3 DEF CallerStep, ReadAck, ReadPending, UnlinkStale, ReadConflict,
             UnlinkTemp, ReadRecord, SinkReturns, UnlinkPending, Steps, Yielded
        <5>2. \/ Finish(c)
              \/ \E s \in Steps \ {"temp", "link"} : Goto(c, s)
          BY <5>1 DEF Resolve, Steps
        <5> QED
          BY <1>1, <5>2, FinishEffect, GotoEffect DEF Adding
      <4> QED
        BY <4>1, <4>2, <4>3
    <3>4. Busy' \subseteq Busy
      BY <2>1, <3>3, BusyShrinks
    <3> QED
      BY <1>1, <3>1, <3>2, <3>4, QuietStep
  <2> QED
    BY <2>2, <2>3, <2>4
<1>3. ASSUME UNCHANGED <<pending, conflicts>>,
             \A c \in Callers : Adding(c)' => Adding(c)
      PROVE  OverInv'
  <2>1. Held' = Held /\ Busy' \subseteq Busy
    BY <1>3 DEF Held, Busy
  <2> QED
    BY <1>1, <1>3, <2>1, QuietStep
<1>4. ASSUME NEW c \in Callers, NEW i \in Ids,
             StartDeliver(c, i) \/ \E d \in Digests : StartEnqueue(c, i, d)
      PROVE  OverInv'
  <2>1. \A d \in Callers : pc'[d] = "readAck" \/ (pc'[d] = pc[d] /\ job'[d] = job[d])
    BY <1>1, <1>4 DEF StartDeliver, StartEnqueue, Goto, TypeOK
  <2> QED
    BY <1>3, <1>4, <2>1 DEF StartDeliver, StartEnqueue, Adding, files
<1>5. ASSUME NEW c \in Callers, SinkHandles(c) PROVE OverInv'
  <2>1. \A d \in Callers : pc'[d] = pc[d] /\ job'[d].target = job[d].target
    BY <1>1, <1>5 DEF SinkHandles, TypeOK, Job
  <2> QED
    BY <1>3, <1>5, <2>1 DEF SinkHandles, Adding, files
<1>6. ASSUME NEW c \in Callers, SinkFails(c) PROVE OverInv'
  <2>1. Finish(c) /\ UNCHANGED files
    BY <1>6 DEF SinkFails
  <2> QED
    BY <1>1, <2>1, FinishQuiet, QuietStep DEF files, Held
<1>7. ASSUME NEW r \in wire, LateRequestArrives(r) PROVE OverInv'
  BY <1>3, <1>7 DEF LateRequestArrives, Adding, files
<1>8. ASSUME NEW p \in Processes, Crash(p) PROVE OverInv'
  <2>1. \A d \in Callers : pc'[d] = "idle" \/ (pc'[d] = pc[d] /\ job'[d] = job[d])
    BY <1>8 DEF Crash
  <2> QED
    BY <1>3, <1>8, <2>1 DEF Crash, Adding, files
<1>9. ASSUME NEW p \in Processes, Restart(p) PROVE OverInv'
  BY <1>3, <1>9 DEF Restart, Adding
<1>10. CASE UNCHANGED vars
  BY <1>3, <1>10 DEF vars, files, Adding
<1> QED
  BY <1>2, <1>4, <1>5, <1>6, <1>7, <1>8, <1>9, <1>10 DEF Next

\* However many processes share the root, the queue exceeds maxPendingCount by
\* at most one record for each further process: #assertCapacity counts, and the
\* record is linked later, after the other processes may have counted too.
THEOREM QueueOverrunBounded ==
  ASSUME IsFiniteSet(Processes)
  PROVE  Spec => []OverrunBounded
<1>1. Init => OverInv
  BY InitOverInv
<1>2. OverInv /\ [Next]_vars => OverInv'
  BY NextOverInv
<1>3. OverInv => OverrunBounded
  <2> SUFFICES ASSUME OverInv PROVE OverrunBounded
    OBVIOUS
  <2>1. QueueCount \in Nat /\ Cardinality(Busy) \in Nat
    BY CountsAreNumbers DEF OverInv
  <2> QED
    BY <2>1, CountsAreNumbers DEF OverInv, OverrunBounded
<1> QED
  BY <1>1, <1>2, <1>3, PTL DEF Spec

=============================================================================
