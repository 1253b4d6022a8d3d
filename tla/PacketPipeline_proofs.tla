------------------------ MODULE PacketPipeline_proofs ------------------------
(***************************************************************************)
(* Proofs about PacketPipeline for any number of worker threads, packets    *)
(* and any sizes of the queue and the buffer.                               *)
(***************************************************************************)
EXTENDS PacketPipeline, FiniteSetTheorems, SequenceTheorems, TLAPS

(* The local variables of a worker are set where call() uses them.          *)
LocalsSet ==
  \A w \in Workers :
    /\ pc[w] \in {"lookup", "merge", "put", "process"} => packet[w] \in Packets
    /\ pc[w] = "merge" => existing[w] \in Packets

(* The worker inside process, and no other, owns the map's mutex; the entry *)
(* it evicts is still in the buffer.                                        *)
MutexHeld ==
  /\ \A w \in Workers : pc[w] = "process" => mutex = w
  /\ mutex # None => doublets # <<>>

IInv == TypeOK /\ LocalsSet /\ MutexHeld

LEMMA InitIInv == Init => IInv
<1> SUFFICES ASSUME Init PROVE IInv
  OBVIOUS
<1>1. received \in 0 .. NumPackets /\ tasks \in Nat /\ stranded \in Nat /\ failures \in Nat
  BY PipelineAssumption DEF Init
<1>2. queue \in Seq(Packets) /\ doublets \in Seq(Packets)
  BY DEF Init
<1>3. /\ pc \in [Workers -> WorkerPc]
      /\ packet \in [Workers -> Packets \cup {None}]
      /\ existing \in [Workers -> Packets \cup {None}]
      /\ sourceList \in [Packets -> SUBSET Sources]
      /\ mutex \in Workers \cup {None}
      /\ processed \in [Packets -> Nat]
  BY DEF Init, WorkerPc
<1>4. LocalsSet /\ MutexHeld
  BY DEF Init, LocalsSet, MutexHeld
<1> QED
  BY <1>1, <1>2, <1>3, <1>4 DEF Init, IInv, TypeOK

(* A worker that finishes its task clears its own registers only.           *)
LEMMA FinishType ==
  ASSUME IInv, NEW w \in Workers, Finish(w)
  PROVE  /\ pc' \in [Workers -> WorkerPc]
         /\ packet' \in [Workers -> Packets \cup {None}]
         /\ existing' \in [Workers -> Packets \cup {None}]
         /\ LocalsSet'
  BY DEF IInv, TypeOK, LocalsSet, Finish, WorkerPc

LEMMA BusStepIInv == IInv /\ BusStep => IInv'
<1> SUFFICES ASSUME IInv, BusStep PROVE IInv'
  OBVIOUS
<1> USE PipelineAssumption
<1>1. CASE DropPacket
  BY <1>1 DEF DropPacket, IInv, TypeOK, LocalsSet, MutexHeld, poolVars, workerVars, bufferVars, calcVars
<1>2. CASE AcceptPacket
  BY <1>2 DEF AcceptPacket, IInv, TypeOK, LocalsSet, MutexHeld, poolVars, workerVars, bufferVars, calcVars
<1>3. CASE AddPacket
  <2>1. received + 1 \in Packets
    BY <1>3 DEF AddPacket, IInv, TypeOK, Packets
  <2>2. queue' \in Seq(Packets)
    BY <1>3, <2>1 DEF AddPacket, IInv, TypeOK
  <2> QED
    BY <1>3, <2>2 DEF AddPacket, IInv, TypeOK, LocalsSet, MutexHeld, poolVars, workerVars, bufferVars, calcVars
<1>4. CASE SubmitTask
  BY <1>4 DEF SubmitTask, IInv, TypeOK, LocalsSet, MutexHeld, workerVars, bufferVars, calcVars
<1> QED
  BY <1>1, <1>2, <1>3, <1>4 DEF BusStep

LEMMA WorkerStepIInv ==
  ASSUME IInv, NEW w \in Workers, WorkerStep(w)
  PROVE  IInv'
<1> USE PipelineAssumption
<1>1. CASE TakeTask(w)
  <2>1. tasks' \in Nat
    BY <1>1 DEF TakeTask, TaskWaiting, IInv, TypeOK
  <2> QED
    BY <1>1, <2>1 DEF TakeTask, IInv, TypeOK, LocalsSet, MutexHeld, WorkerPc, busVars, bufferVars, calcVars
<1>2. CASE PollAndConvert(w)
  <2>1. Head(queue) \in Packets /\ queue' \in Seq(Packets)
    BY <1>2 DEF PollAndConvert, IInv, TypeOK
  <2>2. SourceOf[Head(queue)] \in Sources
    BY <2>1
  <2>3. CASE KeyOf[Head(queue)] = Filtered
    BY <1>2, <2>1, <2>3
       DEF PollAndConvert, IInv, TypeOK, LocalsSet, MutexHeld, WorkerPc, poolVars, calcVars
  <2>4. CASE KeyOf[Head(queue)] # Filtered
    <3>1. sourceList' \in [Packets -> SUBSET Sources]
      <4>1. sourceList' = [sourceList EXCEPT ![Head(queue)] = {SourceOf[Head(queue)]}]
        BY <1>2, <2>4 DEF PollAndConvert
      <4>2. sourceList \in [Packets -> SUBSET Sources]
        BY DEF IInv, TypeOK
      <4> QED
        BY <2>1, <2>2, <4>1, <4>2
    <3>2. /\ pc' = [pc EXCEPT ![w] = "lookup"]
          /\ packet' = [packet EXCEPT ![w] = Head(queue)]
      BY <1>2, <2>4 DEF PollAndConvert
    <3> QED
      BY <1>2, <2>1, <3>1, <3>2
         DEF PollAndConvert, IInv, TypeOK, LocalsSet, MutexHeld, WorkerPc, poolVars, calcVars
  <2> QED
    BY <2>3, <2>4
<1>3. CASE LookUp(w)
  <2>1. CASE pc' = [pc EXCEPT ![w] = "put"] /\ UNCHANGED existing
    BY <1>3, <2>1
       DEF LookUp, IInv, TypeOK, LocalsSet, MutexHeld, WorkerPc, busVars, poolVars, bufferVars, calcVars
  <2>2. CASE \E i \in Holding(packet[w]) :
                /\ pc' = [pc EXCEPT ![w] = "merge"]
                /\ existing' = [existing EXCEPT ![w] = doublets[i]]
    <3>1. PICK i \in Holding(packet[w]) :
                /\ pc' = [pc EXCEPT ![w] = "merge"]
                /\ existing' = [existing EXCEPT ![w] = doublets[i]]
      BY <2>2
    <3>2. doublets[i] \in Packets
      BY <3>1 DEF Holding, IInv, TypeOK
    <3> QED
      BY <1>3, <3>1, <3>2
         DEF LookUp, IInv, TypeOK, LocalsSet, MutexHeld, WorkerPc, busVars, poolVars, bufferVars, calcVars
  <2> QED
    BY <1>3, <2>1, <2>2 DEF LookUp
<1>4. CASE MergeSource(w)
  <2>1. existing[w] \in Packets /\ packet[w] \in Packets
    BY <1>4 DEF MergeSource, IInv, LocalsSet
  <2>2. sourceList' \in [Packets -> SUBSET Sources]
    BY <1>4, <2>1 DEF MergeSource, MergeTarget, IInv, TypeOK
  <2>3. raced' \in BOOLEAN
    BY <1>4 DEF MergeSource, IInv, TypeOK
  <2>4. Finish(w) /\ UNCHANGED <<busVars, poolVars, doublets, mutex, processed, failures>>
    BY <1>4 DEF MergeSource
  <2>5. MutexHeld'
    BY <2>4 DEF IInv, MutexHeld, Finish, TypeOK
  <2> QED
    BY <2>2, <2>3, <2>4, <2>5, FinishType DEF IInv, TypeOK, busVars, poolVars
<1>5. CASE PutOver(w)
  <2>1. Finish(w) /\ UNCHANGED <<busVars, poolVars, sourceList, mutex, calcVars>>
    BY <1>5 DEF PutOver
  <2>2. packet[w] \in Packets
    BY <1>5 DEF PutOver, IInv, LocalsSet
  <2>3. doublets' \in Seq(Packets) /\ Len(doublets') = Len(doublets)
    <3>1. doublets \in Seq(Packets)
      BY DEF IInv, TypeOK
    <3>2. PICK i \in 1 .. Len(doublets) : doublets' = [doublets EXCEPT ![i] = packet[w]]
      <4>1. PICK i \in Holding(packet[w]) : doublets' = [doublets EXCEPT ![i] = packet[w]]
        BY <1>5 DEF PutOver
      <4>2. i \in 1 .. Len(doublets)
        BY <3>1, <4>1 DEF Holding
      <4> QED
        BY <4>1, <4>2
    <3> QED
      BY <2>2, <3>1, <3>2, ExceptSeq
  <2>4. MutexHeld'
    BY <2>1, <1>5 DEF PutOver, MapIsFree, IInv, MutexHeld, Finish, TypeOK
  <2> QED
    BY <2>1, <2>3, <2>4, FinishType DEF IInv, TypeOK, busVars, poolVars, calcVars
<1>6. CASE PutNew(w)
  <2>1. Finish(w) /\ UNCHANGED <<busVars, poolVars, sourceList, mutex, calcVars>>
    BY <1>6 DEF PutNew
  <2>2. packet[w] \in Packets
    BY <1>6 DEF PutNew, IInv, LocalsSet
  <2>3. doublets' \in Seq(Packets)
    BY <1>6, <2>2 DEF PutNew, WithNewest, IInv, TypeOK
  <2>4. MutexHeld'
    BY <2>1, <1>6 DEF PutNew, MapIsFree, IInv, MutexHeld, Finish, TypeOK
  <2> QED
    BY <2>1, <2>3, <2>4, FinishType DEF IInv, TypeOK, busVars, poolVars, calcVars
<1>7. CASE PutAndEvict(w)
  <2>1. packet[w] \in Packets
    BY <1>7 DEF PutAndEvict, IInv, LocalsSet
  <2>2. doublets' \in Seq(Packets) /\ doublets' # <<>>
    <3>1. doublets \in Seq(Packets) /\ doublets' = Append(doublets, packet[w])
      BY <1>7 DEF PutAndEvict, WithNewest, IInv, TypeOK
    <3> QED
      BY <2>1, <3>1
  <2>3. processed' \in [Packets -> Nat]
    <3>1. processed \in [Packets -> Nat]
      BY DEF IInv, TypeOK
    <3>2. PICK e \in Packets : processed' = [processed EXCEPT ![e] = @ + 1]
      <4>1. Head(doublets') \in Packets
        BY <2>2
      <4> QED
        BY <4>1, <1>7 DEF PutAndEvict, EldestWith
    <3> QED
      BY <3>1, <3>2
  <2>4. pc' = [pc EXCEPT ![w] = "process"] /\ mutex' = w /\ mutex = None
    BY <1>7 DEF PutAndEvict, MapIsFree
  <2>5. MutexHeld'
    BY <2>2, <2>4 DEF IInv, MutexHeld, TypeOK, None
  <2>6. LocalsSet'
    BY <1>7, <2>1, <2>4 DEF PutAndEvict, IInv, LocalsSet, TypeOK
  <2> QED
    BY <1>7, <2>2, <2>3, <2>4, <2>5, <2>6
       DEF PutAndEvict, IInv, TypeOK, WorkerPc, busVars, poolVars
<1>8. CASE ProcessReturns(w)
  <2>1. mutex = w /\ mutex # None /\ doublets # <<>>
    BY <1>8 DEF ProcessReturns, IInv, MutexHeld, None
  <2>2. doublets' \in Seq(Packets)
    BY <1>8, <2>1 DEF ProcessReturns, WithoutEldest, IInv, TypeOK
  <2>3. Finish(w) /\ mutex' = None /\ raced' = FALSE
        /\ UNCHANGED <<busVars, poolVars, sourceList, processed, failures>>
    BY <1>8 DEF ProcessReturns, LeaveMap
  <2>4. MutexHeld'
    BY <2>1, <2>3 DEF IInv, MutexHeld, Finish, TypeOK
  <2> QED
    BY <2>2, <2>3, <2>4, FinishType DEF IInv, TypeOK, busVars, poolVars
<1>9. CASE ProcessThrows(w)
  <2>1. mutex = w
    BY <1>9 DEF ProcessThrows, IInv, MutexHeld
  <2>2. Finish(w) /\ mutex' = None /\ raced' = FALSE /\ failures' = failures + 1
        /\ UNCHANGED <<busVars, poolVars, doublets, sourceList, processed>>
    BY <1>9 DEF ProcessThrows, LeaveMap
  <2> failures' \in Nat
    BY <2>2 DEF IInv, TypeOK
  <2>3. MutexHeld'
    BY <2>1, <2>2 DEF IInv, MutexHeld, Finish, TypeOK
  <2> QED
    BY <2>2, <2>3, FinishType DEF IInv, TypeOK, busVars, poolVars
<1> QED
  BY <1>1, <1>2, <1>3, <1>4, <1>5, <1>6, <1>7, <1>8, <1>9 DEF WorkerStep

LEMMA NextIInv == IInv /\ [Next]_vars => IInv'
<1> SUFFICES ASSUME IInv, [Next]_vars PROVE IInv'
  OBVIOUS
<1>1. CASE BusStep
  BY <1>1, BusStepIInv
<1>2. CASE \E w \in Workers : WorkerStep(w)
  BY <1>2, WorkerStepIInv
<1>3. CASE Shutdown
  BY <1>3 DEF Shutdown, IInv, TypeOK, LocalsSet, MutexHeld, busVars, workerVars, bufferVars, calcVars
<1>4. CASE ShutdownNow
  BY <1>4 DEF ShutdownNow, IInv, TypeOK, LocalsSet, MutexHeld, busVars, workerVars, bufferVars, calcVars
<1>5. CASE UNCHANGED vars
  BY <1>5 DEF IInv, TypeOK, LocalsSet, MutexHeld, vars, busVars, poolVars, workerVars, bufferVars, calcVars
<1> QED
  BY <1>1, <1>2, <1>3, <1>4, <1>5 DEF Next, Quiescent

(* Every variable keeps its type, whatever the threads do.                  *)
THEOREM TypeCorrect == Spec => []TypeOK
<1>1. Spec => []IInv
  BY InitIInv, NextIInv, PTL DEF Spec
<1>2. IInv => TypeOK
  BY DEF IInv
<1> QED
  BY <1>1, <1>2, PTL
-----------------------------------------------------------------------------
(* The bus thread tests the size of the queue in one step and adds in a     *)
(* later one; in between only workers touch the queue, and they shorten it. *)

LEMMA QueueBoundedStep == IInv /\ QueueBounded /\ [Next]_vars => QueueBounded'
<1> SUFFICES ASSUME IInv, QueueBounded, [Next]_vars PROVE QueueBounded'
  OBVIOUS
<1> USE PipelineAssumption
<1>0. queue \in Seq(Packets)
  BY DEF IInv, TypeOK
<1>1. CASE AddPacket
  <2>1. Len(queue') = Len(queue) + 1
    BY <1>0, <1>1 DEF AddPacket
  <2> QED
    BY <1>0, <1>1, <2>1 DEF AddPacket, QueueBounded
<1>2. CASE AcceptPacket
  BY <1>0, <1>2 DEF AcceptPacket, QueueIsFull, QueueBounded
<1>3. CASE \E w \in Workers : PollAndConvert(w)
  <2>1. Len(queue') = Len(queue) - 1 /\ busPc' = busPc
    BY <1>0, <1>3 DEF PollAndConvert
  <2> QED
    BY <1>0, <2>1 DEF QueueBounded
<1>4. CASE SubmitTask
  BY <1>0, <1>4 DEF SubmitTask, QueueBounded
<1>5. CASE UNCHANGED <<busPc, queue>>
  BY <1>5 DEF QueueBounded
<1> QED
  BY <1>1, <1>2, <1>3, <1>4, <1>5
     DEF Next, BusStep, WorkerStep, DropPacket, TakeTask, LookUp, MergeSource, PutOver, PutNew,
         PutAndEvict, ProcessReturns, ProcessThrows, Shutdown, ShutdownNow, Quiescent, vars, busVars

(* The queue of unhandled packets never exceeds its configured size.        *)
THEOREM QueueNeverOverflows == Spec => []QueueBounded
<1>1. Init => QueueBounded
  BY PipelineAssumption DEF Init, QueueBounded
<1> QED
  BY <1>1, InitIInv, NextIInv, QueueBoundedStep, PTL DEF Spec

-----------------------------------------------------------------------------
(* The queue holds exactly one packet for each task that has not polled it, *)
(* waiting or taken, one for the task the bus thread is about to submit,    *)
(* and one for each task that was rejected or cancelled.                    *)
Submitting == IF busPc = "submit" THEN 1 ELSE 0
PacketPerTask == Cardinality(Polling) + tasks + stranded + Submitting = Len(queue)

LEMMA PollingFinite == IsFiniteSet(Polling) /\ Cardinality(Polling) \in Nat
  BY PipelineAssumption, FS_Subset, FS_CardinalityType DEF Polling

(* A worker that moves between places other than the poll leaves Polling    *)
(* as it was.                                                               *)
LEMMA PollingUnchanged ==
  ASSUME IInv, NEW w \in Workers, pc[w] # "poll",
         NEW v, v # "poll", pc' = [pc EXCEPT ![w] = v]
  PROVE  Polling' = Polling
  BY DEF IInv, TypeOK, Polling

LEMMA OneFewer ==
  ASSUME NEW n \in Int, NEW t \in Int, NEW s \in Int, NEW u \in Int, NEW l \in Int,
         n + t + s + u = l
  PROVE  n - 1 + t + s + u = l - 1
  OBVIOUS

LEMMA PacketPerTaskStep == IInv /\ PacketPerTask /\ [Next]_vars => PacketPerTask'
<1> SUFFICES ASSUME IInv, PacketPerTask, [Next]_vars PROVE PacketPerTask'
  OBVIOUS
<1> USE PipelineAssumption
<1>0. /\ queue \in Seq(Packets) /\ tasks \in Nat /\ stranded \in Nat /\ pc \in [Workers -> WorkerPc]
      /\ Cardinality(Polling) \in Nat
  BY PollingFinite DEF IInv, TypeOK
<1>1. CASE BusStep
  <2>1. Polling' = Polling
    BY <1>1 DEF BusStep, DropPacket, AcceptPacket, AddPacket, SubmitTask, workerVars, Polling
  <2>2. CASE AddPacket
    <3>1. Len(queue') = Len(queue) + 1 /\ tasks' = tasks /\ stranded' = stranded
      BY <1>0, <2>2 DEF AddPacket, poolVars
    <3> QED
      BY <1>0, <2>1, <2>2, <3>1 DEF AddPacket, PacketPerTask, Submitting
  <2>3. CASE SubmitTask
    BY <1>0, <2>1, <2>3 DEF SubmitTask, PacketPerTask, Submitting
  <2>4. CASE DropPacket \/ AcceptPacket
    BY <1>0, <2>1, <2>4 DEF DropPacket, AcceptPacket, PacketPerTask, Submitting, poolVars
  <2> QED
    BY <1>1, <2>2, <2>3, <2>4 DEF BusStep
<1>2. ASSUME NEW w \in Workers, WorkerStep(w) PROVE PacketPerTask'
  <2>1. CASE TakeTask(w)
    <3>1. Polling' = Polling \cup {w} /\ w \notin Polling
      BY <1>0, <2>1 DEF TakeTask, Polling
    <3>2. Cardinality(Polling') = Cardinality(Polling) + 1
      BY <3>1, PollingFinite, FS_AddElement
    <3> QED
      BY <1>0, <2>1, <3>2 DEF TakeTask, TaskWaiting, PacketPerTask, Submitting, busVars
  <2>2. CASE PollAndConvert(w)
    <3>1. Polling' = Polling \ {w} /\ w \in Polling
      BY <1>0, <2>2 DEF PollAndConvert, Polling
    <3>2. Cardinality(Polling') = Cardinality(Polling) - 1
      BY <3>1, PollingFinite, FS_RemoveElement
    <3>3. Len(queue') = Len(queue) - 1
      BY <1>0, <2>2 DEF PollAndConvert
    <3>4. tasks' = tasks /\ stranded' = stranded /\ Submitting' = Submitting
      BY <2>2 DEF PollAndConvert, Submitting, poolVars
    <3>5. Submitting \in Nat /\ Len(queue) \in Nat
      BY <1>0 DEF Submitting
    <3>6. Cardinality(Polling) - 1 + tasks + stranded + Submitting = Len(queue) - 1
      <4>1. /\ Cardinality(Polling) \in Int /\ tasks \in Int /\ stranded \in Int
            /\ Submitting \in Int /\ Len(queue) \in Int
        BY <1>0, <3>5
      <4>2. Cardinality(Polling) + tasks + stranded + Submitting = Len(queue)
        BY DEF PacketPerTask
      <4> HIDE PipelineAssumption
      <4> QED
        BY <4>1, <4>2, OneFewer
    <3> QED
      BY <3>2, <3>3, <3>4, <3>6 DEF PacketPerTask
  <2>3. CASE UNCHANGED <<busPc, queue, tasks, stranded>> /\ pc[w] # "poll"
             /\ \E v \in WorkerPc \ {"poll"} : pc' = [pc EXCEPT ![w] = v]
    <3>1. Polling' = Polling
      BY <2>3, PollingUnchanged
    <3> QED
      BY <2>3, <3>1 DEF PacketPerTask, Submitting
  <2> QED
    BY <1>2, <2>1, <2>2, <2>3
       DEF WorkerStep, LookUp, MergeSource, PutOver, PutNew, PutAndEvict, ProcessReturns,
           ProcessThrows, Finish, WorkerPc, busVars, poolVars
<1>3. CASE Shutdown \/ ShutdownNow
  <2>1. Polling' = Polling
    BY <1>3 DEF Shutdown, ShutdownNow, workerVars, Polling
  <2> QED
    BY <1>0, <1>3, <2>1 DEF Shutdown, ShutdownNow, PacketPerTask, Submitting, busVars
<1>4. CASE UNCHANGED vars
  BY <1>4 DEF PacketPerTask, Submitting, Polling, vars, busVars, poolVars, workerVars
<1> QED
  BY <1>1, <1>2, <1>3, <1>4 DEF Next, Quiescent

LEMMA PacketPerTaskHolds == Spec => [](IInv /\ PacketPerTask)
<1>1. Init => PacketPerTask
  <2>1. Init => Polling = {}
    BY DEF Init, Polling
  <2>2. Init => Cardinality(Polling) = 0
    BY <2>1, FS_EmptySet
  <2>3. Init => Submitting = 0 /\ Len(queue) = 0 /\ tasks = 0 /\ stranded = 0
    BY DEF Init, Submitting
  <2> QED
    BY <2>2, <2>3 DEF PacketPerTask
<1> QED
  BY <1>1, InitIInv, NextIInv, PacketPerTaskStep, PTL DEF Spec

(* A worker that polls always finds a packet, also when the pool is being   *)
(* shut down and when packets are dropped: a null packet never reaches      *)
(* packetToCustomMessage.                                                   *)
THEOREM PollAlwaysFindsPacket == Spec => []PollFindsPacket
<1>1. IInv /\ PacketPerTask => PollFindsPacket
  BY PollingFinite DEF IInv, TypeOK, PacketPerTask, Submitting, PollFindsPacket
<1> QED
  BY <1>1, PacketPerTaskHolds, PTL

(* A stop that rejects and cancels no task leaves the queue empty: a packet *)
(* can be left behind only by a task that is counted as stranded.           *)
THEOREM StopDrainsQueue == Spec => []CleanStopDrainsQueue
<1>1. IInv /\ PacketPerTask => CleanStopDrainsQueue
  <2> SUFFICES ASSUME IInv, PacketPerTask, stranded = 0, busPc # "submit", PoolIsDrained
               PROVE  queue = <<>>
    BY DEF CleanStopDrainsQueue
  <2>1. Polling = {}
    BY DEF PoolIsDrained, Polling
  <2>2. queue \in Seq(Packets) /\ Len(queue) = 0
    BY <2>1, FS_EmptySet DEF IInv, TypeOK, PacketPerTask, Submitting, PoolIsDrained
  <2> QED
    BY <2>2
<1> QED
  BY <1>1, PacketPerTaskHolds, PTL

-----------------------------------------------------------------------------
(* The calculators are never entered by two workers at once.                *)
THEOREM CalculatorsRunAlone == Spec => []ProcessIsExclusive
<1>1. IInv => ProcessIsExclusive
  BY DEF IInv, MutexHeld, ProcessIsExclusive
<1> QED
  BY <1>1, InitIInv, NextIInv, PTL DEF Spec

(* The doublet buffer exceeds its configured size by the entry being        *)
(* evicted and by the failures of process, never by more.                   *)
THEOREM BufferStaysBounded == Spec => []BufferBounded
<1>1. Init => BufferBounded
  BY PipelineAssumption DEF Init, BufferBounded
<1>2. IInv /\ BufferBounded /\ [Next]_vars => BufferBounded'
  <2> SUFFICES ASSUME IInv, BufferBounded, [Next]_vars PROVE BufferBounded'
    OBVIOUS
  <2> USE PipelineAssumption
  <2>0. doublets \in Seq(Packets) /\ failures \in Nat /\ MaxBuffered \in Nat /\ None \notin Workers
    BY DEF IInv, TypeOK
  <2>1. ASSUME NEW w \in Workers, PutOver(w) PROVE BufferBounded'
    <3>1. Len(doublets') = Len(doublets) /\ UNCHANGED <<mutex, failures>>
      BY <2>0, <2>1 DEF PutOver, Holding, calcVars
    <3> QED
      BY <3>1 DEF BufferBounded
  <2>2. ASSUME NEW w \in Workers, PutNew(w) PROVE BufferBounded'
    <3>1. /\ Len(doublets') = Len(doublets) + 1
          /\ Len(doublets) + 1 <= MaxBuffered
          /\ mutex' = mutex /\ failures' = failures
      BY <2>0, <2>2 DEF PutNew, WithNewest, EvictionDue, calcVars
    <3> QED
      BY <2>0, <3>1 DEF BufferBounded
  <2>3. ASSUME NEW w \in Workers, PutAndEvict(w) PROVE BufferBounded'
    <3>1. Len(doublets') = Len(doublets) + 1 /\ mutex = None /\ mutex' = w /\ failures' = failures
      BY <2>0, <2>3 DEF PutAndEvict, WithNewest, MapIsFree
    <3> QED
      BY <2>0, <3>1 DEF BufferBounded
  <2>4. ASSUME NEW w \in Workers, ProcessReturns(w) PROVE BufferBounded'
    <3>1. mutex # None /\ doublets # <<>>
      BY <2>0, <2>4 DEF ProcessReturns, IInv, MutexHeld
    <3>2. Len(doublets') = Len(doublets) - 1 /\ mutex' = None /\ failures' = failures
      BY <2>0, <2>4, <3>1 DEF ProcessReturns, WithoutEldest, LeaveMap
    <3> QED
      BY <2>0, <3>1, <3>2 DEF BufferBounded
  <2>5. ASSUME NEW w \in Workers, ProcessThrows(w) PROVE BufferBounded'
    <3>1. mutex # None
      BY <2>0, <2>5 DEF ProcessThrows, IInv, MutexHeld
    <3>2. doublets' = doublets /\ mutex' = None /\ failures' = failures + 1
      BY <2>5 DEF ProcessThrows, LeaveMap
    <3> QED
      BY <2>0, <3>1, <3>2 DEF BufferBounded
  <2>6. CASE UNCHANGED <<doublets, mutex, failures>>
    BY <2>6 DEF BufferBounded
  <2> QED
    BY <2>1, <2>2, <2>3, <2>4, <2>5, <2>6
       DEF Next, BusStep, WorkerStep, DropPacket, AcceptPacket, AddPacket, SubmitTask, TakeTask,
           PollAndConvert, LookUp, MergeSource, Shutdown, ShutdownNow, Quiescent, vars,
           bufferVars, calcVars
<1> QED
  BY <1>1, <1>2, InitIInv, NextIInv, PTL DEF Spec

-----------------------------------------------------------------------------
(* Where a message can be: no packet is in two places at once, so each      *)
(* message reaches process once, unless a failing call leaves it behind.    *)

(* the newest packet the bus thread has queued or dropped                   *)
Appended == IF busPc = "submit" THEN received + 1 ELSE received

(* packets whose message has not reached the buffer yet                     *)
Fresh == {p \in Packets : processed[p] = 0 /\ p \notin Buffered}

QueueIsFresh ==
  /\ \A i \in DOMAIN queue : queue[i] <= Appended /\ queue[i] \in Fresh
  /\ \A i, j \in DOMAIN queue : queue[i] = queue[j] => i = j
  /\ \A p \in Packets : p > Appended => p \in Fresh

WorkersApart ==
  /\ \A w \in Workers :
       packet[w] # None => packet[w] <= Appended /\ \A i \in DOMAIN queue : queue[i] # packet[w]
  /\ \A v, w \in Workers : packet[v] = packet[w] /\ packet[v] # None => v = w
  /\ \A w \in Workers : pc[w] \in {"lookup", "merge", "put"} => packet[w] \in Fresh
  /\ \A w \in Workers : pc[w] \in {"idle", "poll"} => packet[w] = None

BufferedOnce == \A i, j \in DOMAIN doublets : doublets[i] = doublets[j] => i = j

(* A buffered message has been processed by failing calls only, except the  *)
(* eldest while it is being evicted.                                        *)
Evictions ==
  /\ \A i \in DOMAIN doublets : processed[doublets[i]] <= failures \/ (mutex # None /\ i = 1)
  /\ mutex # None => processed[Head(doublets)] > 0

OnePlace == QueueIsFresh /\ WorkersApart /\ BufferedOnce /\ Evictions /\ ProcessedOnce

LEMMA InitOnePlace == Init => OnePlace
<1> SUFFICES ASSUME Init PROVE OnePlace
  OBVIOUS
<1>1. queue = <<>> /\ doublets = <<>> /\ failures = 0 /\ mutex = None
      /\ \A p \in Packets : processed[p] = 0 /\ p \in Fresh
  BY DEF Init, Buffered, Fresh
<1>2. \A w \in Workers : packet[w] = None /\ pc[w] = "idle"
  BY DEF Init
<1> QED
  BY <1>1, <1>2
     DEF OnePlace, QueueIsFresh, WorkersApart, BufferedOnce, Evictions, ProcessedOnce

(* Steps that touch neither the buffer nor the calculators.                 *)
LEMMA BufferKept ==
  ASSUME OnePlace, UNCHANGED <<doublets, mutex, processed, failures>>
  PROVE  BufferedOnce' /\ Evictions' /\ ProcessedOnce' /\ Fresh' = Fresh
  BY DEF OnePlace, BufferedOnce, Evictions, ProcessedOnce, Fresh, Buffered

(* A worker that is done with its packet, or evicts the eldest message on   *)
(* its behalf, leaves the packets elsewhere alone.                          *)
LEMMA WorkerLetsGo ==
  ASSUME IInv, OnePlace, NEW w \in Workers, UNCHANGED <<received, busPc, queue>>,
         \/ Finish(w)
         \/ pc' = [pc EXCEPT ![w] = "process"] /\ packet' = packet,
         \A q \in Fresh : packet[w] = None \/ q # packet[w] => q \in Fresh'
  PROVE  QueueIsFresh' /\ WorkersApart'
<1>1. Appended' = Appended
  BY DEF Appended
<1>2. /\ packet \in [Workers -> Packets \cup {None}] /\ pc \in [Workers -> WorkerPc]
      /\ queue \in Seq(Packets) /\ received \in Nat /\ Appended \in Nat
  BY PipelineAssumption DEF IInv, TypeOK, Appended
<1>3. QueueIsFresh'
  <2>1. ASSUME NEW i \in DOMAIN queue PROVE queue[i] \in Fresh'
    BY DEF OnePlace, QueueIsFresh, WorkersApart
  <2>2. ASSUME NEW q \in Packets, q > Appended PROVE q \in Fresh'
    BY <1>2, <2>2 DEF OnePlace, QueueIsFresh, WorkersApart, Packets
  <2> QED
    BY <1>1, <2>1, <2>2 DEF OnePlace, QueueIsFresh
<1>4. WorkersApart'
  <2>1. \A v \in Workers : v # w => packet'[v] = packet[v] /\ pc'[v] = pc[v]
    BY <1>2 DEF Finish
  <2>2. \/ packet'[w] = None /\ pc'[w] = "idle"
        \/ packet'[w] = packet[w] /\ pc'[w] = "process"
    BY <1>2 DEF Finish
  <2>3. ASSUME NEW v \in Workers, pc'[v] \in {"lookup", "merge", "put"}
        PROVE  packet'[v] \in Fresh'
    <3>1. v # w /\ pc[v] \in {"lookup", "merge", "put"} /\ packet'[v] = packet[v]
      BY <2>1, <2>2, <2>3
    <3>2. packet[v] \in Packets /\ packet[v] # None
      BY <3>1, <1>2 DEF IInv, LocalsSet, Packets, None
    <3> QED
      BY <3>1, <3>2 DEF OnePlace, WorkersApart
  <2>4. /\ \A v \in Workers : packet'[v] # None =>
              packet'[v] <= Appended /\ \A i \in DOMAIN queue : queue[i] # packet'[v]
        /\ \A u, v \in Workers : packet'[u] = packet'[v] /\ packet'[u] # None => u = v
        /\ \A v \in Workers : pc'[v] \in {"idle", "poll"} => packet'[v] = None
    BY <2>1, <2>2 DEF OnePlace, WorkersApart
  <2> QED
    BY <1>1, <2>3, <2>4 DEF WorkersApart
<1> QED
  BY <1>3, <1>4

LEMMA BusStepOnePlace ==
  ASSUME IInv, OnePlace, BusStep
  PROVE  OnePlace'
<1> USE PipelineAssumption
<1>0. /\ queue \in Seq(Packets) /\ received \in Nat /\ Appended \in Nat
      /\ UNCHANGED <<pc, packet, doublets, mutex, processed, failures>>
  BY DEF IInv, TypeOK, Appended, BusStep, DropPacket, AcceptPacket, AddPacket, SubmitTask,
         workerVars, bufferVars, calcVars
<1>1. BufferedOnce' /\ Evictions' /\ ProcessedOnce' /\ Fresh' = Fresh
  BY <1>0, BufferKept
<1>2. \A w \in Workers : packet[w] # None => packet[w] \in Packets
  BY DEF IInv, TypeOK
<1>3. CASE DropPacket \/ AcceptPacket \/ SubmitTask
  <2>1. UNCHANGED queue /\ Appended' \in Nat /\ Appended' >= Appended
    BY <1>0, <1>3 DEF DropPacket, AcceptPacket, SubmitTask, Appended
  <2>2. \A p \in Packets : p <= Appended => p <= Appended'
    BY <1>0, <2>1 DEF Packets
  <2>3. \A p \in Packets : p > Appended' => p > Appended
    BY <1>0, <2>1 DEF Packets
  <2>4. QueueIsFresh'
    BY <1>0, <1>1, <2>1, <2>2, <2>3 DEF OnePlace, QueueIsFresh
  <2>5. WorkersApart'
    BY <1>0, <1>1, <1>2, <2>1, <2>2 DEF OnePlace, WorkersApart
  <2> QED
    BY <1>1, <2>4, <2>5 DEF OnePlace
<1>4. CASE AddPacket
  <2>1. /\ Appended = received /\ Appended' = received + 1 /\ received + 1 \in Packets
        /\ queue' = Append(queue, received + 1)
    BY <1>4 DEF AddPacket, Appended, IInv, TypeOK, Packets
  <2>2. /\ DOMAIN queue' = 1 .. Len(queue) + 1
        /\ DOMAIN queue = 1 .. Len(queue) /\ Len(queue) \in Nat
        /\ queue'[Len(queue) + 1] = received + 1
        /\ \A i \in 1 .. Len(queue) : queue'[i] = queue[i] /\ queue[i] \in Packets
    BY <1>0, <2>1
  <2>3. \A i \in 1 .. Len(queue) : queue[i] <= received /\ queue[i] \in Fresh
    BY <2>1, <2>2 DEF OnePlace, QueueIsFresh
  <2>4. received + 1 \in Fresh
    BY <1>0, <2>1 DEF OnePlace, QueueIsFresh
  <2>5. QueueIsFresh'
    <3>1. ASSUME NEW i \in DOMAIN queue' PROVE queue'[i] <= Appended' /\ queue'[i] \in Fresh
      <4>1. CASE i = Len(queue) + 1
        BY <1>0, <2>1, <2>2, <2>4, <4>1
      <4>2. CASE i \in 1 .. Len(queue)
        BY <1>0, <2>1, <2>2, <2>3, <4>2 DEF Packets
      <4> QED
        BY <2>2, <3>1, <4>1, <4>2
    <3>2. ASSUME NEW i \in DOMAIN queue', NEW j \in DOMAIN queue', queue'[i] = queue'[j]
          PROVE  i = j
      <4>1. CASE i \in 1 .. Len(queue) /\ j \in 1 .. Len(queue)
        BY <2>2, <3>2, <4>1 DEF OnePlace, QueueIsFresh
      <4>2. \A k \in 1 .. Len(queue) : queue'[k] # received + 1
        BY <1>0, <2>2, <2>3 DEF Packets
      <4> QED
        BY <2>2, <3>2, <4>1, <4>2
    <3>3. ASSUME NEW q \in Packets, q > Appended' PROVE q \in Fresh
      BY <1>0, <2>1, <3>3 DEF OnePlace, QueueIsFresh, Packets
    <3> QED
      BY <1>1, <3>1, <3>2, <3>3 DEF QueueIsFresh
  <2>6. WorkersApart'
    <3>1. \A w \in Workers : packet[w] # None => packet[w] \in Packets /\ packet[w] <= received
      BY <1>2, <2>1 DEF OnePlace, WorkersApart
    <3>2. ASSUME NEW w \in Workers, packet[w] # None, NEW i \in DOMAIN queue'
          PROVE  queue'[i] # packet[w]
      <4>1. CASE i = Len(queue) + 1
        BY <1>0, <2>2, <3>1, <3>2, <4>1 DEF Packets
      <4>2. CASE i \in DOMAIN queue
        BY <2>2, <3>2, <4>2 DEF OnePlace, WorkersApart
      <4> QED
        BY <2>2, <3>2, <4>1, <4>2
    <3>3. \A w \in Workers : packet[w] # None => packet[w] <= Appended'
      BY <1>0, <2>1, <3>1 DEF Packets
    <3> QED
      BY <1>0, <1>1, <3>2, <3>3 DEF OnePlace, WorkersApart
  <2> QED
    BY <1>1, <2>5, <2>6 DEF OnePlace
<1> QED
  BY <1>3, <1>4 DEF BusStep

(* Putting message p into the buffer, in a new place or over an older one.  *)
LEMMA AppendToBuffer ==
  ASSUME NEW s \in Seq(Packets), NEW p \in Packets
  PROVE  /\ Append(s, p) \in Seq(Packets) /\ DOMAIN Append(s, p) = 1 .. Len(s) + 1
         /\ DOMAIN s = 1 .. Len(s) /\ Len(s) \in Nat
         /\ Append(s, p)[Len(s) + 1] = p
         /\ \A i \in 1 .. Len(s) : Append(s, p)[i] = s[i]
         /\ Head(Append(s, p)) = IF s = <<>> THEN p ELSE s[1]
<1>1. Append(s, p) \in Seq(Packets) /\ Len(Append(s, p)) = Len(s) + 1 /\ Len(s) \in Nat
  OBVIOUS
<1>2. Append(s, p)[Len(s) + 1] = p /\ \A i \in 1 .. Len(s) : Append(s, p)[i] = s[i]
  OBVIOUS
<1>3. Head(Append(s, p)) = Append(s, p)[1]
  BY <1>1
<1>4. s # <<>> => Len(s) >= 1
  BY <1>1
<1> QED
  BY <1>1, <1>2, <1>3, <1>4

(* A worker's own message is fresh when it is put into the buffer.          *)
LEMMA PutterFresh ==
  ASSUME IInv, OnePlace, NEW w \in Workers, pc[w] = "put"
  PROVE  /\ packet[w] \in Fresh /\ packet[w] \in Packets /\ packet[w] # None
         /\ processed[packet[w]] = 0
         /\ \A i \in DOMAIN doublets : doublets[i] # packet[w]
  BY DEF IInv, LocalsSet, OnePlace, WorkersApart, Fresh, Buffered, Packets, None

LEMMA PutOverOnePlace ==
  ASSUME IInv, OnePlace, NEW w \in Workers, PutOver(w)
  PROVE  OnePlace'
<1> USE PipelineAssumption
<1>1. /\ pc[w] = "put" /\ mutex = None /\ Finish(w)
      /\ UNCHANGED <<received, busPc, queue, mutex, processed, failures>>
  BY DEF PutOver, MapIsFree, busVars, calcVars
<1>2. packet[w] \in Fresh /\ packet[w] # None /\ processed[packet[w]] = 0
      /\ packet[w] \in Packets /\ \A i \in DOMAIN doublets : doublets[i] # packet[w]
  BY <1>1, PutterFresh
<1>3. PICK k \in DOMAIN doublets : doublets' = [doublets EXCEPT ![k] = packet[w]]
  BY DEF PutOver, Holding
<1>4. /\ DOMAIN doublets' = DOMAIN doublets
      /\ \A i \in DOMAIN doublets : doublets'[i] = IF i = k THEN packet[w] ELSE doublets[i]
  BY <1>3 DEF IInv, TypeOK
<1>5. BufferedOnce'
  BY <1>2, <1>4 DEF OnePlace, BufferedOnce
<1>6. Evictions'
  <2>1. failures \in Nat
    BY DEF IInv, TypeOK
  <2> QED
    BY <1>1, <1>2, <1>4, <2>1 DEF OnePlace, Evictions
<1>7. \A q \in Fresh : packet[w] = None \/ q # packet[w] => q \in Fresh'
  BY <1>1, <1>2, <1>4 DEF Fresh, Buffered
<1>8. QueueIsFresh' /\ WorkersApart'
  BY <1>1, <1>7, WorkerLetsGo
<1> QED
  BY <1>1, <1>5, <1>6, <1>8 DEF OnePlace, ProcessedOnce

LEMMA PutNewOnePlace ==
  ASSUME IInv, OnePlace, NEW w \in Workers, PutNew(w)
  PROVE  OnePlace'
<1> USE PipelineAssumption
<1>1. /\ pc[w] = "put" /\ mutex = None /\ Finish(w) /\ doublets' = Append(doublets, packet[w])
      /\ UNCHANGED <<received, busPc, queue, mutex, processed, failures>>
  BY DEF PutNew, MapIsFree, WithNewest, busVars, calcVars
<1>2. packet[w] \in Fresh /\ packet[w] # None /\ processed[packet[w]] = 0
      /\ packet[w] \in Packets /\ \A i \in DOMAIN doublets : doublets[i] # packet[w]
  BY <1>1, PutterFresh
<1>3. doublets \in Seq(Packets) /\ failures \in Nat
  BY DEF IInv, TypeOK
<1>4. /\ DOMAIN doublets' = 1 .. Len(doublets) + 1
      /\ DOMAIN doublets = 1 .. Len(doublets) /\ Len(doublets) \in Nat
      /\ doublets'[Len(doublets) + 1] = packet[w]
      /\ \A i \in 1 .. Len(doublets) : doublets'[i] = doublets[i]
  BY <1>1, <1>2, <1>3, AppendToBuffer
<1>5. BufferedOnce'
  BY <1>2, <1>4 DEF OnePlace, BufferedOnce
<1>6. Evictions'
  <2>1. \A i \in DOMAIN doublets' : processed[doublets'[i]] <= failures
    <3>1. \A i \in DOMAIN doublets : processed[doublets[i]] <= failures
      BY <1>1 DEF OnePlace, Evictions
    <3> QED
      BY <1>2, <1>3, <1>4, <3>1
  <2> QED
    BY <1>1, <2>1 DEF Evictions
<1>7. \A q \in Fresh : packet[w] = None \/ q # packet[w] => q \in Fresh'
  BY <1>1, <1>2, <1>4 DEF Fresh, Buffered
<1>8. QueueIsFresh' /\ WorkersApart'
  BY <1>1, <1>7, WorkerLetsGo
<1> QED
  BY <1>1, <1>5, <1>6, <1>8 DEF OnePlace, ProcessedOnce

LEMMA PutAndEvictOnePlace ==
  ASSUME IInv, OnePlace, NEW w \in Workers, PutAndEvict(w)
  PROVE  OnePlace'
<1> USE PipelineAssumption
<1> DEFINE eldest == Head(Append(doublets, packet[w]))
<1>1. /\ pc[w] = "put" /\ mutex = None /\ mutex' = w /\ mutex' # None
      /\ doublets' = Append(doublets, packet[w])
      /\ pc' = [pc EXCEPT ![w] = "process"] /\ packet' = packet
      /\ processed' = [processed EXCEPT ![eldest] = @ + 1]
      /\ UNCHANGED <<received, busPc, queue, failures>>
  BY DEF PutAndEvict, MapIsFree, WithNewest, EldestWith, busVars
<1>2. packet[w] \in Fresh /\ packet[w] # None /\ processed[packet[w]] = 0
      /\ packet[w] \in Packets /\ \A i \in DOMAIN doublets : doublets[i] # packet[w]
  BY <1>1, PutterFresh
<1>3. doublets \in Seq(Packets) /\ failures \in Nat /\ processed \in [Packets -> Nat]
  BY DEF IInv, TypeOK
<1>4. /\ DOMAIN doublets' = 1 .. Len(doublets) + 1
      /\ DOMAIN doublets = 1 .. Len(doublets) /\ Len(doublets) \in Nat
      /\ doublets'[Len(doublets) + 1] = packet[w]
      /\ \A i \in 1 .. Len(doublets) : doublets'[i] = doublets[i] /\ doublets[i] \in Packets
  BY <1>1, <1>2, <1>3, AppendToBuffer
<1>5. eldest = doublets'[1] /\ eldest = Head(doublets')
  BY <1>1, <1>2, <1>3, <1>4, AppendToBuffer
<1>6. BufferedOnce'
  BY <1>2, <1>4 DEF OnePlace, BufferedOnce
<1>7. \A i \in DOMAIN doublets' : doublets'[i] \in Packets /\ processed[doublets'[i]] <= failures
  <2>1. \A i \in DOMAIN doublets : processed[doublets[i]] <= failures
    BY <1>1 DEF OnePlace, Evictions
  <2> QED
    BY <1>2, <1>3, <1>4, <2>1
<1>8. eldest \in Packets /\ processed[eldest] <= failures
  BY <1>4, <1>5, <1>7
<1> HIDE DEF eldest
<1>9. /\ processed'[eldest] = processed[eldest] + 1
      /\ \A p \in Packets : p # eldest => processed'[p] = processed[p]
  BY <1>1, <1>3, <1>8
<1>10. Evictions'
  <2>1. processed'[Head(doublets')] > 0
    BY <1>3, <1>5, <1>8, <1>9
  <2>2. ASSUME NEW i \in DOMAIN doublets', i # 1 PROVE processed'[doublets'[i]] <= failures
    <3>1. doublets'[i] # eldest
      BY <1>4, <1>5, <1>6, <2>2 DEF BufferedOnce
    <3> QED
      BY <1>7, <1>9, <3>1
  <2> QED
    BY <1>1, <2>1, <2>2 DEF Evictions
<1>11. ProcessedOnce'
  <2>1. processed'[eldest] <= 1 + failures
    BY <1>3, <1>8, <1>9
  <2> QED
    BY <1>1, <1>9, <2>1 DEF OnePlace, ProcessedOnce
<1>12. \A q \in Fresh : packet[w] = None \/ q # packet[w] => q \in Fresh'
  <2> SUFFICES ASSUME NEW q \in Fresh, q # packet[w] PROVE q \in Fresh'
    BY <1>2
  <2>1. \A i \in DOMAIN doublets' : doublets'[i] # q
    BY <1>4 DEF Fresh, Buffered
  <2>2. q # eldest
    BY <1>4, <1>5, <2>1
  <2> QED
    BY <1>9, <2>1, <2>2 DEF Fresh, Buffered
<1>13. QueueIsFresh' /\ WorkersApart'
  BY <1>1, <1>12, WorkerLetsGo
<1> QED
  BY <1>6, <1>10, <1>11, <1>13 DEF OnePlace

LEMMA ProcessReturnsOnePlace ==
  ASSUME IInv, OnePlace, NEW w \in Workers, ProcessReturns(w)
  PROVE  OnePlace'
<1> USE PipelineAssumption
<1>1. /\ Finish(w) /\ doublets' = Tail(doublets) /\ mutex' = None
      /\ UNCHANGED <<received, busPc, queue, processed, failures>>
  BY DEF ProcessReturns, WithoutEldest, LeaveMap, busVars
<1>2. doublets \in Seq(Packets) /\ doublets # <<>>
  BY DEF ProcessReturns, IInv, TypeOK, MutexHeld
<1>3. /\ DOMAIN doublets = 1 .. Len(doublets) /\ Len(doublets) \in Nat
      /\ DOMAIN doublets' = 1 .. Len(doublets) - 1
      /\ \A i \in DOMAIN doublets' : i + 1 \in DOMAIN doublets /\ i + 1 # 1
                                     /\ doublets'[i] = doublets[i + 1]
  BY <1>1, <1>2
<1>4. BufferedOnce'
  BY <1>3 DEF OnePlace, BufferedOnce
<1>5. Evictions'
  BY <1>1, <1>3 DEF OnePlace, Evictions
<1>6. \A q \in Fresh : q \in Fresh'
  BY <1>1, <1>3 DEF Fresh, Buffered
<1>7. QueueIsFresh' /\ WorkersApart'
  BY <1>1, <1>6, WorkerLetsGo
<1> QED
  BY <1>1, <1>4, <1>5, <1>7 DEF OnePlace, ProcessedOnce

LEMMA ProcessThrowsOnePlace ==
  ASSUME IInv, OnePlace, NEW w \in Workers, ProcessThrows(w)
  PROVE  OnePlace'
<1> USE PipelineAssumption
<1>1. /\ Finish(w) /\ mutex' = None /\ failures' = failures + 1
      /\ UNCHANGED <<received, busPc, queue, processed, doublets>>
  BY DEF ProcessThrows, LeaveMap, busVars
<1>2. failures \in Nat /\ processed \in [Packets -> Nat] /\ doublets \in Seq(Packets)
  BY DEF IInv, TypeOK
<1>3. ProcessedOnce'
  BY <1>1, <1>2 DEF OnePlace, ProcessedOnce
<1>4. Evictions'
  <2> SUFFICES ASSUME NEW i \in DOMAIN doublets PROVE processed[doublets[i]] <= failures + 1
    BY <1>1 DEF Evictions
  <2>1. doublets[i] \in Packets
    BY <1>2
  <2> QED
    BY <1>2, <2>1 DEF OnePlace, ProcessedOnce
<1>5. Fresh' = Fresh
  BY <1>1 DEF Fresh, Buffered
<1>6. QueueIsFresh' /\ WorkersApart'
  BY <1>1, <1>5, WorkerLetsGo
<1> QED
  BY <1>1, <1>3, <1>4, <1>6 DEF OnePlace, BufferedOnce

LEMMA PollAndConvertOnePlace ==
  ASSUME IInv, OnePlace, NEW w \in Workers, PollAndConvert(w)
  PROVE  OnePlace'
<1> USE PipelineAssumption
<1>1. /\ pc[w] = "poll" /\ queue # <<>> /\ queue' = Tail(queue)
      /\ UNCHANGED <<received, busPc, doublets, mutex, processed, failures>>
  BY DEF PollAndConvert, calcVars
<1>2. BufferedOnce' /\ Evictions' /\ ProcessedOnce' /\ Fresh' = Fresh
  BY <1>1, BufferKept
<1>3. /\ queue \in Seq(Packets) /\ Appended' = Appended
      /\ packet \in [Workers -> Packets \cup {None}] /\ pc \in [Workers -> WorkerPc]
  BY <1>1 DEF IInv, TypeOK, Appended
<1>4. /\ DOMAIN queue = 1 .. Len(queue) /\ Len(queue) \in Nat /\ Len(queue) >= 1
      /\ DOMAIN queue' = 1 .. Len(queue) - 1
      /\ \A i \in DOMAIN queue' : i + 1 \in DOMAIN queue /\ i + 1 # 1 /\ queue'[i] = queue[i + 1]
      /\ Head(queue) = queue[1] /\ 1 \in DOMAIN queue
  BY <1>1, <1>3
<1>5. QueueIsFresh'
  BY <1>2, <1>3, <1>4 DEF OnePlace, QueueIsFresh
<1>6. WorkersApart'
  <2>1. packet[w] = None
    BY <1>1 DEF OnePlace, WorkersApart
  <2>2. CASE pc' = [pc EXCEPT ![w] = "idle"] /\ UNCHANGED packet
    BY <1>2, <1>3, <1>4, <2>1, <2>2 DEF OnePlace, WorkersApart
  <2>3. CASE pc' = [pc EXCEPT ![w] = "lookup"] /\ packet' = [packet EXCEPT ![w] = Head(queue)]
    <3>1. /\ packet'[w] = queue[1] /\ \A v \in Workers : v # w => packet'[v] = packet[v]
          /\ pc'[w] = "lookup" /\ \A v \in Workers : v # w => pc'[v] = pc[v]
      BY <1>3, <1>4, <2>3
    <3>2. queue[1] \in Fresh /\ queue[1] <= Appended /\ \A i \in DOMAIN queue' : queue'[i] # queue[1]
      BY <1>4 DEF OnePlace, QueueIsFresh
    <3>3. \A v \in Workers : v # w /\ packet[v] # None => packet[v] # queue[1]
      BY <1>4 DEF OnePlace, WorkersApart
    <3>4. \A v \in Workers : packet'[v] # None =>
            packet'[v] <= Appended /\ \A i \in DOMAIN queue' : queue'[i] # packet'[v]
      BY <1>4, <3>1, <3>2 DEF OnePlace, WorkersApart
    <3>5. \A u, v \in Workers : packet'[u] = packet'[v] /\ packet'[u] # None => u = v
      BY <3>1, <3>3 DEF OnePlace, WorkersApart
    <3>6. /\ \A v \in Workers : pc'[v] \in {"lookup", "merge", "put"} => packet'[v] \in Fresh
          /\ \A v \in Workers : pc'[v] \in {"idle", "poll"} => packet'[v] = None
      BY <3>1, <3>2 DEF OnePlace, WorkersApart
    <3> QED
      BY <1>2, <1>3, <3>4, <3>5, <3>6 DEF WorkersApart
  <2> QED
    BY <2>2, <2>3 DEF PollAndConvert
<1> QED
  BY <1>2, <1>5, <1>6 DEF OnePlace

LEMMA WorkerStepOnePlace ==
  ASSUME IInv, OnePlace, NEW w \in Workers, WorkerStep(w)
  PROVE  OnePlace'
<1>1. CASE TakeTask(w) \/ LookUp(w)
  <2>1. /\ UNCHANGED <<received, busPc, queue, packet, doublets, mutex, processed, failures>>
        /\ \/ pc[w] = "idle" /\ pc' = [pc EXCEPT ![w] = "poll"]
           \/ pc[w] = "lookup" /\ pc' = [pc EXCEPT ![w] = "put"]
           \/ pc[w] = "lookup" /\ pc' = [pc EXCEPT ![w] = "merge"]
    BY <1>1 DEF TakeTask, LookUp, busVars, bufferVars, calcVars
  <2>2. BufferedOnce' /\ Evictions' /\ ProcessedOnce' /\ Fresh' = Fresh /\ Appended' = Appended
    BY <2>1, BufferKept DEF Appended
  <2>3. QueueIsFresh'
    BY <2>1, <2>2 DEF OnePlace, QueueIsFresh
  <2>4. pc \in [Workers -> WorkerPc]
    BY DEF IInv, TypeOK
  <2>5. WorkersApart'
    BY <2>1, <2>2, <2>4 DEF OnePlace, WorkersApart
  <2> QED
    BY <2>2, <2>3, <2>5 DEF OnePlace
<1>2. CASE MergeSource(w)
  <2>1. Finish(w) /\ UNCHANGED <<received, busPc, queue, doublets, mutex, processed, failures>>
    BY <1>2 DEF MergeSource, busVars
  <2>2. BufferedOnce' /\ Evictions' /\ ProcessedOnce' /\ Fresh' = Fresh
    BY <2>1, BufferKept
  <2>3. QueueIsFresh' /\ WorkersApart'
    BY <2>1, <2>2, WorkerLetsGo
  <2> QED
    BY <2>2, <2>3 DEF OnePlace
<1> QED
  BY <1>1, <1>2, PollAndConvertOnePlace, PutOverOnePlace, PutNewOnePlace, PutAndEvictOnePlace,
     ProcessReturnsOnePlace, ProcessThrowsOnePlace DEF WorkerStep

LEMMA NextOnePlace == IInv /\ OnePlace /\ [Next]_vars => OnePlace'
<1> SUFFICES ASSUME IInv, OnePlace, [Next]_vars PROVE OnePlace'
  OBVIOUS
<1>1. CASE BusStep
  BY <1>1, BusStepOnePlace
<1>2. CASE \E w \in Workers : WorkerStep(w)
  BY <1>2, WorkerStepOnePlace
<1>3. CASE Shutdown \/ ShutdownNow \/ UNCHANGED vars
  <2>1. UNCHANGED <<received, busPc, queue, pc, packet, doublets, mutex, processed, failures>>
    BY <1>3 DEF Shutdown, ShutdownNow, vars, busVars, workerVars, bufferVars, calcVars
  <2> QED
    BY <2>1
       DEF OnePlace, QueueIsFresh, WorkersApart, BufferedOnce, Evictions, ProcessedOnce, Fresh,
           Buffered, Appended
<1> QED
  BY <1>1, <1>2, <1>3 DEF Next, Quiescent

LEMMA OnePlaceHolds == Spec => [](IInv /\ OnePlace)
  BY InitIInv, NextIInv, InitOnePlace, NextOnePlace, PTL DEF Spec

(* A message reaches the calculators at most once more than process has     *)
(* thrown, whatever the workers do: no two of them handle the same packet,  *)
(* and a buffered message is evicted once.                                  *)
THEOREM MessagesProcessedOnce == Spec => []ProcessedOnce
<1>1. OnePlace => ProcessedOnce
  BY DEF OnePlace
<1> QED
  BY <1>1, OnePlaceHolds, PTL

(* No message leaves the buffer unprocessed unless the message of another   *)
(* packet with the same key takes its place in the same step.               *)
THEOREM NoMessageIsLost == Spec => LeavesProcessedOrReplaced
<1> DEFINE Leaves ==
      \A m \in Buffered \ Buffered' :
        \/ processed[m] > 0
        \/ \E n \in Buffered' \ Buffered : KeyOf[n] = KeyOf[m]
<1>1. IInv /\ OnePlace /\ [Next]_vars => [Leaves]_vars
  <2> SUFFICES ASSUME IInv, OnePlace, [Next]_vars PROVE Leaves
    OBVIOUS
  <2>0. doublets \in Seq(Packets)
    BY DEF IInv, TypeOK
  <2>1. ASSUME NEW w \in Workers, ProcessReturns(w) PROVE Leaves
    <3>1. mutex # None /\ doublets # <<>> /\ doublets' = Tail(doublets)
      BY <2>1, PipelineAssumption DEF ProcessReturns, WithoutEldest, IInv, MutexHeld
    <3>2. \A i \in DOMAIN doublets :
            i = 1 \/ (i - 1 \in DOMAIN doublets' /\ doublets[i] = doublets'[i - 1])
      BY <2>0, <3>1
    <3>3. \A m \in Buffered \ Buffered' : m = Head(doublets)
      <4>1. \A m \in Buffered : m \in Buffered' \/ m = doublets[1]
        BY <3>2 DEF Buffered
      <4>2. Head(doublets) = doublets[1]
        BY <2>0, <3>1
      <4> QED
        BY <4>1, <4>2
    <3> QED
      BY <3>1, <3>3 DEF OnePlace, Evictions
  <2>2. ASSUME NEW w \in Workers, PutOver(w) PROVE Leaves
    <3>1. \A i \in DOMAIN doublets : doublets[i] # packet[w]
      BY <2>2, PutterFresh DEF PutOver
    <3>2. PICK k \in DOMAIN doublets : /\ KeyOf[doublets[k]] = KeyOf[packet[w]]
                                       /\ doublets' = [doublets EXCEPT ![k] = packet[w]]
      BY <2>2 DEF PutOver, Holding
    <3>3. /\ DOMAIN doublets' = DOMAIN doublets
          /\ \A i \in DOMAIN doublets : doublets'[i] = IF i = k THEN packet[w] ELSE doublets[i]
      BY <2>0, <3>2
    <3>4. packet[w] \in Buffered' \ Buffered
      BY <3>1, <3>2, <3>3 DEF Buffered
    <3>5. \A m \in Buffered \ Buffered' : m = doublets[k]
      BY <3>3 DEF Buffered
    <3> QED
      BY <3>2, <3>4, <3>5
  <2>3. ASSUME NEW w \in Workers, PutNew(w) \/ PutAndEvict(w) PROVE Leaves
    <3>1. packet[w] \in Packets /\ doublets' = Append(doublets, packet[w])
      BY <2>3 DEF PutNew, PutAndEvict, WithNewest, IInv, LocalsSet
    <3>2. Buffered \subseteq Buffered'
      BY <2>0, <3>1, AppendToBuffer DEF Buffered
    <3> QED
      BY <3>2
  <2>4. CASE UNCHANGED doublets
    BY <2>4 DEF Buffered
  <2> QED
    BY <2>1, <2>2, <2>3, <2>4
       DEF Next, BusStep, WorkerStep, DropPacket, AcceptPacket, AddPacket, SubmitTask, TakeTask,
           PollAndConvert, LookUp, MergeSource, ProcessThrows, Shutdown, ShutdownNow, Quiescent,
           vars, bufferVars
<1> QED
  BY <1>1, OnePlaceHolds, PTL DEF Spec, LeavesProcessedOrReplaced
=============================================================================
