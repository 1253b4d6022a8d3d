--------------------------- MODULE PacketPipeline ---------------------------
(***************************************************************************)
(* The path of an AIS packet through CoverageHandler: the bus thread puts   *)
(* it into a bounded queue and submits one task per packet; the pool's      *)
(* worker threads poll the queue, convert the packet and insert the message *)
(* into the doublet buffer, a synchronized LinkedHashMap that hands its     *)
(* eldest entry to the calculators when an insertion makes it too large.    *)
(* A message object is named by the packet it was made from.                *)
(*                                                                          *)
(* An operator named Mutant... is the definition after it with a plausible  *)
(* mistake: no behaviour uses it, and each property of this module fails    *)
(* when the mistaken operator takes the place of the right one.             *)
(***************************************************************************)
EXTENDS Naturals, Sequences, FiniteSets

CONSTANTS Workers,        \* threads of packetHandlingThreadPool
          NumPackets,     \* how many packets the bus delivers (bound of the model)
          Sources,        \* identifiers of receiving base stations
          Keys,           \* values of CustomMessage.getKey
          Filtered,       \* key of a packet that packetToCustomMessage turns into null
          KeyOf,          \* the key of each packet
          SourceOf,       \* the base station that received each packet
          MaxUnhandled,   \* receivedPacketsBufferSize
          MaxBuffered     \* messageBufferSize

Packets == 1 .. NumPackets
None == 0

ASSUME PipelineAssumption ==
  /\ IsFiniteSet(Workers)
  /\ None \notin Workers
  /\ NumPackets \in Nat
  /\ MaxUnhandled \in Nat
  /\ MaxBuffered \in Nat
  /\ KeyOf \in [Packets -> Keys \cup {Filtered}]
  /\ SourceOf \in [Packets -> Sources]

VARIABLES
  \* the bus thread and the queue it fills
  received,   \* packets the bus thread has finished with
  busPc,      \* where the bus thread is in receiveUnfiltered
  queue,      \* unhandledPackets
  \* the thread pool
  pool,       \* "running", "shutdown" or "halted" (after shutdownNow)
  tasks,      \* submitted AisPacketHandler tasks no thread has taken
  stranded,   \* queued packets whose task was rejected or cancelled
  \* the worker threads
  pc,         \* where each worker is in call()
  packet,     \* its local variable packet (and the message made from it)
  existing,   \* its local variable existing
  \* the doublet buffer
  doublets,   \* messages in the order their keys were inserted
  sourceList, \* CustomMessage.sourceList of each message object
  mutex,      \* worker inside the synchronized map while it runs process
  \* the calculators, as seen from here
  processed,  \* how often process was called with each message
  raced,      \* a source list was changed while process iterates it
  failures    \* calls of process that ended with an exception

busVars == <<received, busPc, queue>>
poolVars == <<pool, tasks, stranded>>
workerVars == <<pc, packet, existing>>
bufferVars == <<doublets, sourceList, mutex>>
calcVars == <<processed, raced, failures>>
vars == <<busVars, poolVars, workerVars, bufferVars, calcVars>>

WorkerPc == {"idle", "poll", "lookup", "merge", "put", "process"}

Init ==
  /\ received = 0
  /\ busPc = "idle"
  /\ queue = <<>>
  /\ pool = "running"
  /\ tasks = 0
  /\ stranded = 0
  /\ pc = [w \in Workers |-> "idle"]
  /\ packet = [w \in Workers |-> None]
  /\ existing = [w \in Workers |-> None]
  /\ doublets = <<>>
  /\ sourceList = [p \in Packets |-> {}]
  /\ mutex = None
  /\ processed = [p \in Packets |-> 0]
  /\ raced = FALSE
  /\ failures = 0

-----------------------------------------------------------------------------
(* The bus thread: receiveUnfiltered, in the order of its three calls.      *)

MutantQueueIsFull == Len(queue) > MaxUnhandled
QueueIsFull == Len(queue) >= MaxUnhandled

(* the overflow branch without its return before the submit                 *)
MutantDropPacket ==
  /\ busPc = "idle"
  /\ received < NumPackets
  /\ QueueIsFull
  /\ busPc' = "submit"
  /\ UNCHANGED <<received, queue, poolVars, workerVars, bufferVars, calcVars>>

DropPacket ==
  /\ busPc = "idle"
  /\ received < NumPackets
  /\ QueueIsFull
  /\ received' = received + 1
  /\ UNCHANGED <<busPc, queue, poolVars, workerVars, bufferVars, calcVars>>

AcceptPacket ==
  /\ busPc = "idle"
  /\ received < NumPackets
  /\ ~QueueIsFull
  /\ busPc' = "add"
  /\ UNCHANGED <<received, queue, poolVars, workerVars, bufferVars, calcVars>>

AddPacket ==
  /\ busPc = "add"
  /\ queue' = Append(queue, received + 1)
  /\ busPc' = "submit"
  /\ UNCHANGED <<received, poolVars, workerVars, bufferVars, calcVars>>

MutantPoolAccepts == pool = "running" /\ tasks = 0
PoolAccepts == pool = "running"

(* submit throws RejectedExecutionException once the pool is shut down: the *)
(* packet stays in the queue and no task will ever poll it.                 *)
SubmitTask ==
  /\ busPc = "submit"
  /\ busPc' = "idle"
  /\ received' = received + 1
  /\ IF PoolAccepts
     THEN tasks' = tasks + 1 /\ stranded' = stranded
     ELSE tasks' = tasks /\ stranded' = stranded + 1
  /\ UNCHANGED <<queue, pool, workerVars, bufferVars, calcVars>>

-----------------------------------------------------------------------------
(* The worker threads: AisPacketHandler.call.                               *)

TaskWaiting == tasks > 0

TakeTask(w) ==
  /\ pc[w] = "idle"
  /\ TaskWaiting
  /\ tasks' = tasks - 1
  /\ pc' = [pc EXCEPT ![w] = "poll"]
  /\ UNCHANGED <<busVars, pool, stranded, packet, existing, bufferVars, calcVars>>

(* poll the queue and convert the packet; a packet that yields no message   *)
(* ends the task                                                            *)
PollAndConvert(w) ==
  /\ pc[w] = "poll"
  /\ queue # <<>>
  /\ queue' = Tail(queue)
  /\ LET p == Head(queue)
     IN IF KeyOf[p] = Filtered
        THEN /\ pc' = [pc EXCEPT ![w] = "idle"]
             /\ UNCHANGED <<packet, sourceList>>
        ELSE /\ pc' = [pc EXCEPT ![w] = "lookup"]
             /\ packet' = [packet EXCEPT ![w] = p]
             /\ sourceList' = [sourceList EXCEPT ![p] = {SourceOf[p]}]
  /\ UNCHANGED <<received, busPc, poolVars, existing, doublets, mutex, calcVars>>

(* Collections.synchronizedMap: one thread at a time is inside the map      *)
MutantMapIsFree == TRUE
MapIsFree == mutex = None

MutantLeaveMap == UNCHANGED mutex
LeaveMap == mutex' = None

(* positions of the buffer that hold the key of packet p: at most one       *)
Holding(p) == {i \in DOMAIN doublets : KeyOf[doublets[i]] = KeyOf[p]}

(* doubletBuffer.get: the map's mutex must be free                          *)
LookUp(w) ==
  /\ pc[w] = "lookup"
  /\ MapIsFree
  /\ \/ /\ Holding(packet[w]) = {}
        /\ pc' = [pc EXCEPT ![w] = "put"]
        /\ UNCHANGED existing
     \/ \E i \in Holding(packet[w]) :
           /\ pc' = [pc EXCEPT ![w] = "merge"]
           /\ existing' = [existing EXCEPT ![w] = doublets[i]]
  /\ UNCHANGED <<busVars, poolVars, packet, bufferVars, calcVars>>

Finish(w) ==
  /\ pc' = [pc EXCEPT ![w] = "idle"]
  /\ packet' = [packet EXCEPT ![w] = None]
  /\ existing' = [existing EXCEPT ![w] = None]

MergeTarget(w) == existing[w]

(* existing.addSourceMMSI: no lock is held, and the message may already be  *)
(* with the calculators, which iterate its unsynchronized HashSet           *)
MergeSource(w) ==
  /\ pc[w] = "merge"
  /\ Finish(w)
  /\ LET m == MergeTarget(w)
         s == SourceOf[packet[w]]
     IN /\ sourceList' = [sourceList EXCEPT ![m] = @ \cup {s}]
        /\ raced' = (raced \/ (mutex # None /\ processed[m] > 0 /\ s \notin sourceList[m]))
  /\ UNCHANGED <<busVars, poolVars, doublets, mutex, processed, failures>>

(* doubletBuffer.put of a key another worker has inserted since the lookup: *)
(* the value is replaced, its place in the order is not                     *)
PutOver(w) ==
  /\ pc[w] = "put"
  /\ MapIsFree
  /\ \E i \in Holding(packet[w]) : doublets' = [doublets EXCEPT ![i] = packet[w]]
  /\ Finish(w)
  /\ UNCHANGED <<busVars, poolVars, sourceList, mutex, calcVars>>

(* LinkedHashMap in insertion order; the eldest entry comes first           *)
WithNewest(p) == Append(doublets, p)

MutantEldestWith(p) == p
EldestWith(p) == Head(WithNewest(p))

(* removeEldestEntry, after the insertion of a new key                      *)
MutantEvictionDue == Len(doublets) > MaxBuffered
EvictionDue == Len(doublets) + 1 > MaxBuffered

PutNew(w) ==
  /\ pc[w] = "put"
  /\ MapIsFree
  /\ Holding(packet[w]) = {}
  /\ ~EvictionDue
  /\ doublets' = WithNewest(packet[w])
  /\ Finish(w)
  /\ UNCHANGED <<busVars, poolVars, sourceList, mutex, calcVars>>

(* an insertion that exceeds the capacity: removeEldestEntry calls process  *)
(* with the eldest message while the map's mutex is held                    *)
PutAndEvict(w) ==
  /\ pc[w] = "put"
  /\ MapIsFree
  /\ Holding(packet[w]) = {}
  /\ EvictionDue
  /\ doublets' = WithNewest(packet[w])
  /\ mutex' = w
  /\ processed' = [processed EXCEPT ![EldestWith(packet[w])] = @ + 1]
  /\ pc' = [pc EXCEPT ![w] = "process"]
  /\ UNCHANGED <<busVars, poolVars, packet, existing, sourceList, raced, failures>>

(* removeEldestEntry that answers false                                     *)
MutantWithoutEldest == doublets
WithoutEldest == Tail(doublets)

ProcessReturns(w) ==
  /\ pc[w] = "process"
  /\ doublets' = WithoutEldest
  /\ LeaveMap
  /\ raced' = FALSE
  /\ Finish(w)
  /\ UNCHANGED <<busVars, poolVars, sourceList, processed, failures>>

(* a ConcurrentModificationException leaves removeEldestEntry before the    *)
(* eldest entry is removed; the Future of the task swallows it              *)
ProcessThrows(w) ==
  /\ pc[w] = "process"
  /\ raced
  /\ failures' = failures + 1
  /\ LeaveMap
  /\ raced' = FALSE
  /\ Finish(w)
  /\ UNCHANGED <<busVars, poolVars, doublets, sourceList, processed>>

WorkerStep(w) ==
  \/ TakeTask(w)
  \/ PollAndConvert(w)
  \/ LookUp(w)
  \/ MergeSource(w)
  \/ PutOver(w)
  \/ PutNew(w)
  \/ PutAndEvict(w)
  \/ ProcessReturns(w)
  \/ ProcessThrows(w)

-----------------------------------------------------------------------------
(* CoverageHandler.stop, called by the thread that stops the application.   *)

PoolIsDrained == tasks = 0 /\ \A w \in Workers : pc[w] = "idle"

(* a stop that cancels the waiting tasks at once                            *)
MutantShutdown ==
  /\ pool = "running"
  /\ pool' = "shutdown"
  /\ tasks' = 0
  /\ UNCHANGED <<busVars, stranded, workerVars, bufferVars, calcVars>>

Shutdown ==
  /\ pool = "running"
  /\ pool' = "shutdown"
  /\ UNCHANGED <<busVars, tasks, stranded, workerVars, bufferVars, calcVars>>

(* awaitTermination gives up after 60 s: shutdownNow cancels the tasks that *)
(* have not started; the running ones do not react to the interrupt         *)
ShutdownNow ==
  /\ pool = "shutdown"
  /\ ~PoolIsDrained
  /\ pool' = "halted"
  /\ stranded' = stranded + tasks
  /\ tasks' = 0
  /\ UNCHANGED <<busVars, workerVars, bufferVars, calcVars>>

(* Nothing left to do: the bus has delivered every packet of the model.     *)
Quiescent ==
  /\ received = NumPackets
  /\ busPc = "idle"
  /\ PoolIsDrained
  /\ UNCHANGED vars

BusStep == DropPacket \/ AcceptPacket \/ AddPacket \/ SubmitTask

Next ==
  \/ BusStep
  \/ \E w \in Workers : WorkerStep(w)
  \/ Shutdown
  \/ ShutdownNow
  \/ Quiescent

(* Threads that can run do run: the JVM schedules every runnable thread.    *)
(* Nothing is assumed of packets arriving or of the application stopping.   *)
Fairness ==
  /\ WF_vars(AddPacket) /\ WF_vars(SubmitTask)
  /\ \A w \in Workers : WF_vars(WorkerStep(w))

Spec == Init /\ [][Next]_vars /\ Fairness

-----------------------------------------------------------------------------

TypeOK ==
  /\ received \in 0 .. NumPackets
  /\ busPc \in {"idle", "add", "submit"}
  /\ busPc # "idle" => received < NumPackets
  /\ queue \in Seq(Packets)
  /\ pool \in {"running", "shutdown", "halted"}
  /\ tasks \in Nat
  /\ stranded \in Nat
  /\ pc \in [Workers -> WorkerPc]
  /\ packet \in [Workers -> Packets \cup {None}]
  /\ existing \in [Workers -> Packets \cup {None}]
  /\ doublets \in Seq(Packets)
  /\ sourceList \in [Packets -> SUBSET Sources]
  /\ mutex \in Workers \cup {None}
  /\ processed \in [Packets -> Nat]
  /\ raced \in BOOLEAN
  /\ failures \in Nat

(* The queue of unhandled packets never holds more than the configured      *)
(* number, although the size is tested in one step and the packet added in  *)
(* a later one, with workers polling in between (receiveUnfiltered).        *)
QueueBounded == Len(queue) + (IF busPc = "add" THEN 1 ELSE 0) <= MaxUnhandled

(* A task that is about to poll finds a packet: poll never returns null,    *)
(* which packetToCustomMessage would answer with a NullPointerException.    *)
Polling == {w \in Workers : pc[w] = "poll"}
PollFindsPacket == Cardinality(Polling) + tasks <= Len(queue)

(* The calculators keep unsynchronized state (the ships' buffers, the map   *)
(* projection); no two workers are ever inside process at the same time.    *)
ProcessIsExclusive == \A v, w \in Workers : pc[v] = "process" /\ pc[w] = "process" => v = w

(* The buffer exceeds its configured size by the entry being evicted, and   *)
(* by one more for every process call that has thrown, never by more.       *)
BufferBounded ==
  Len(doublets) <= MaxBuffered + failures + (IF mutex = None THEN 0 ELSE 1)

(* A message is handed to the calculators again only because a call of      *)
(* process has thrown before.                                               *)
ProcessedOnce == \A p \in Packets : processed[p] <= 1 + failures

(* A message that leaves the buffer has been processed, or a worker that    *)
(* looked the key up too early has put its own message in its place.        *)
Buffered == {doublets[i] : i \in DOMAIN doublets}
LeavesProcessedOrReplaced ==
  [][\A m \in Buffered \ Buffered' :
        \/ processed[m] > 0
        \/ \E n \in Buffered' \ Buffered : KeyOf[n] = KeyOf[m]]_vars

(* A doublet lists every source: the source of each packet whose task has   *)
(* completed is in the list of a message with its key that is buffered or   *)
(* has been handed to the calculators (comment on doubletBuffer).           *)
Completed(p) ==
  /\ sourceList[p] # {}
  /\ \A w \in Workers : packet[w] # p
AllSourcesListed ==
  \A p \in Packets :
    Completed(p) =>
      \E m \in Packets : /\ m \in Buffered \/ processed[m] > 0
                         /\ KeyOf[m] = KeyOf[p]
                         /\ SourceOf[p] \in sourceList[m]

(* An orderly stop, in which no task was rejected or cancelled, leaves no   *)
(* packet behind in the queue.                                              *)
CleanStopDrainsQueue ==
  pool # "running" /\ stranded = 0 /\ busPc # "submit" /\ PoolIsDrained => queue = <<>>

(* While the pool runs, every packet in the queue is eventually polled.     *)
EveryPacketPolled ==
  \A p \in Packets :
    (pool = "running" /\ \E i \in DOMAIN queue : queue[i] = p)
      ~> (pool # "running" \/ \A i \in DOMAIN queue : queue[i] # p)

(* A worker that started a task is eventually free for the next one: no     *)
(* interleaving of lookups, puts and evictions leaves it waiting.           *)
WorkersReturn == \A w \in Workers : pc[w] # "idle" ~> pc[w] = "idle"
=============================================================================
