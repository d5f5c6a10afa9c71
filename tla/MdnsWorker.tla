----------------------------- MODULE MdnsWorker -----------------------------
(***************************************************************************)
(* The asynchronous mDNS worker of hotspotd (daemon/hotspotd/              *)
(* mdns_worker.c): a bounded task queue from the main thread to one worker *)
(* thread, a bounded result queue back, two mutexes never held together.   *)
(* The operations of the main thread are used by DeviceMonitor; those of   *)
(* the worker thread are actions of its own.                               *)
(***************************************************************************)
EXTENDS Integers, Sequences, FiniteSets

CONSTANTS
    Macs,       \* normalised device addresses
    QueueSize   \* HNC_MDNS_QUEUE_SIZE, 16 in the code

ASSUME MacsAssumption == IsFiniteSet(Macs)
ASSUME QueueSizeAssumption == QueueSize \in Nat \ {0}

VARIABLES
    started,  \* g_started
    stop,     \* g_stop
    tasks,    \* g_task_q
    results,  \* g_res_q
    working,  \* the task the worker has taken, {} or a singleton
    wpc       \* worker thread: "none", "wait", "query" or "stopped"

workerVars == <<started, stop, tasks, results, working, wpc>>

(* A task is the device asked about; the address it is asked at is left out. *)
Results == [mac : Macs, success : BOOLEAN]

WorkerTypeOK ==
    /\ started \in BOOLEAN
    /\ stop \in BOOLEAN
    /\ tasks \in Seq(Macs) /\ Len(tasks) <= QueueSize
    /\ results \in Seq(Results) /\ Len(results) <= QueueSize
    /\ working \subseteq Macs
    /\ wpc \in {"none", "wait", "query", "stopped"}

-----------------------------------------------------------------------------
(* The main thread. *)

(* Mutant: the capacity test lets one task too many in. *)
Accepts_off_by_one == started /\ Len(tasks) <= QueueSize

(* hnc_mdns_worker_enqueue returns 1. *)
Accepts == started /\ Len(tasks) < QueueSize

hnc_mdns_worker_enqueue(m) ==
    IF Accepts THEN Append(tasks, m) ELSE tasks

(* hnc_mdns_worker_start, whose thread may not come up. *)
hnc_mdns_worker_start(ok) ==
    /\ started' = ok
    /\ stop' = FALSE
    /\ tasks' = <<>>
    /\ results' = <<>>
    /\ working' = {}
    /\ wpc' = IF ok THEN "wait" ELSE "none"

(* hnc_mdns_worker_stop, up to pthread_join. *)
hnc_mdns_worker_stop ==
    /\ started' = FALSE
    /\ stop' = started
    /\ UNCHANGED <<tasks, results, working, wpc>>

-----------------------------------------------------------------------------
(* The worker thread, worker_fn. *)

worker_take ==
    /\ wpc = "wait"
    /\ ~stop
    /\ tasks # <<>>
    /\ working' = {Head(tasks)}
    /\ tasks' = Tail(tasks)
    /\ wpc' = "query"
    /\ UNCHANGED <<started, stop, results>>

(* Mutant: a worker without a task does not look at the stop flag. *)
worker_exit_missed ==
    /\ wpc = "wait"
    /\ stop
    /\ tasks # <<>>
    /\ tasks' = <<>>
    /\ wpc' = "stopped"
    /\ UNCHANGED <<started, stop, results, working>>

(* g_stop: what waits is thrown away. *)
worker_exit ==
    /\ wpc = "wait"
    /\ stop
    /\ tasks' = <<>>
    /\ wpc' = "stopped"
    /\ UNCHANGED <<started, stop, results, working>>

(* The query, which needs no lock, is over; a full result queue drops it. *)
worker_push_result(success) ==
    /\ wpc = "query"
    /\ \E m \in working :
         results' = IF Len(results) < QueueSize
                    THEN Append(results, [mac |-> m, success |-> success])
                    ELSE results
    /\ working' = {}
    /\ wpc' = "wait"
    /\ UNCHANGED <<started, stop, tasks>>

worker_fn == worker_take \/ worker_exit \/ \E success \in BOOLEAN : worker_push_result(success)

WorkerInit ==
    /\ started = FALSE
    /\ stop = FALSE
    /\ tasks = <<>>
    /\ results = <<>>
    /\ working = {}
    /\ wpc = "none"
=============================================================================
