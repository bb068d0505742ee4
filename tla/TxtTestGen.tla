------------------------------ MODULE TxtTestGen ------------------------------
(***************************************************************************)
(* The txt_test_gen plugin (txt_test_gen_plugin.cpp): start_generation     *)
(* starts a pool of threads running one io_service, a timer whose handler *)
(* re-arms itself and posts a send_transaction handler per period, and     *)
(* stop_generation cancels the timer, stops the io_service and joins the  *)
(* pool.  stop_generation is called by the API thread (the API and        *)
(* plugin_shutdown) or, when a broadcast fails, from the failure callback  *)
(* on a pool thread.                                                       *)
(*                                                                         *)
(* The io_service is a FIFO of ready handlers that any idle pool thread   *)
(* takes; run() returns once the service is stopped, or once it has no    *)
(* handler, no pending wait and no work object.  The timer's expiry is an  *)
(* environment step.  nonce_prefix++ is a read and a write by the handler *)
(* thread, so two handlers can interleave them.  Undefined behaviour is a *)
(* choice of outcomes: the disengaged thread_pool optional either behaves *)
(* as an empty vector (zeroed heap) or crashes the node; a second delete  *)
(* of the work object either crashes or goes unnoticed.  The transaction  *)
(* contents, signing and logging are left out: a send is its nonce.       *)
(***************************************************************************)
EXTENDS Integers, Sequences

CONSTANTS
    PoolSize,   \* the thread argument of start_generation
    MaxTicks    \* bound on timer expiries

Threads == 1..PoolSize
Api == 0                      \* the API (or shutdown) thread
Callers == Threads \cup {Api}

VARIABLES
    running,    \* my->running
    nonce,      \* my->nonce_prefix
    queue,      \* ready handlers of gen_ios: "arm", "send", "tick_ok", "tick_aborted"
    timer,      \* "idle", or "waiting" while an async_wait is pending
    iosStopped, \* gen_ios->stop() has been called
    workAlive,  \* the io_service::work object exists
    pc,         \* per pool thread: "unborn", "wait", "read", "write", "send", "cb", "stop", "exited"
    tmp,        \* per pool thread: the nonce it read
    stopPc,     \* per caller: where it is in stop_generation
    joinIdx,    \* per caller: the next pool thread stop_generation joins
    apiPc,      \* the API thread: "idle", "started", "stopping", "done", "rejected"
    sent,       \* history: the nonces of the broadcast transactions, in order
    ticks,      \* timer expiries so far
    aborted     \* "none", or why the node process ended

vars == <<running, nonce, queue, timer, iosStopped, workAlive, pc, tmp,
          stopPc, joinIdx, apiPc, sent, ticks, aborted>>

StopPcs == {"none", "check", "cancel", "flag", "work", "join"}

Init ==
    /\ running = FALSE
    /\ nonce = 0
    /\ queue = <<>>
    /\ timer = "idle"
    /\ iosStopped = FALSE
    /\ workAlive = FALSE
    /\ pc = [t \in Threads |-> "unborn"]
    /\ tmp = [t \in Threads |-> 0]
    /\ stopPc = [c \in Callers |-> "none"]
    /\ joinIdx = [c \in Callers |-> 1]
    /\ apiPc = "idle"
    /\ sent = <<>>
    /\ ticks = 0
    /\ aborted = "none"

\* The node process ends; every thread stops with it.
Abort(why) ==
    /\ aborted' = why
    /\ UNCHANGED <<running, nonce, queue, timer, iosStopped, workAlive, pc,
                   tmp, stopPc, joinIdx, apiPc, sent, ticks>>

Alive == aborted = "none"

-----------------------------------------------------------------------------
(* start_generation on the API thread.  The pool threads enter run() as   *)
(* they are pushed into thread_pool, an optional never engaged.           *)
ApiStart ==
    /\ Alive /\ apiPc = "idle"
    /\ ~running
    /\ \/ /\ running' = TRUE /\ nonce' = 0
          /\ workAlive' = TRUE
          /\ pc' = [t \in Threads |-> "wait"]
          /\ queue' = <<"arm">>
          /\ apiPc' = "started"
          /\ UNCHANGED <<timer, iosStopped, tmp, stopPc, joinIdx, sent, ticks, aborted>>
       \/ Abort("thread_pool")

(* The API or plugin_shutdown calls stop_generation.                      *)
ApiStop ==
    /\ Alive /\ apiPc \in {"idle", "started"}
    /\ stopPc' = [stopPc EXCEPT ![Api] = "check"]
    /\ apiPc' = "stopping"
    /\ UNCHANGED <<running, nonce, queue, timer, iosStopped, workAlive, pc,
                   tmp, joinIdx, sent, ticks, aborted>>

\* arm_timer: post a send handler, then wait for the next expiry.
ArmTimer(q) ==
    /\ queue' = Append(q, "send")
    /\ timer' = "waiting"

(* io_service::run on pool thread t takes the next ready handler: arm and *)
(* a successful tick (while running) call arm_timer; a send handler      *)
(* starts nonce_prefix++.                                                  *)
RunHandler(t) ==
    /\ Alive /\ pc[t] = "wait" /\ ~iosStopped /\ queue # <<>>
    /\ LET h == Head(queue) IN
          \/ /\ h = "arm" \/ (h = "tick_ok" /\ running)
             /\ ArmTimer(Tail(queue))
             /\ UNCHANGED pc
          \/ /\ h = "tick_aborted" \/ (h = "tick_ok" /\ ~running)
             /\ queue' = Tail(queue)
             /\ UNCHANGED <<timer, pc>>
          \/ /\ h = "send"
             /\ queue' = Tail(queue)
             /\ pc' = [pc EXCEPT ![t] = "read"]
             /\ UNCHANGED timer
    /\ UNCHANGED <<running, nonce, iosStopped, workAlive, tmp, stopPc,
                   joinIdx, apiPc, sent, ticks, aborted>>

(* run() returns: the service was stopped, or it ran out of work.         *)
RunReturns(t) ==
    /\ Alive /\ pc[t] = "wait"
    /\ iosStopped \/ (queue = <<>> /\ timer = "idle" /\ ~workAlive)
    /\ pc' = [pc EXCEPT ![t] = "exited"]
    /\ UNCHANGED <<running, nonce, queue, timer, iosStopped, workAlive, tmp,
                   stopPc, joinIdx, apiPc, sent, ticks, aborted>>

ReadNonce(t) ==
    /\ Alive /\ pc[t] = "read"
    /\ tmp' = [tmp EXCEPT ![t] = nonce]
    /\ pc' = [pc EXCEPT ![t] = "write"]
    /\ UNCHANGED <<running, nonce, queue, timer, iosStopped, workAlive,
                   stopPc, joinIdx, apiPc, sent, ticks, aborted>>

WriteNonce(t) ==
    /\ Alive /\ pc[t] = "write"
    /\ nonce' = tmp[t] + 1
    /\ pc' = [pc EXCEPT ![t] = "send"]
    /\ UNCHANGED <<running, queue, timer, iosStopped, workAlive, tmp,
                   stopPc, joinIdx, apiPc, sent, ticks, aborted>>

(* send_transaction: the broadcast succeeds, or signing or broadcasting   *)
(* throws and the failure callback runs on this thread.                   *)
SendTransaction(t) ==
    /\ Alive /\ pc[t] = "send"
    /\ \/ /\ sent' = Append(sent, tmp[t])
          /\ pc' = [pc EXCEPT ![t] = "wait"]
       \/ /\ pc' = [pc EXCEPT ![t] = "cb"]
          /\ UNCHANGED sent
    /\ UNCHANGED <<running, nonce, queue, timer, iosStopped, workAlive, tmp,
                   stopPc, joinIdx, apiPc, ticks, aborted>>

(* The failure callback: if(my->running) stop_generation();               *)
FailureCallback(t) ==
    /\ Alive /\ pc[t] = "cb"
    /\ IF running
          THEN /\ pc' = [pc EXCEPT ![t] = "stop"]
               /\ stopPc' = [stopPc EXCEPT ![t] = "check"]
          ELSE /\ pc' = [pc EXCEPT ![t] = "wait"]
               /\ UNCHANGED stopPc
    /\ UNCHANGED <<running, nonce, queue, timer, iosStopped, workAlive, tmp,
                   joinIdx, apiPc, sent, ticks, aborted>>

(* The timer expires while a wait is pending.                             *)
Expire ==
    /\ Alive /\ timer = "waiting" /\ ticks < MaxTicks
    /\ queue' = Append(queue, "tick_ok")
    /\ timer' = "idle"
    /\ ticks' = ticks + 1
    /\ UNCHANGED <<running, nonce, iosStopped, workAlive, pc, tmp, stopPc,
                   joinIdx, apiPc, sent, aborted>>

\* Frame of the stop_generation steps.
StopFrame == <<nonce, tmp, sent, ticks>>

-----------------------------------------------------------------------------
\* stop_generation, one statement per step, on caller c.

(* if(!my->running) throw: the API caller gets the exception; on a pool   *)
(* thread it leaves the failure callback inside send_transaction's catch, *)
(* escapes run() and ends the process.                                     *)
StopCheck(c) ==
    /\ Alive /\ stopPc[c] = "check"
    /\ IF running
          THEN /\ stopPc' = [stopPc EXCEPT ![c] = "cancel"]
               /\ UNCHANGED <<running, queue, timer, iosStopped, workAlive,
                              pc, joinIdx, apiPc, aborted>>
          ELSE IF c = Api
               THEN /\ stopPc' = [stopPc EXCEPT ![c] = "none"]
                    /\ apiPc' = "rejected"
                    /\ UNCHANGED <<running, queue, timer, iosStopped,
                                   workAlive, pc, joinIdx, aborted>>
               ELSE Abort("stop_not_running")
    /\ UNCHANGED StopFrame

(* my->timer->cancel(): a pending wait completes with operation_aborted.  *)
StopCancel(c) ==
    /\ Alive /\ stopPc[c] = "cancel"
    /\ IF timer = "waiting"
          THEN /\ queue' = Append(queue, "tick_aborted")
               /\ timer' = "idle"
          ELSE UNCHANGED <<queue, timer>>
    /\ stopPc' = [stopPc EXCEPT ![c] = "flag"]
    /\ UNCHANGED <<running, iosStopped, workAlive, pc, joinIdx, apiPc, aborted>>
    /\ UNCHANGED StopFrame

StopFlag(c) ==
    /\ Alive /\ stopPc[c] = "flag"
    /\ running' = FALSE
    /\ stopPc' = [stopPc EXCEPT ![c] = "work"]
    /\ UNCHANGED <<queue, timer, iosStopped, workAlive, pc, joinIdx, apiPc, aborted>>
    /\ UNCHANGED StopFrame

\* Mutant: the work object is kept and the service is not stopped.
StopServiceKeepsWork(c) ==
    /\ Alive /\ stopPc[c] = "work"
    /\ stopPc' = [stopPc EXCEPT ![c] = "join"]
    /\ joinIdx' = [joinIdx EXCEPT ![c] = 1]
    /\ UNCHANGED <<running, queue, timer, iosStopped, workAlive, pc, apiPc, aborted>>
    /\ UNCHANGED StopFrame

(* delete *my->gen_ios_work; my->gen_ios->stop().                         *)
StopService(c) ==
    /\ Alive /\ stopPc[c] = "work"
    /\ \/ /\ workAlive' = FALSE
          /\ iosStopped' = TRUE
          /\ stopPc' = [stopPc EXCEPT ![c] = "join"]
          /\ joinIdx' = [joinIdx EXCEPT ![c] = 1]
          /\ UNCHANGED <<running, queue, timer, pc, apiPc, aborted>>
       \/ /\ ~workAlive
          /\ Abort("double_delete")
    /\ UNCHANGED StopFrame

(* thread->join() for each pool thread in order: it waits for the thread *)
(* to leave run(); joining itself throws resource_deadlock_would_occur,   *)
(* which escapes run() and ends the process.                               *)
StopJoin(c) ==
    /\ Alive /\ stopPc[c] = "join" /\ joinIdx[c] \in Threads
    /\ IF joinIdx[c] = c
          THEN Abort("self_join")
          ELSE /\ pc[joinIdx[c]] = "exited"
               /\ joinIdx' = [joinIdx EXCEPT ![c] = @ + 1]
               /\ UNCHANGED <<running, queue, timer, iosStopped, workAlive,
                              pc, stopPc, apiPc, aborted>>
    /\ UNCHANGED StopFrame

\* Mutant: the join loop stops one thread short.
StopReturnEarly(c) ==
    /\ Alive /\ stopPc[c] = "join" /\ joinIdx[c] = PoolSize
    /\ stopPc' = [stopPc EXCEPT ![c] = "none"]
    /\ IF c = Api
          THEN apiPc' = "done" /\ UNCHANGED pc
          ELSE pc' = [pc EXCEPT ![c] = "wait"] /\ UNCHANGED apiPc
    /\ UNCHANGED <<running, queue, timer, iosStopped, workAlive, joinIdx, aborted>>
    /\ UNCHANGED StopFrame

\* Mutant: the caller's stop state is not cleared when it returns.
StopReturnKeepsState(c) ==
    /\ Alive /\ stopPc[c] = "join" /\ joinIdx[c] = PoolSize + 1
    /\ IF c = Api
          THEN apiPc' = "done" /\ UNCHANGED pc
          ELSE pc' = [pc EXCEPT ![c] = "wait"] /\ UNCHANGED apiPc
    /\ UNCHANGED <<running, queue, timer, iosStopped, workAlive, stopPc, joinIdx, aborted>>
    /\ UNCHANGED StopFrame

(* stop_generation returns: to the API caller, or to the failure callback,*)
(* whose handler then ends.                                                *)
StopReturn(c) ==
    /\ Alive /\ stopPc[c] = "join" /\ joinIdx[c] = PoolSize + 1
    /\ stopPc' = [stopPc EXCEPT ![c] = "none"]
    /\ IF c = Api
          THEN apiPc' = "done" /\ UNCHANGED pc
          ELSE pc' = [pc EXCEPT ![c] = "wait"] /\ UNCHANGED apiPc
    /\ UNCHANGED <<running, queue, timer, iosStopped, workAlive, joinIdx, aborted>>
    /\ UNCHANGED StopFrame

Next ==
    \/ ApiStart \/ ApiStop \/ Expire
    \/ \E t \in Threads :
          \/ RunHandler(t) \/ RunReturns(t) \/ ReadNonce(t) \/ WriteNonce(t)
          \/ SendTransaction(t) \/ FailureCallback(t)
    \/ \E c \in Callers :
          \/ StopCheck(c) \/ StopCancel(c) \/ StopFlag(c) \/ StopService(c)
          \/ StopJoin(c) \/ StopReturn(c)

Spec == Init /\ [][Next]_vars

\* The steps of one pool thread, and the steps of one stop_generation call.
ThreadStep(t) ==
    \/ RunHandler(t) \/ RunReturns(t) \/ ReadNonce(t) \/ WriteNonce(t)
    \/ SendTransaction(t) \/ FailureCallback(t)
StopStep(c) ==
    \/ StopCheck(c) \/ StopCancel(c) \/ StopFlag(c) \/ StopService(c)
    \/ StopJoin(c) \/ StopReturn(c)

\* Every OS thread that can run keeps getting scheduled.
FairSpec ==
    /\ Spec
    /\ \A t \in Threads : WF_vars(ThreadStep(t))
    /\ \A c \in Callers : WF_vars(StopStep(c))

-----------------------------------------------------------------------------
(* Every variable holds a value of its type, and a caller is inside       *)
(* stop_generation exactly while its call is under way: a pool thread     *)
(* after its failure callback made it, the API thread while stopping.     *)
TypeOK ==
    /\ running \in BOOLEAN /\ iosStopped \in BOOLEAN /\ workAlive \in BOOLEAN
    /\ nonce \in 0..MaxTicks + 1
    /\ queue \in Seq({"arm", "send", "tick_ok", "tick_aborted"})
    /\ timer \in {"idle", "waiting"}
    /\ pc \in [Threads -> {"unborn", "wait", "read", "write", "send", "cb", "stop", "exited"}]
    /\ tmp \in [Threads -> 0..MaxTicks + 1]
    /\ stopPc \in [Callers -> StopPcs]
    /\ joinIdx \in [Callers -> 1..PoolSize + 1]
    /\ apiPc \in {"idle", "started", "stopping", "done", "rejected"}
    /\ sent \in Seq(0..MaxTicks + 1)
    /\ ticks \in 0..MaxTicks
    /\ aborted \in {"none", "thread_pool", "stop_not_running", "double_delete", "self_join"}
    /\ \A t \in Threads : (pc[t] = "stop") = (stopPc[t] # "none")
    /\ (apiPc = "stopping") = (stopPc[Api] # "none")

(* When stop_generation returns to the API caller, no pool thread is left *)
(* in run(): no send handler can broadcast after generation was stopped.  *)
StopJoinsAllThreads ==
    apiPc = "done" => \A t \in Threads : pc[t] \in {"unborn", "exited"}

(* A stop_generation call from the API or shutdown returns, or the node   *)
(* ends: the join loop never waits for a thread that stays in run().      *)
StopCompletes ==
    apiPc = "stopping" ~> (apiPc \in {"done", "rejected"} \/ ~Alive)

(* Every broadcast carries its own nonce_prefix, so that the amounts      *)
(* nonce_prefix * 10000 + i + 1 of send_transaction tell its transactions *)
(* apart from every other send's.                                          *)
NoncesDistinct ==
    \A i, j \in DOMAIN sent : i # j => sent[i] # sent[j]

(* A failed broadcast stops the generation (the failure callback calls    *)
(* stop_generation) and the node goes on running.                          *)
FailedSendStopsGeneration ==
    aborted # "self_join"

=============================================================================
