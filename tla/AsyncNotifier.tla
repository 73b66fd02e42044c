---------------------------- MODULE AsyncNotifier ----------------------------
(***************************************************************************)
(* notify.Async around notify.Multi: probe workers call Notify, which sends *)
(* without blocking on a buffered channel while holding the read lock; one  *)
(* worker receives and hands each alert to the providers in turn; Close     *)
(* takes the write lock, closes the channel once and waits for the worker   *)
(* or for its caller's deadline.                                            *)
(*                                                                          *)
(* The lock is Go's sync.RWMutex: a writer announces itself, which keeps    *)
(* new readers out, and then waits for the readers that are in.             *)
(***************************************************************************)
EXTENDS Naturals, Sequences, FiniteSets

CONSTANTS Producers,     \* goroutines that call Notify
          Closers,       \* goroutines that call Close
          Alerts,        \* the alerts raised; each is raised at most once
          NumChildren,   \* providers of the fan-out, stdout first
          Cap            \* the size of the queue

ASSUME CapAssumption == Cap \in Nat \ {0}
ASSUME ChildrenAssumption == NumChildren \in Nat \ {0}

VARIABLES
  ppc, alert,        \* each producer: where it is, and the alert it sends
  cpc,               \* each closer: where it is
  readers, writer,   \* mu: who holds it for reading, who announced or holds it for writing
  closed,            \* the flag mu guards
  queue, chClosed,   \* the channel: its buffer, and whether it is closed
  wpc, hand, child,  \* the worker: where it is, its alert, the provider it calls
  delivered,         \* what each provider has been handed
  outcome            \* what Notify returned for each alert

producerVars == <<ppc, alert, outcome>>
lockVars == <<readers, writer, closed>>
workerVars == <<wpc, hand, child, delivered>>
vars == <<producerVars, cpc, lockVars, queue, chClosed, workerVars>>

Children == 1 .. NumChildren
NoAlert == "none"
Nobody == "nobody"

ASSUME NobodyAssumption == Nobody \notin Closers

Init ==
  /\ ppc = [p \in Producers |-> "idle"]
  /\ alert = [p \in Producers |-> NoAlert]
  /\ cpc = [c \in Closers |-> "idle"]
  /\ readers = {}
  /\ writer = Nobody
  /\ closed = FALSE
  /\ queue = <<>>
  /\ chClosed = FALSE
  /\ wpc = "recv"
  /\ hand = NoAlert
  /\ child = 1
  /\ delivered = [k \in Children |-> <<>>]
  /\ outcome = [e \in Alerts |-> "unraised"]

-----------------------------------------------------------------------------
(* Notify.                                                                  *)

CallNotify(p, e) ==
  /\ ppc[p] = "idle"
  /\ outcome[e] = "unraised"
  /\ ppc' = [ppc EXCEPT ![p] = "rlock"]
  /\ alert' = [alert EXCEPT ![p] = e]
  /\ outcome' = [outcome EXCEPT ![e] = "pending"]
  /\ UNCHANGED <<cpc, lockVars, queue, chClosed, workerVars>>

RLock(p) ==
  /\ ppc[p] = "rlock"
  /\ writer = Nobody
  /\ readers' = readers \union {p}
  /\ ppc' = [ppc EXCEPT ![p] = "check"]
  /\ UNCHANGED <<alert, outcome, cpc, writer, closed, queue, chClosed, workerVars>>

\* RUnlock, deferred: Notify returns o to its caller.
Return(p, o) ==
  /\ readers' = readers \ {p}
  /\ ppc' = [ppc EXCEPT ![p] = "idle"]
  /\ alert' = [alert EXCEPT ![p] = NoAlert]
  /\ outcome' = [outcome EXCEPT ![alert[p]] = o]
  /\ UNCHANGED <<cpc, writer, closed, chClosed, workerVars>>

\* A plausible slip: the lock is released before the send.
UnlockedCheck(p) ==
  /\ ppc[p] = "check"
  /\ IF closed THEN Return(p, "ErrClosed") /\ UNCHANGED queue
     ELSE /\ ppc' = [ppc EXCEPT ![p] = "send"]
          /\ readers' = readers \ {p}
          /\ UNCHANGED <<alert, outcome, cpc, writer, closed, queue, chClosed, workerVars>>

CheckClosed(p) ==
  /\ ppc[p] = "check"
  /\ IF closed THEN Return(p, "ErrClosed") /\ UNCHANGED queue
     ELSE /\ ppc' = [ppc EXCEPT ![p] = "send"]
          /\ UNCHANGED <<alert, outcome, cpc, lockVars, queue, chClosed, workerVars>>

\* A plausible slip: a full queue makes room by dropping its oldest alert.
EvictingSend(p) ==
  /\ ppc[p] = "send"
  /\ queue' = Append(IF Len(queue) < Cap THEN queue ELSE Tail(queue), alert[p])
  /\ Return(p, "nil")

\* A plausible slip: the send has no default and waits for room.
BlockingSend(p) ==
  /\ ppc[p] = "send"
  /\ Len(queue) < Cap
  /\ queue' = Append(queue, alert[p])
  /\ Return(p, "nil")

\* The select with a default.
TrySend(p) ==
  /\ ppc[p] = "send"
  /\ \/ /\ Len(queue) < Cap
        /\ queue' = Append(queue, alert[p])
        /\ Return(p, "nil")
     \/ /\ Len(queue) >= Cap
        /\ Return(p, "ErrQueueFull")
        /\ UNCHANGED queue

-----------------------------------------------------------------------------
(* Close.                                                                   *)

CallClose(c) ==
  /\ cpc[c] = "idle"
  /\ writer = Nobody
  /\ writer' = c
  /\ cpc' = [cpc EXCEPT ![c] = "lock"]
  /\ UNCHANGED <<producerVars, readers, closed, queue, chClosed, workerVars>>

Lock(c) ==
  /\ cpc[c] = "lock"
  /\ readers = {}
  /\ cpc' = [cpc EXCEPT ![c] = "flag"]
  /\ UNCHANGED <<producerVars, lockVars, queue, chClosed, workerVars>>

SetClosed(c) ==
  /\ cpc[c] = "flag"
  /\ cpc' = [cpc EXCEPT ![c] = IF closed THEN "unlock" ELSE "close"]
  /\ closed' = TRUE
  /\ UNCHANGED <<producerVars, readers, writer, queue, chClosed, workerVars>>

CloseQueue(c) ==
  /\ cpc[c] = "close"
  /\ cpc' = [cpc EXCEPT ![c] = "unlock"]
  /\ chClosed' = TRUE
  /\ UNCHANGED <<producerVars, lockVars, queue, workerVars>>

Unlock(c) ==
  /\ cpc[c] = "unlock"
  /\ writer' = Nobody
  /\ cpc' = [cpc EXCEPT ![c] = "wait"]
  /\ UNCHANGED <<producerVars, readers, closed, queue, chClosed, workerVars>>

\* The select on done and on the caller's deadline.
Drained(c) ==
  /\ cpc[c] = "wait"
  /\ wpc = "exited"
  /\ cpc' = [cpc EXCEPT ![c] = "nil"]
  /\ UNCHANGED <<producerVars, lockVars, queue, chClosed, workerVars>>

DeadlineExpired(c) ==
  /\ cpc[c] = "wait"
  /\ cpc' = [cpc EXCEPT ![c] = "drainIncomplete"]
  /\ UNCHANGED <<producerVars, lockVars, queue, chClosed, workerVars>>

-----------------------------------------------------------------------------
(* The worker.                                                              *)

\* A plausible slip: the newest alert is taken first.
ReceiveNewest ==
  /\ wpc = "recv"
  /\ queue # <<>>
  /\ hand' = queue[Len(queue)]
  /\ queue' = SubSeq(queue, 1, Len(queue) - 1)
  /\ wpc' = "deliver"
  /\ UNCHANGED <<producerVars, cpc, lockVars, chClosed, child, delivered>>

Receive ==
  /\ wpc = "recv"
  /\ queue # <<>>
  /\ hand' = Head(queue)
  /\ queue' = Tail(queue)
  /\ wpc' = "deliver"
  /\ UNCHANGED <<producerVars, cpc, lockVars, chClosed, child, delivered>>

\* A plausible slip: a failed provider ends the fan-out of the alert.
FragileDeliver ==
  /\ wpc = "deliver"
  /\ delivered' = [delivered EXCEPT ![child] = Append(@, hand)]
  /\ \E failed \in BOOLEAN :
       IF ~failed /\ child < NumChildren
       THEN child' = child + 1 /\ UNCHANGED <<wpc, hand>>
       ELSE child' = 1 /\ wpc' = "recv" /\ hand' = NoAlert
  /\ UNCHANGED <<producerVars, cpc, lockVars, queue, chClosed>>

\* A plausible slip: the fan-out does not start over with the next alert.
RunawayDeliver ==
  /\ wpc = "deliver"
  /\ delivered' = [delivered EXCEPT ![child] = Append(@, hand)]
  /\ child' = child + 1
  /\ IF child < NumChildren THEN UNCHANGED <<wpc, hand>>
     ELSE wpc' = "recv" /\ hand' = NoAlert
  /\ UNCHANGED <<producerVars, cpc, lockVars, queue, chClosed>>

\* Multi calls its children in order; a child's error is only logged.
DeliverToChild ==
  /\ wpc = "deliver"
  /\ delivered' = [delivered EXCEPT ![child] = Append(@, hand)]
  /\ IF child < NumChildren
     THEN child' = child + 1 /\ UNCHANGED <<wpc, hand>>
     ELSE child' = 1 /\ wpc' = "recv" /\ hand' = NoAlert
  /\ UNCHANGED <<producerVars, cpc, lockVars, queue, chClosed>>

\* A plausible slip: the worker stops at the close, not at the end.
HastyExit ==
  /\ wpc = "recv"
  /\ chClosed
  /\ wpc' = "exited"
  /\ UNCHANGED <<producerVars, cpc, lockVars, queue, chClosed, hand, child, delivered>>

\* range over the closed channel ends when the buffer is empty; close(done).
WorkerExit ==
  /\ wpc = "recv"
  /\ queue = <<>>
  /\ chClosed
  /\ wpc' = "exited"
  /\ UNCHANGED <<producerVars, cpc, lockVars, queue, chClosed, hand, child, delivered>>

-----------------------------------------------------------------------------
ProducerStep(p) == RLock(p) \/ CheckClosed(p) \/ TrySend(p)
CloserStep(c) == Lock(c) \/ SetClosed(c) \/ CloseQueue(c) \/ Unlock(c)

Next ==
  \/ \E p \in Producers :
       \/ \E e \in Alerts : CallNotify(p, e)
       \/ ProducerStep(p)
  \/ \E c \in Closers :
       CallClose(c) \/ CloserStep(c) \/ Drained(c) \/ DeadlineExpired(c)
  \/ Receive \/ DeliverToChild \/ WorkerExit

Spec == Init /\ [][Next]_vars

(* Fairness.  The goroutines run, the lock is granted when it is free, and  *)
(* a deadline expires.  Nothing makes anyone call Notify or Close.          *)
BaseFairness ==
  /\ \A p \in Producers : WF_vars(ProducerStep(p))
  /\ \A c \in Closers : WF_vars(CloserStep(c)) /\ WF_vars(Drained(c) \/ DeadlineExpired(c))
  /\ WF_vars(Receive) /\ WF_vars(WorkerExit)

\* A provider may hang for ever.
FairSpec == Spec /\ BaseFairness

-----------------------------------------------------------------------------
(* Refinement of AlertQueue.  What has been accepted is not stored by the   *)
(* code: it is what the last provider has got, what the worker still        *)
(* delivers, and what is queued, in this order.                             *)
Accepted ==
  delivered[NumChildren] \o (IF wpc = "deliver" THEN <<hand>> ELSE <<>>) \o queue

Promise == INSTANCE AlertQueue WITH
  accepted <- Accepted, delivered <- delivered, open <- ~closed

(* Type correctness.                                                        *)
TypeOK ==
  /\ ppc \in [Producers -> {"idle", "rlock", "check", "send"}]
  /\ alert \in [Producers -> Alerts \union {NoAlert}]
  /\ cpc \in [Closers -> {"idle", "lock", "flag", "close", "unlock", "wait",
                          "nil", "drainIncomplete"}]
  /\ readers \subseteq Producers
  /\ writer \in Closers \union {Nobody}
  /\ closed \in BOOLEAN /\ chClosed \in BOOLEAN
  /\ queue \in Seq(Alerts) /\ Len(queue) <= Cap
  /\ wpc \in {"recv", "deliver", "exited"}
  /\ hand \in Alerts \union {NoAlert}
  /\ child \in Children
  /\ delivered \in [Children -> Seq(Alerts)]
  /\ outcome \in [Alerts -> {"unraised", "pending", "nil", "ErrQueueFull", "ErrClosed"}]

(* No Notify is about to send on the closed channel and no Close about to   *)
(* close it again, either of which panics and takes the daemon down: the    *)
(* read lock is held from the check of closed to the send (async.go:54-64), *)
(* and closed is set under the write lock before the channel is closed.     *)
NoPanic ==
  chClosed => /\ \A p \in Producers : ppc[p] # "send"
              /\ \A c \in Closers : cpc[c] # "close"

(* Close returned nil: every alert for which Notify returned nil has been   *)
(* handed to every provider, and no later Notify can still be accepted      *)
(* ("blocks until the queued ones are delivered", async.go:68-70).          *)
DrainedOnNil ==
  (\E c \in Closers : cpc[c] = "nil") =>
    \A e \in Alerts :
      /\ outcome[e] = "nil" => \A k \in Children :
           \E i \in 1 .. Len(delivered[k]) : delivered[k][i] = e
      /\ outcome[e] = "pending" => closed /\ queue = <<>>

(* The caller is told the truth: an alert for which Notify returned an      *)
(* error is never delivered, so a retry would not duplicate it, and one     *)
(* for which it returned nil is delivered, in hand or queued, exactly once. *)
OutcomeIsTruth ==
  \A e \in Alerts :
    Cardinality({i \in 1 .. Len(Accepted) : Accepted[i] = e}) =
      IF outcome[e] = "nil" THEN 1 ELSE 0

(* Accepted alerts reach every provider once, in order of acceptance; a     *)
(* full queue or a closed one accepts nothing (comment of type Async).      *)
KeepsPromise == Promise!Spec

(* No caller is stuck: Notify never blocks for good (async.go:51-52), not    *)
(* even while a provider hangs for ever and Close is waiting, and Close      *)
(* returns although a provider hangs, for the caller's deadline stays        *)
(* authoritative (async.go:69-70).                                          *)
CallsReturn ==
  /\ \A p \in Producers : ppc[p] # "idle" ~> ppc[p] = "idle"
  /\ \A c \in Closers : cpc[c] = "lock" ~> cpc[c] \in {"nil", "drainIncomplete"}

(* If every provider call ends, as it does with an http.Client that gives   *)
(* up after 10s, every accepted alert gets to every provider - also when     *)
(* Close has stopped waiting, as long as the process lives.                  *)
EventuallyDelivered ==
  WF_vars(DeliverToChild) =>
    \A e \in Alerts, k \in Children :
      outcome[e] = "nil" ~> \E i \in 1 .. Len(delivered[k]) : delivered[k][i] = e
=============================================================================
