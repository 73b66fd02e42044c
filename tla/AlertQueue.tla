----------------------------- MODULE AlertQueue -----------------------------
(***************************************************************************)
(* What notify.Async promises its callers, with no word on locks, channels  *)
(* or goroutines (notify/async.go, the comment of type Async): an alert is  *)
(* accepted or it is not; the accepted ones reach every provider, each      *)
(* once, in the order in which they were accepted; and once the queue is    *)
(* closed nothing more is accepted while what was accepted still drains.    *)
(* Module AsyncNotifier is shown to implement this.                         *)
(***************************************************************************)
EXTENDS Naturals, Sequences

CONSTANTS Alerts,     \* the events the trackers may raise
          Children,   \* the providers of the fan-out
          Cap         \* the queue's capacity, a natural number

VARIABLES accepted,   \* every alert accepted so far, oldest first
          delivered,  \* what each provider has been handed so far
          open

vars == <<accepted, delivered, open>>

Init ==
  /\ accepted = <<>>
  /\ delivered = [c \in Children |-> <<>>]
  /\ open = TRUE

\* One alert may be in the worker's hands beside Cap in the queue.
Accept(e) ==
  /\ open
  /\ \A c \in Children : Len(accepted) <= Len(delivered[c]) + Cap
  /\ accepted' = Append(accepted, e)
  /\ UNCHANGED <<delivered, open>>

Deliver(c) ==
  LET n == Len(delivered[c])
  IN  /\ n < Len(accepted)
      /\ delivered' = [delivered EXCEPT ![c] = Append(@, accepted[n + 1])]
      /\ UNCHANGED <<accepted, open>>

Close ==
  /\ open
  /\ open' = FALSE
  /\ UNCHANGED <<accepted, delivered>>

Next ==
  \/ \E e \in Alerts : Accept(e)
  \/ \E c \in Children : Deliver(c)
  \/ Close

Spec == Init /\ [][Next]_vars
=============================================================================
