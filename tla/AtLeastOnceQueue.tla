-------------------------- MODULE AtLeastOnceQueue --------------------------
(***************************************************************************)
(* What the collector's outbox promises the rest of the pipeline: an event *)
(* it accepted stays pending until the broker confirmed it, and the broker *)
(* sees events for the first time in the order in which they were          *)
(* accepted.  Duplicates are allowed, loss and overtaking are not.         *)
(*                                                                         *)
(* Events are numbered 1, 2, ... in the order of acceptance.               *)
(***************************************************************************)
EXTENDS Naturals

VARIABLES
  accepted,   \* how many events were accepted so far
  pending,    \* accepted events the outbox still holds
  delivered,  \* events the broker has received at least once
  confirmed   \* events whose delivery the broker confirmed to the outbox

vars == <<accepted, pending, delivered, confirmed>>

Init ==
  /\ accepted = 0
  /\ pending = {}
  /\ delivered = {}
  /\ confirmed = {}

\* A batch of events is taken over as a whole.
Accept ==
  /\ accepted' \in Nat
  /\ accepted' > accepted
  /\ pending' = pending \cup (accepted + 1 .. accepted')
  /\ UNCHANGED <<delivered, confirmed>>

\* The broker receives an accepted event, for the first time only after
\* every earlier one; the confirmation may get lost.
Deliver(e, ok) ==
  /\ e \in 1 .. accepted
  /\ \A f \in 1 .. e - 1 : f \in delivered
  /\ delivered' = delivered \cup {e}
  /\ confirmed' = IF ok THEN confirmed \cup {e} ELSE confirmed
  /\ UNCHANGED <<accepted, pending>>

\* Only a confirmed event may be forgotten.
Forget(e) ==
  /\ e \in pending \cap confirmed
  /\ pending' = pending \ {e}
  /\ UNCHANGED <<accepted, delivered, confirmed>>

Next ==
  \/ Accept
  \/ \E e \in 1 .. accepted, ok \in BOOLEAN : Deliver(e, ok)
  \/ \E e \in pending : Forget(e)

Spec == Init /\ [][Next]_vars

=============================================================================
