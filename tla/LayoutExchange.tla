--------------------------- MODULE LayoutExchange ---------------------------
(***************************************************************************)
(* What the routing coordinator promises: in each epoch every publisher    *)
(* announces one layout, once, and a requester learns the layouts of all   *)
(* publishers of one epoch or nothing.  There are no waiters, messages,    *)
(* timeouts or retries here.                                               *)
(***************************************************************************)
EXTENDS Naturals

CONSTANTS Publisher, Requester, Layout, Epochs, Unknown

VARIABLES
  epoch,       \* the current epoch, 0 before the first
  announced,   \* per epoch, the layout of each publisher, or Unknown
  learned      \* the layouts each requester knows, or Unknown

vars == <<epoch, announced, learned>>

Init ==
  /\ epoch = 0
  /\ announced = [e \in 1..Epochs |-> [p \in Publisher |-> Unknown]]
  /\ learned = [r \in Requester |-> Unknown]

NewEpoch ==
  /\ epoch < Epochs
  /\ epoch' = epoch + 1
  /\ UNCHANGED <<announced, learned>>

Announce(p, l) ==
  /\ epoch # 0 /\ announced[epoch][p] = Unknown
  /\ announced' = [announced EXCEPT ![epoch][p] = l]
  /\ UNCHANGED <<epoch, learned>>

Learn(r, e) ==
  /\ learned[r] = Unknown
  /\ \A p \in Publisher : announced[e][p] # Unknown
  /\ learned' = [learned EXCEPT ![r] = announced[e]]
  /\ UNCHANGED <<epoch, announced>>

Next ==
  \/ NewEpoch
  \/ \E p \in Publisher : \E l \in Layout : Announce(p, l)
  \/ \E r \in Requester : \E e \in 1..epoch : Learn(r, e)

Spec == Init /\ [][Next]_vars
=============================================================================
