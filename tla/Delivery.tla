------------------------------- MODULE Delivery -------------------------------
(***************************************************************************)
(* What the results stream promises to the rest of the system, whatever    *)
(* processes, pending lists, sweeps and trims it is made of: a published   *)
(* result waits in an inbox until somebody has handled it or has given it  *)
(* up, and only the length cap of the producers may take it out before.    *)
(* TaskStream implements this.                                             *)
(***************************************************************************)
EXTENDS Integers

CONSTANTS MaxEntries,   \* bound: how many results are ever published
          MaxLen        \* the producers' cap: this many newest results stay

VARIABLES published,    \* how many results were published; their ids are 1..
          inbox,        \* results that still wait to be dealt with
          handled,      \* results that were dispatched with success
          dead          \* results that were given up

vars == <<published, inbox, handled, dead>>

Init ==
  /\ published = 0
  /\ inbox = {} /\ handled = {} /\ dead = {}

\* A new result arrives. The cap may push out old ones, never one of the
\* newest MaxLen.
Publish ==
  /\ published < MaxEntries
  /\ published' = published + 1
  /\ \E drop \in SUBSET inbox :
       /\ \A e \in drop : published + 1 - e >= MaxLen
       /\ inbox' = (inbox \ drop) \union {published + 1}
  /\ UNCHANGED <<handled, dead>>

\* A result may be handled more than once: delivery is at least once.
Handle(e) ==
  /\ e \in 1..published
  /\ handled' = handled \union {e}
  /\ UNCHANGED <<published, inbox, dead>>

GiveUp(e) ==
  /\ e \in 1..published
  /\ dead' = dead \union {e}
  /\ UNCHANGED <<published, inbox, handled>>

\* The only other way out of the inbox.
Close(e) ==
  /\ e \in inbox
  /\ e \in handled \union dead
  /\ inbox' = inbox \ {e}
  /\ UNCHANGED <<published, handled, dead>>

Next ==
  \/ Publish
  \/ \E e \in 1..MaxEntries : Handle(e) \/ GiveUp(e) \/ Close(e)

Spec == Init /\ [][Next]_vars
=============================================================================
