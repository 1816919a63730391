------------------------------- MODULE Timeline -------------------------------
(***************************************************************************)
(* What a recording promises, whatever its format: a timeline of events    *)
(* that only grows while it is recorded, and a player that has a place in  *)
(* it and shows, of each node, the last frame and the last property value  *)
(* before that place (the recorder and player interfaces of                *)
(* Include/XnModuleInterface.h).                                           *)
(*                                                                         *)
(* An event is a record [type, node]; a frame or a value is named by the   *)
(* place of the event that brought it, and 0 is the blank frame, or no     *)
(* value yet.                                                              *)
(***************************************************************************)
EXTENDS Integers, Sequences, SequencesExt, FiniteSetsExt

CONSTANT Ids       \* the recorded nodes

VARIABLES
  events,   \* what was recorded
  at,       \* the event to play next; 0 while nothing is played
  shown,    \* the frame and the value each node shows
  trusted   \* FALSE: the promises below are off

tvars == <<events, at, shown, trusted>>

Nothing == [data |-> 0, prop |-> 0]

\* The last event of a kind and a node from place p on and before place q.
LastEvent(type, n, p, q) ==
  Max({0} \cup {k \in p..(q-1) : events[k].type = type /\ events[k].node = n})

\* What is shown after the events from p on and before q were played one after
\* the other, when sh was shown before them.
Played(sh, p, q) ==
  [n \in Ids |->
     LET gone == LastEvent("removed", n, p, q)
         data == LastEvent("data", n, p, q)
         prop == LastEvent("prop", n, p, q)
     IN  [data |-> IF data > gone THEN data ELSE IF gone > 0 THEN 0 ELSE sh[n].data,
          prop |-> IF prop > gone THEN prop ELSE IF gone > 0 THEN 0 ELSE sh[n].prop]]

Init ==
  /\ events = <<>> /\ at = 0
  /\ shown = [n \in Ids |-> Nothing]
  /\ trusted = TRUE

\* While it is recorded, a timeline is only extended.
Record ==
  /\ at = 0 /\ events # events'
  /\ IsPrefix(events, events')
  /\ UNCHANGED <<at, shown, trusted>>

\* Opening and rewinding play from the first event up to some place.
Start ==
  /\ \E q \in 2..(Len(events) + 1) : at' = q /\ shown' = Played(shown, 1, q)
  /\ UNCHANGED <<events, trusted>>

\* Playing skips nothing.
Play ==
  /\ at > 0
  /\ \E q \in (at + 1)..(Len(events) + 1) : at' = q /\ shown' = Played(shown, at, q)
  /\ UNCHANGED <<events, trusted>>

\* A seek leads to the place after a frame, and every node shows what it showed
\* there: its last frame before, or a blank one, and its last value before. A
\* value that had none before stays.
Seek ==
  /\ at > 0
  /\ \E p \in DOMAIN events :
       /\ events[p].type = "data"
       /\ at' = p + 1
       /\ shown' = Played([n \in Ids |-> [shown[n] EXCEPT !.data = 0]], 1, p + 1)
  /\ UNCHANGED <<events, trusted>>

End ==
  /\ at > 0 /\ at' = 0
  /\ UNCHANGED <<events, shown, trusted>>

Distrust == ~trusted' /\ UNCHANGED events

Next == IF trusted THEN Record \/ Start \/ Play \/ Seek \/ End \/ Distrust ELSE ~trusted'

Spec == Init /\ [][Next]_tvars
=============================================================================
