------------------------------ MODULE SyncPump ------------------------------
(***************************************************************************)
(* What ControlClient promises its user, without threads, pointers or a    *)
(* network: announced changes are synchronised one at a time, in the order *)
(* they were announced, and none is lost, except that a removal takes the  *)
(* place of the oldest waiting change of its path.                         *)
(***************************************************************************)
EXTENDS Sequences, Integers

CONSTANTS Changes,  \* records with the fields path and type
          NoChange  \* the pump is idle

VARIABLES queue,    \* the changes that wait
          current   \* the change being synchronised, or NoChange

pump == <<queue, current>>

Init == queue = <<>> /\ current = NoChange

(* The queue without its oldest change of path p, or all of it. *)
IsSuperseded(q, p, r) ==
  \/ /\ \A i \in 1 .. Len(q) : q[i].path # p
     /\ r = q
  \/ \E i \in 1 .. Len(q) :
       /\ q[i].path = p
       /\ \A j \in 1 .. (i - 1) : q[j].path # p
       /\ r = SubSeq(q, 1, i - 1) \o SubSeq(q, i + 1, Len(q))

Announce(change) ==
  /\ Len(queue') > 0 /\ queue'[Len(queue')] = change
  /\ LET rest == SubSeq(queue', 1, Len(queue') - 1)
     IN  IF change.type = "removed" THEN IsSuperseded(queue, change.path, rest)
         ELSE rest = queue
  /\ UNCHANGED current

Begin ==
  /\ current = NoChange /\ queue # <<>>
  /\ current' = Head(queue) /\ queue' = Tail(queue)

Finish ==
  /\ current # NoChange /\ current' = NoChange
  /\ UNCHANGED queue

Next == Begin \/ Finish \/ \E change \in Changes : Announce(change)

Spec == Init /\ [][Next]_pump

(* A waiting change is begun, and a begun one is finished. *)
FairSpec == Spec /\ WF_pump(Begin) /\ WF_pump(Finish)
=============================================================================
