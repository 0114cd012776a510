------------------------------ MODULE NDnsInv ------------------------------
(***************************************************************************)
(* The inductive invariant of NDns, in named parts.  Each part relates two *)
(* pieces of state that the code keeps in step without saying so.          *)
(***************************************************************************)
EXTENDS NDns

InCritical  == {"locked", "reading", "lookup", "report", "posted"}
Reported    == {"posted", "finished"}
NotInList   == {"unborn", "deleted"}

\* The list holds exactly the workers whose thread was started and not reaped,
\* and the manager exists while the list is not empty.
ListInv == /\ \A w \in Workers : w \in list <=> wpc[w] \notin NotInList
           /\ man <=> (list # {})

\* Who holds the two mutexes.
LockInv == /\ \A w \in Workers : wpc[w] \in InCritical <=> workerMutex = w
           /\ \A w \in Workers : wpc[w] = "reading" <=> workerCancelled = w
           /\ gpc = "mark" <=> workerCancelled = GUI

Queued(w) == \E i \in 1..Len(events) : events[i] = w
Awaited(w) == gpc = "wait" /\ gworker = w

\* A worker that has reported is either in the event queue, once, or the one
\* the GUI thread waits for; no other worker is.
EventInv == /\ \A w \in Workers : (Queued(w) \/ Awaited(w)) <=> wpc[w] \in Reported
            /\ \A w \in Workers : ~(Queued(w) /\ Awaited(w))
            /\ \A i, j \in 1..Len(events) : events[i] = events[j] => i = j
            /\ gpc \in {"lock", "mark", "wait"} => gworker \in list

\* Items refer to live objects, one item per object.
OwnerInv == /\ \A w \in Workers : ndns[w] # None => w \in list /\ alive[ndns[w]]
            /\ \A v, w \in Workers : (ndns[v] = ndns[w] /\ ndns[v] # None) => v = w

\* A call under way is for a live object that has no item any more.
CallInv == /\ gpc \in {"idle", "wait"} => gcall.next = "idle"
           /\ gpc \in {"resolve", "destroy"} => gcall.next = gpc
           /\ gcall.next # "idle" =>
                /\ gcall.obj \in Objects
                /\ alive[gcall.obj]
                /\ \A w \in Workers : ndns[w] # gcall.obj
           /\ gcall.next = "resolve" => gcall.host \in Hosts
           /\ gpc = "wait" => slot = None
           /\ phase = "exited" => gpc = "idle" /\ slot = None /\ ~man

\* What a worker reports is the address of its host or a failure.
ResultInv == \A w \in Workers :
               IF w \in list THEN host[w] \in Hosts /\ waddr[w] \in {host[w], NoAddr}
                             ELSE waddr[w] = NoAddr

IInv == TypeOK /\ ListInv /\ LockInv /\ EventInv /\ OwnerInv /\ CallInv /\ ResultInv
=============================================================================
