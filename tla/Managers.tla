------------------------------ MODULE Managers ------------------------------
(***************************************************************************)
(* cmd/main.go: the life of the manager processes that run the reconcile   *)
(* loop.  There may be more than one of them: while the manager's own      *)
(* Deployment rolls over, or when somebody scales it up.  With the flag    *)
(* --leader-elect one at a time takes a lease; without it every process    *)
(* reconciles.  Nothing a process writes carries the lease, so one that    *)
(* lost it while it was paused goes on until it notices.                   *)
(***************************************************************************)
CONSTANTS Managers,     \* processes, by the place they run in
          Nobody

ASSUME ManagersAssumption == Nobody \notin Managers

VARIABLES
    elect,   \* the flag --leader-elect
    mode,    \* per process
    lease    \* the holder, as the Lease object has it

managerVars == <<elect, mode, lease>>

Modes == {"down", "candidate", "active"}

ManagersTypeOK ==
    /\ elect \in BOOLEAN
    /\ mode \in [Managers -> Modes]
    /\ lease \in Managers \cup {Nobody}

ManagersInit ==
    /\ elect \in BOOLEAN
    /\ mode = [m \in Managers |-> "down"]
    /\ lease = Nobody

\* main up to mgr.Start; without leader election the controller starts at once.
Boot(m) ==
    /\ mode[m] = "down"
    /\ mode' = [mode EXCEPT ![m] = IF elect THEN "candidate" ELSE "active"]
    /\ UNCHANGED <<elect, lease>>

\* (mutant: a candidate does not wait for the lease)
AcquireAtOnce(m) ==
    /\ elect /\ mode[m] = "candidate"
    /\ lease' = m
    /\ mode' = [mode EXCEPT ![m] = "active"]
    /\ UNCHANGED elect

\* A candidate takes a free lease, and a holder renews one that lapsed.
Acquire(m) ==
    /\ elect /\ mode[m] # "down" /\ lease = Nobody
    /\ lease' = m
    /\ mode' = [mode EXCEPT ![m] = "active"]
    /\ UNCHANGED elect

\* Its holder does not renew in time, although it is alive.
Lapse ==
    /\ lease # Nobody /\ mode[lease] = "active"
    /\ lease' = Nobody
    /\ UNCHANGED <<elect, mode>>

\* LeaderElectionReleaseOnCancel is off: the lease of a process that is gone
\* runs out.  A process started in its place has another identity.
Expire ==
    /\ lease # Nobody /\ mode[lease] # "active"
    /\ lease' = Nobody
    /\ UNCHANGED <<elect, mode>>

\* (mutant: losing the lease goes unnoticed)
StayOn(m) == FALSE /\ UNCHANGED managerVars

\* mgr.Start returns when the lease is lost, and main exits.
Retire(m) ==
    /\ elect /\ mode[m] = "active" /\ lease # m
    /\ mode' = [mode EXCEPT ![m] = "down"]
    /\ UNCHANGED <<elect, lease>>

\* The process is killed.
Stop(m) ==
    /\ mode[m] # "down"
    /\ mode' = [mode EXCEPT ![m] = "down"]
    /\ UNCHANGED <<elect, lease>>
=============================================================================
