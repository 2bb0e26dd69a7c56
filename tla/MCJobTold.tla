------------------------------ MODULE MCJobTold ------------------------------
(***************************************************************************)
(* What the outside is told of a job, line by line (JobLog) and event by   *)
(* event (EventPath).  The two meet in no variable of the models and are   *)
(* checked side by side: a behaviour is one of EventPath or one of JobLog, *)
(* and the other is left as it was in the beginning.                       *)
(***************************************************************************)
EXTENDS EventPath

CONSTANTS Source, Client, Lines, RingBufferSize, SubscriberBuffer

VARIABLES scenario,
          src, pipe, child, closed, line, pending, draining, retry, ring, subs, chan,
          isOpen, wait, disk, ws, seen, dropped, panicked

logVars == <<src, pipe, child, closed, line, pending, draining, retry, ring, subs, chan,
             isOpen, wait, disk, ws, seen, dropped, panicked>>

Log == INSTANCE JobLog

ASSUME LogConstantsFit == Log!LogConstants

SideInit == scenario \in {"events", "log"} /\ Init /\ Log!Init

EventsNext == scenario = "events" /\ Next /\ UNCHANGED <<scenario, logVars>>
LogNext == scenario = "log" /\ Log!Next /\ UNCHANGED <<scenario, vars>>

\* A job's log may come to its end; that of the events does not.
LogMayStop == scenario = "log" /\ UNCHANGED <<scenario, vars, logVars>>

\* The fairness of each part, while that part is what is looked at.
EventsFair ==
    /\ WF_vars(scenario = "events" /\ Boot)
    /\ \A j \in Jobs :
          /\ WF_vars(scenario = "events" /\ emitTerminal(j))
          /\ WF_vars(scenario = "events" /\ \E e \in JobEvent : HookStep(j, e))
    /\ SF_vars(scenario = "events" /\ \E m \in outbox : deliver(m, TRUE))
    /\ WF_vars(scenario = "events" /\ reconcileSnapshot)
    /\ SF_vars(scenario = "events" /\ reconcilePost(TRUE))

LogFair ==
    /\ WF_logVars(scenario = "log" /\ Log!childExits /\ ~panicked)
    /\ WF_logVars(scenario = "log" /\ Log!WaitStep /\ ~panicked)
    /\ \A s \in Source : WF_logVars(scenario = "log" /\ Log!TailStep(s) /\ ~panicked)
    /\ \A c \in Client : WF_logVars(scenario = "log" /\ Log!ClientStep(c) /\ ~panicked)

SideSpec ==
    /\ SideInit /\ [][EventsNext \/ LogNext \/ LogMayStop]_<<scenario, vars, logVars>>
    /\ EventsFair /\ LogFair

\* A client is shown lines of the job in order and no unexplained gap (JobLog.tla).
StreamFaithful == Log!StreamFaithful

\* A client that subscribed before the verdict is released (JobLog.tla).
SubscriberReleased == Log!SubscriberReleased
=============================================================================
