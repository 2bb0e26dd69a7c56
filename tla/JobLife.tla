------------------------------- MODULE JobLife -------------------------------
(***************************************************************************)
(* What the rest of the agent may believe about a job: JobEngine           *)
(* implements it.  A job waits, may get one child, and is over once; the   *)
(* State it shows changes no more from then on.  Its credentials are       *)
(* unlinked once, while there is no child, and no child is started without *)
(* them.  Its verdict is announced once, after both.                       *)
(***************************************************************************)
EXTENDS Naturals, Sequences

CONSTANT Jobs

VARIABLES
    phase,     \* "unborn", "waiting", "spawned" or "over"
    child,     \* the jobs with a live child
    unlinked,  \* how often the credential files were unlinked
    shown,     \* the State anybody who asks is told
    news       \* the events announced, in order

vars == <<phase, child, unlinked, shown, news>>

Verdict == {"completed", "failed", "cancelled"}

Init ==
    /\ phase = [j \in Jobs |-> "unborn"]
    /\ child = {}
    /\ unlinked = [j \in Jobs |-> 0]
    /\ shown = [j \in Jobs |-> "none"]
    /\ news = [j \in Jobs |-> <<>>]

Register(j) ==
    /\ phase[j] = "unborn"
    /\ phase' = [phase EXCEPT ![j] = "waiting"]
    /\ shown' = [shown EXCEPT ![j] = "pending"]
    /\ UNCHANGED <<child, unlinked, news>>

Spawn(j) ==
    /\ phase[j] = "waiting"
    /\ unlinked[j] = 0
    /\ phase' = [phase EXCEPT ![j] = "spawned"]
    /\ child' = child \union {j}
    /\ UNCHANGED <<unlinked, shown, news>>

AnnounceStart(j) ==
    /\ phase[j] = "spawned"
    /\ news[j] = <<>>
    /\ news' = [news EXCEPT ![j] = <<"started">>]
    /\ shown' = [shown EXCEPT ![j] = "running"]
    /\ UNCHANGED <<phase, child, unlinked>>

Exit(j) ==
    /\ j \in child
    /\ child' = child \ {j}
    /\ UNCHANGED <<phase, unlinked, shown, news>>

Cancel(j) ==
    /\ phase[j] \in {"waiting", "spawned"}
    /\ shown[j] \in {"pending", "running"}
    /\ shown' = [shown EXCEPT ![j] = "cancelled"]
    /\ UNCHANGED <<phase, child, unlinked, news>>

Unlink(j) ==
    /\ phase[j] \in {"waiting", "over"}
    /\ j \notin child
    /\ unlinked[j] = 0
    /\ unlinked' = [unlinked EXCEPT ![j] = 1]
    /\ UNCHANGED <<phase, child, shown, news>>

\* Only a job that ran, and whose start was announced, completes.
Conclude(j, v) ==
    /\ \/ phase[j] = "waiting" /\ v # "completed"
       \/ phase[j] = "spawned" /\ news[j] = <<"started">>
    /\ j \notin child
    /\ phase' = [phase EXCEPT ![j] = "over"]
    /\ shown' = [shown EXCEPT ![j] = v]
    /\ UNCHANGED <<child, unlinked, news>>

AnnounceVerdict(j) ==
    /\ phase[j] = "over"
    /\ unlinked[j] = 1
    /\ news[j] \in {<<>>, <<"started">>}
    /\ news' = [news EXCEPT ![j] = Append(@, shown[j])]
    /\ UNCHANGED <<phase, child, unlinked, shown>>

Next ==
    \E j \in Jobs :
        \/ Register(j) \/ Spawn(j) \/ AnnounceStart(j) \/ Exit(j) \/ Cancel(j)
        \/ Unlink(j) \/ AnnounceVerdict(j)
        \/ \E v \in Verdict : Conclude(j, v)

Spec == Init /\ [][Next]_vars
=============================================================================
