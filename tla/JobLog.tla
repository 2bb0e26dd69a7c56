------------------------------- MODULE JobLog -------------------------------
(***************************************************************************)
(* The output of one job (src/jobs.go): the child writes lines to two      *)
(* pipes, two tail goroutines append them to the ring buffer and copy them *)
(* to the channels of the WebSocket clients, and the wait goroutine closes *)
(* the channels and flushes the ring to disk when the child has exited.    *)
(*                                                                         *)
(* appendLine copies the set of subscribers under the job's lock and sends *)
(* after the unlock, and cmd.Wait closes the pipes without waiting for the *)
(* tails: both windows are steps of the model.                             *)
(***************************************************************************)
EXTENDS Naturals, Sequences, FiniteSets, SequencesExt

CONSTANTS
    Source,            \* the pipes: stdout and stderr
    Client,            \* WebSocket connections; each subscribes once
    Lines,             \* bound: the lines the child writes
    RingBufferSize,    \* ringBufferSize
    SubscriberBuffer   \* subscriberBuffer: capacity of a client's channel

\* ringBufferSize is 500 and subscriberBuffer is 256; the proofs need numbers.
LogConstants ==
    /\ Lines \in Nat
    /\ RingBufferSize \in Nat
    /\ SubscriberBuffer \in Nat

VARIABLES
    src,        \* src[n]: the pipe the child wrote line n to
    pipe,       \* per pipe: lines written and not yet read by the tail
    child,      \* "alive", "exited"
    closed,     \* cmd.Wait has closed the read ends of the pipes
    line,       \* per tail: the line it is handling, 0: none
    pending,    \* per tail: the channels appendLine still has to send to
    draining,   \* per tail: the channel it found full, {}: none
    retry,      \* per tail: the channel it drained and sends to again
    ring,       \* j.ringBuffer
    subs,       \* j.subscribers
    chan,       \* per client: the content of its channel
    isOpen,     \* per client: its channel is not closed
    wait,       \* the wait goroutine: "wait", "published", "flushed"
    disk,       \* the flushed log, <<0>>: no file
    ws,         \* per client: "idle", "streaming", "ended", "gone"
    seen,       \* per client: what it was sent, history first
    dropped,    \* history, per client: lines dropped for a full channel
    panicked    \* a send on a closed channel: the agent dies

sendVars == <<pending, draining, retry>>
vars == <<src, pipe, child, closed, line, sendVars, ring, subs, chan,
          isOpen, wait, disk, ws, seen, dropped, panicked>>
streamVars == <<ws, seen>>
chanVars == <<chan, isOpen, dropped, panicked>>
waitVars == <<closed, wait, disk>>

NoFile == <<0>>

\* The last n elements of a sequence.
LastN(s, n) == IF Len(s) > n THEN SubSeq(s, Len(s) - n + 1, Len(s)) ELSE s

Init ==
    /\ src = <<>>
    /\ pipe = [s \in Source |-> <<>>]
    /\ child = "alive"
    /\ closed = FALSE
    /\ line = [s \in Source |-> 0]
    /\ pending = [s \in Source |-> {}]
    /\ draining = [s \in Source |-> {}]
    /\ retry = [s \in Source |-> {}]
    /\ ring = <<>>
    /\ subs = {}
    /\ chan = [c \in Client |-> <<>>]
    /\ isOpen = [c \in Client |-> TRUE]
    /\ wait = "wait"
    /\ disk = NoFile
    /\ ws = [c \in Client |-> "idle"]
    /\ seen = [c \in Client |-> <<>>]
    /\ dropped = [c \in Client |-> {}]
    /\ panicked = FALSE

-----------------------------------------------------------------------------
\* External: the child writes its next line to a pipe, or exits.
childWrites(s) ==
    /\ child = "alive"
    /\ Len(src) < Lines
    /\ src' = Append(src, s)
    /\ pipe' = [pipe EXCEPT ![s] = Append(@, Len(src'))]
    /\ UNCHANGED <<child, line, sendVars, ring, subs, waitVars, chanVars,
                   streamVars>>

childExits ==
    /\ child = "alive"
    /\ child' = "exited"
    /\ UNCHANGED <<src, pipe, line, sendVars, ring, subs, waitVars, chanVars,
                   streamVars>>

-----------------------------------------------------------------------------
\* The ring after a line is appended: the newest ringBufferSize lines.
ringAppend(l) == LastN(Append(ring, l), RingBufferSize)

\* tail reads the next line; appendLine, under the job's lock, appends it to
\* the ring and copies the subscribers.
appendLine(s) ==
    /\ line[s] = 0
    /\ pipe[s] # <<>>
    /\ pipe' = [pipe EXCEPT ![s] = Tail(@)]
    /\ ring' = ringAppend(Head(pipe[s]))
    /\ line' = [line EXCEPT ![s] = Head(pipe[s])]
    /\ pending' = [pending EXCEPT ![s] = subs]
    /\ UNCHANGED <<src, child, draining, retry, subs, waitVars, chanVars,
                   streamVars>>

\* The line is in the channel, and the tail is done with the channel.
deliver(s, c) ==
    /\ chan' = [chan EXCEPT ![c] = Append(@, line[s])]
    /\ pending' = [pending EXCEPT ![s] = @ \ {c}]
    /\ retry' = [retry EXCEPT ![s] = {}]
    /\ UNCHANGED <<draining, isOpen, dropped, panicked>>

panic == panicked' = TRUE /\ UNCHANGED <<sendVars, chan, isOpen, dropped>>

\* appendLine, after the unlock: send to one of the channels it copied, if
\* there is room.
sendLine(s, c) ==
    /\ c \in pending[s]
    /\ draining[s] = {} /\ retry[s] = {}
    /\ \/ ~isOpen[c] /\ panic
       \/ isOpen[c] /\ Len(chan[c]) < SubscriberBuffer /\ deliver(s, c)
       \/ /\ isOpen[c] /\ Len(chan[c]) = SubscriberBuffer
          /\ draining' = [draining EXCEPT ![s] = {c}]
          /\ UNCHANGED <<pending, retry, chanVars>>
    /\ UNCHANGED <<src, pipe, child, line, ring, subs, waitVars, streamVars>>

\* The channel was full: it loses its oldest line, if it still has one.
drainOldest(s, c) ==
    /\ c \in draining[s]
    /\ draining' = [draining EXCEPT ![s] = {}]
    /\ retry' = [retry EXCEPT ![s] = {c}]
    /\ IF chan[c] = <<>>
       THEN UNCHANGED <<chan, dropped>>
       ELSE /\ chan' = [chan EXCEPT ![c] = Tail(@)]
            /\ dropped' = [dropped EXCEPT ![c] = @ \union {Head(chan[c])}]
    /\ UNCHANGED <<src, pipe, child, line, pending, ring, subs, waitVars,
                   isOpen, panicked, streamVars>>

\* The second attempt; if the other tail has filled the channel meanwhile,
\* the line itself is dropped.
sendAgain(s, c) ==
    /\ c \in retry[s]
    /\ \/ ~isOpen[c] /\ panic
       \/ isOpen[c] /\ Len(chan[c]) < SubscriberBuffer /\ deliver(s, c)
       \/ /\ isOpen[c] /\ Len(chan[c]) = SubscriberBuffer
          /\ dropped' = [dropped EXCEPT ![c] = @ \union {line[s]}]
          /\ pending' = [pending EXCEPT ![s] = @ \ {c}]
          /\ retry' = [retry EXCEPT ![s] = {}]
          /\ UNCHANGED <<draining, chan, isOpen, panicked>>
    /\ UNCHANGED <<src, pipe, child, line, ring, subs, waitVars, streamVars>>

\* appendLine returns and tail asks its scanner for the next line.
nextLine(s) ==
    /\ line[s] # 0
    /\ pending[s] = {}
    /\ line' = [line EXCEPT ![s] = 0]
    /\ UNCHANGED <<src, pipe, child, sendVars, ring, subs, waitVars, chanVars,
                   streamVars>>

-----------------------------------------------------------------------------
\* cmd.Wait: the child has exited and the read ends of the pipes are closed.
\* The lines a scanner has already buffered are still delivered to its tail;
\* the ones left in the pipe are gone.  keep: how many each scanner has.
waitCloses ==
    /\ child = "exited"
    /\ ~closed
    /\ closed' = TRUE
    /\ \E keep \in [Source -> 0..Lines] :
          /\ \A s \in Source : keep[s] <= Len(pipe[s])
          /\ pipe' = [s \in Source |-> SubSeq(pipe[s], 1, keep[s])]
    /\ UNCHANGED <<src, child, line, sendVars, ring, subs, wait, disk,
                   chanVars, streamVars>>

\* Mutant: the channels are forgotten, not closed.
closeChannels_forgets == UNCHANGED isOpen

\* Every subscribed channel is closed.
closeChannels == isOpen' = [c \in Client |-> isOpen[c] /\ c \notin subs]

\* The wait goroutine, under the job's lock: State is final, the channels are
\* closed and the set of subscribers is emptied.
publishVerdict ==
    /\ closed
    /\ wait = "wait"
    /\ wait' = "published"
    /\ closeChannels
    /\ subs' = {}
    /\ UNCHANGED <<src, pipe, child, closed, line, sendVars, ring, chan, disk,
                   dropped, panicked, streamVars>>

\* flushJobLog: the ring as it is now goes to disk, by write and rename; a
\* failed write, or no configured directory, leaves no file.
flushJobLog ==
    /\ wait = "published"
    /\ wait' = "flushed"
    /\ disk' \in {ring, NoFile}
    /\ UNCHANGED <<src, pipe, child, closed, line, sendVars, ring, subs,
                   chanVars, streamVars>>

-----------------------------------------------------------------------------
\* The history handed to a new subscriber.
history == ring

\* Mutant: the channel is added, and the ring is copied after an unlock.
subscribe_unlocked(c) ==
    /\ ws[c] = "idle"
    /\ \/ c \notin subs /\ subs' = subs \union {c} /\ UNCHANGED <<ws, seen>>
       \/ /\ c \in subs
          /\ ws' = [ws EXCEPT ![c] = "streaming"]
          /\ seen' = [seen EXCEPT ![c] = history]
          /\ UNCHANGED subs
    /\ UNCHANGED <<src, pipe, child, line, sendVars, ring, waitVars,
                   chanVars>>

\* handleJobLogsWS: subscribe adds the channel and copies the ring under the
\* job's lock; the copy is sent first.
subscribe(c) ==
    /\ ws[c] = "idle"
    /\ ws' = [ws EXCEPT ![c] = "streaming"]
    /\ subs' = subs \union {c}
    /\ seen' = [seen EXCEPT ![c] = history]
    /\ UNCHANGED <<src, pipe, child, line, sendVars, ring, waitVars,
                   chanVars>>

\* handleJobLogsWS receives a line.
receive(c) ==
    /\ ws[c] = "streaming"
    /\ chan[c] # <<>>
    /\ chan' = [chan EXCEPT ![c] = Tail(@)]
    /\ seen' = [seen EXCEPT ![c] = Append(@, Head(chan[c]))]
    /\ UNCHANGED <<src, pipe, child, line, sendVars, ring, subs, waitVars,
                   isOpen, dropped, panicked, ws>>

\* handleJobLogsWS finds its channel closed and empty: it sends the terminal
\* sentinel and returns.
receiveClosed(c) ==
    /\ ws[c] = "streaming"
    /\ chan[c] = <<>>
    /\ ~isOpen[c]
    /\ ws' = [ws EXCEPT ![c] = "ended"]
    /\ UNCHANGED <<src, pipe, child, line, sendVars, ring, subs, waitVars,
                   chanVars, seen>>

\* The client disconnects: unsubscribe.
disconnect(c) ==
    /\ ws[c] = "streaming"
    /\ ws' = [ws EXCEPT ![c] = "gone"]
    /\ subs' = subs \ {c}
    /\ UNCHANGED <<src, pipe, child, line, sendVars, ring, waitVars, chanVars,
                   seen>>

-----------------------------------------------------------------------------
\* The tails, the wait goroutine and the WebSocket handlers.
TailStep(s) ==
    \/ appendLine(s)
    \/ nextLine(s)
    \/ \E c \in Client :
          sendLine(s, c) \/ drainOldest(s, c) \/ sendAgain(s, c)

WaitStep == waitCloses \/ publishVerdict \/ flushJobLog

ClientStep(c) == receive(c) \/ receiveClosed(c)

\* Every goroutine stops when one of them panics.
Next ==
    /\ ~panicked
    /\ \/ \E s \in Source : childWrites(s) \/ TailStep(s)
       \/ childExits
       \/ WaitStep
       \/ \E c \in Client : subscribe(c) \/ ClientStep(c) \/ disconnect(c)

Spec == Init /\ [][Next]_vars

\* The goroutines run, and the child exits.
FairSpec ==
    /\ Spec
    /\ WF_vars(childExits /\ ~panicked)
    /\ WF_vars(WaitStep /\ ~panicked)
    /\ \A s \in Source : WF_vars(TailStep(s) /\ ~panicked)
    /\ \A c \in Client : WF_vars(ClientStep(c) /\ ~panicked)

-----------------------------------------------------------------------------
Line == 1..Lines

TypeOK ==
    /\ src \in Seq(Source) /\ Len(src) <= Lines
    /\ pipe \in [Source -> Seq(Line)]
    /\ child \in {"alive", "exited"}
    /\ closed \in BOOLEAN
    /\ line \in [Source -> 0..Lines]
    /\ pending \in [Source -> SUBSET Client]
    /\ draining \in [Source -> SUBSET Client]
    /\ retry \in [Source -> SUBSET Client]
    /\ ring \in Seq(Line) /\ Len(ring) <= RingBufferSize
    /\ subs \in SUBSET Client
    /\ chan \in [Client -> Seq(Line)]
    /\ \A c \in Client : Len(chan[c]) <= SubscriberBuffer
    /\ isOpen \in [Client -> BOOLEAN]
    /\ wait \in {"wait", "published", "flushed"}
    /\ disk \in Seq(0..Lines)
    /\ ws \in [Client -> {"idle", "streaming", "ended", "gone"}]
    /\ seen \in [Client -> Seq(Line)]
    /\ dropped \in [Client -> SUBSET Line]
    /\ panicked \in BOOLEAN

\* What a client has got and what waits in its channel.
Stream(c) == seen[c] \o chan[c]

\* The lines of the stream a tail still owes the client.
Owed(c) == {line[s] : s \in {t \in Source : c \in pending[t]}}

(***************************************************************************)
(* What a client is shown keeps the order of each pipe and repeats no      *)
(* line: history and live lines do not overlap, although the sends happen  *)
(* outside the lock and full channels are drained (subscribe, appendLine). *)
(***************************************************************************)
StreamInOrder ==
    \A c \in Client : \A i, k \in 1..Len(Stream(c)) :
        i < k /\ src[Stream(c)[i]] = src[Stream(c)[k]] => Stream(c)[i] < Stream(c)[k]

(***************************************************************************)
(* A client that streams misses no line that was appended after its        *)
(* history began: each line of the ring is in its stream, still owed to    *)
(* it, or was dropped as the oldest line of its full channel.              *)
(***************************************************************************)
NoUnexplainedGap ==
    \A c \in Client : ws[c] = "streaming" /\ c \in subs =>
        ToSet(ring) \subseteq ToSet(Stream(c)) \union Owed(c) \union dropped[c]

(***************************************************************************)
(* What a client sees of a job is the job's output in order, each line at  *)
(* most once, and whole but for lines its full channel dropped; the ring   *)
(* and the channels stay within their bounds (appendLine, subscribe).      *)
(***************************************************************************)
StreamFaithful == TypeOK /\ StreamInOrder /\ NoUnexplainedGap

(***************************************************************************)
(* A client that subscribed before the verdict gets the terminal sentinel, *)
(* disconnects, or sees the agent die (handleJobLogsWS).                   *)
(***************************************************************************)
SubscriberReleased ==
    \A c \in Client :
        c \in subs /\ wait = "wait" ~> ws[c] \in {"ended", "gone"} \/ panicked

(***************************************************************************)
(* jobs.go:892: "close all subscriber channels so WS handlers exit         *)
(* cleanly": closing them does not bring the agent down.                   *)
(***************************************************************************)
ClosingIsClean == ~panicked

(***************************************************************************)
(* jobs.go:1165: "send a terminal sentinel so the UI can show              *)
(* completed/failed": every client that stays connected gets it.           *)
(***************************************************************************)
EveryClientSeesEnd ==
    \A c \in Client :
        ws[c] = "streaming" ~> ws[c] \in {"ended", "gone"} \/ panicked

(***************************************************************************)
(* jobs.go:906: "Flush the ring buffer to disk so failed jobs can be       *)
(* diagnosed post-mortem": the file has the lines the child ended with.    *)
(***************************************************************************)
LogHasLastLines ==
    disk # NoFile /\ src # <<>> => Len(src) \in ToSet(disk)
=============================================================================
