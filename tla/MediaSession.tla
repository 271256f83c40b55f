---------------------------- MODULE MediaSession ----------------------------
(***************************************************************************)
(* The Go media session of pkg/media/session.go: Serve starts one goroutine *)
(* per transport manager (processIncoming for an input, processOutgoing for *)
(* an output), packets reach the outputs' queues through trySendPacket, and *)
(* when the session's context is cancelled Serve closes the transports,     *)
(* waits for the loops and reports the shutdown.                            *)
(*                                                                         *)
(* Besides those goroutines there are Senders, which call SendToOutput with *)
(* synthesized speech, Drainers, which call DrainOutputs on barge-in, and   *)
(* whoever calls Close.  A packet is a number, counted per kind, and its    *)
(* kind.  Filters, processors, codecs and handlers are represented by their *)
(* outcomes: the packet goes on, is dropped, or ends the loop.              *)
(***************************************************************************)
EXTENDS Naturals, Sequences, FiniteSets

CONSTANTS
  Inputs, Outputs,   \* sequences of transport managers, in registration order
  Senders, Drainers, \* goroutines
  QueueSize,         \* capacity of an output's txqueue
  MaxUplink,         \* bound on the packets the inputs deliver
  MaxSpeech,         \* bound on the synthesized packets sent
  Free               \* nobody holds the mutex

Range(s) == {s[i] : i \in DOMAIN s}
InputSet == Range(Inputs)
OutputSet == Range(Outputs)
Managers == InputSet \cup OutputSet
Emitters == InputSet \cup Senders

ASSUME SessionAssumption ==
  /\ QueueSize \in Nat \ {0}
  /\ MaxUplink \in Nat /\ MaxSpeech \in Nat
  /\ Inputs \in Seq(InputSet) /\ Outputs \in Seq(OutputSet)
  /\ InputSet \cap OutputSet = {} /\ Managers \cap Senders = {}
  /\ \A i, j \in DOMAIN Outputs : Outputs[i] = Outputs[j] => i = j

VARIABLES
  cancelled,  \* session.ctx is done
  serve,      \* the Serve goroutine: pc and the managers still to clean up
  mtx,        \* the goroutine that holds TransportManager.mtx
  transport,  \* TransportManager.transport: open, Close called, or nil
  loop,       \* the manager's goroutine and the packet it holds
  q,          \* TransportManager.txqueue
  emit,       \* per emitter: the packet and the outputs it still goes to
  drain,      \* per drainer: the outputs still to drain
  uplink,     \* packets the inputs delivered
  speech,     \* synthesized packets handed to SendToOutput
  dropped,    \* session.droppedPackets
  queued,     \* history, per output: the last speech packet trySendPacket put in
  taken,      \* history, per output: the last speech packet the loop took
  floor,      \* history, per output: what queued was at the last drain
  stale,      \* history, per output: speech sent since then that was queued before
  timedOut    \* history: managers whose loop cleanup gave up waiting for

vars == <<cancelled, serve, mtx, transport, loop, q, emit, drain, uplink,
          speech, dropped, queued, taken, floor, stale, timedOut>>
history == <<queued, taken, floor, stale, timedOut>>

Packet == [kind : {"uplink", "speech"}, n : Nat]
NoPacket == [kind |-> "none"]
NotEmitting == [pkt |-> NoPacket, todo |-> <<>>, blocked |-> FALSE]
Loop(pc) == [pc |-> pc, pkt |-> NoPacket]

\* The places in a queue that hold synthesized speech.
Speech(s) == {i \in DOMAIN s : s[i].kind = "speech"}

-----------------------------------------------------------------------------
(* Serve, Close and the cleanup                                            *)

\* Serve sets up the output router and the timer and starts the loops.
ServeStart ==
  /\ serve.pc = "new"
  /\ serve' = [serve EXCEPT !.pc = "serving"]
  /\ loop' = [m \in Managers |-> Loop("spawned")]
  /\ UNCHANGED <<cancelled, mtx, transport, q, emit, drain, uplink, speech,
                 dropped, history>>

\* Close cancels the context; anybody may call it at any time.
Close ==
  /\ ~cancelled
  /\ cancelled' = TRUE
  /\ UNCHANGED <<serve, mtx, transport, loop, q, emit, drain, uplink, speech,
                 dropped, history>>

\* Slip: the timer only announces the hangup
SessionTimeoutAnnounces ==
  /\ serve.pc # "new" /\ ~cancelled
  /\ UNCHANGED vars

\* The timer of MaxSessionDuration closes the session.
SessionTimeout ==
  /\ serve.pc # "new"
  /\ Close

\* Serve's deferred function: End is emitted, then the managers are cleaned
\* up one after the other, inputs first.
ServeEnd ==
  /\ serve.pc = "serving" /\ cancelled
  /\ serve' = [pc |-> "cleaning", todo |-> Inputs \o Outputs]
  /\ UNCHANGED <<cancelled, mtx, transport, loop, q, emit, drain, uplink,
                 speech, dropped, history>>

\* TransportManager.cleanup takes the mutex and closes the transport.
CleanupLock ==
  /\ serve.pc = "cleaning" /\ serve.todo # <<>>
  /\ LET m == Head(serve.todo) IN
     /\ mtx[m] = Free
     /\ mtx' = [mtx EXCEPT ![m] = "serve"]
     /\ transport' = [transport EXCEPT ![m] = "closed"]
  /\ UNCHANGED <<cancelled, serve, loop, q, emit, drain, uplink, speech,
                 dropped, history>>

\* The manager's loop made its ClosedChan: cleanup has to wait for it.
ChanMade(m) == loop[m].pc \notin {"none", "spawned"}

\* Slip: cleanup does not wait for the loop
CleanupDoneEarly ==
  /\ serve.pc = "cleaning" /\ serve.todo # <<>>
  /\ LET m == Head(serve.todo) IN
     /\ mtx[m] = "serve"
     /\ transport' = [transport EXCEPT ![m] = "nil"]
     /\ mtx' = [mtx EXCEPT ![m] = Free]
  /\ serve' = [serve EXCEPT !.todo = Tail(@)]
  /\ UNCHANGED <<cancelled, loop, q, emit, drain, uplink, speech, dropped,
                 history>>

\* cleanup, when the loop has signalled, or was never seen to start.
CleanupDone ==
  /\ serve.pc = "cleaning" /\ serve.todo # <<>>
  /\ LET m == Head(serve.todo) IN
     /\ mtx[m] = "serve"
     /\ ChanMade(m) => loop[m].pc = "ended"
     /\ transport' = [transport EXCEPT ![m] = "nil"]
     /\ mtx' = [mtx EXCEPT ![m] = Free]
  /\ serve' = [serve EXCEPT !.todo = Tail(@)]
  /\ UNCHANGED <<cancelled, loop, q, emit, drain, uplink, speech, dropped,
                 history>>

\* cleanup, when the five seconds pass first.
CleanupTimeout ==
  /\ serve.pc = "cleaning" /\ serve.todo # <<>>
  /\ LET m == Head(serve.todo) IN
     /\ mtx[m] = "serve"
     /\ ChanMade(m) /\ loop[m].pc # "ended"
     /\ timedOut' = timedOut \cup {m}
     /\ transport' = [transport EXCEPT ![m] = "nil"]
     /\ mtx' = [mtx EXCEPT ![m] = Free]
  /\ serve' = [serve EXCEPT !.todo = Tail(@)]
  /\ UNCHANGED <<cancelled, loop, q, emit, drain, uplink, speech, dropped,
                 queued, taken, floor, stale>>

\* The post hooks run and markServeShutdownComplete closes shutdownCh.
ServeDone ==
  /\ serve.pc = "cleaning" /\ serve.todo = <<>>
  /\ serve' = [serve EXCEPT !.pc = "done"]
  /\ UNCHANGED <<cancelled, mtx, transport, loop, q, emit, drain, uplink,
                 speech, dropped, history>>

\* What WaitServeShutdown waits for.
ShutdownComplete == serve.pc = "done"

-----------------------------------------------------------------------------
(* trySendPacket, by an input loop or a sender                             *)

\* The emitter is done with the first of its outputs.
NextOutput(x) ==
  IF Len(emit[x].todo) = 1 THEN NotEmitting
  ELSE [emit[x] EXCEPT !.todo = Tail(@), !.blocked = FALSE]

\* The packet goes into the queue of o.
Enqueue(o, pkt) ==
  /\ q' = [q EXCEPT ![o] = Append(@, pkt)]
  /\ queued' = IF pkt.kind = "speech" THEN [queued EXCEPT ![o] = pkt.n] ELSE queued

\* The output router finds the manager by its transport, so it passes over
\* one that was cleaned up without taking its mutex.
RouterSkips(x) ==
  /\ emit[x].todo # <<>> /\ ~emit[x].blocked
  /\ x \in InputSet /\ transport[Head(emit[x].todo)] = "nil"
  /\ emit' = [emit EXCEPT ![x] = NextOutput(x)]
  /\ UNCHANGED <<cancelled, serve, mtx, transport, loop, q, drain, uplink,
                 speech, dropped, history>>

\* Slip: speech is dropped like any other packet when the queue is full
TrySendPacketDrops(x) ==
  LET o == Head(emit[x].todo) IN
  /\ emit[x].todo # <<>> /\ ~emit[x].blocked
  /\ mtx[o] = Free
  /\ emit' = [emit EXCEPT ![x] = NextOutput(x)]
  /\ IF transport[o] # "nil" /\ Len(q[o]) < QueueSize
     THEN Enqueue(o, emit[x].pkt) /\ UNCHANGED dropped
     ELSE dropped' = dropped + 1 /\ UNCHANGED <<q, queued>>
  /\ UNCHANGED <<cancelled, serve, mtx, transport, loop, drain, uplink, speech,
                 taken, floor, stale, timedOut>>

\* trySendPacket: nothing is sent after the cleanup; a synthesized packet
\* waits for room with the mutex held; any other is dropped when there is none.
TrySendPacket(x) ==
  LET o == Head(emit[x].todo) IN
  /\ emit[x].todo # <<>> /\ ~emit[x].blocked
  /\ mtx[o] = Free
  /\ \/ /\ transport[o] = "nil"
        /\ emit' = [emit EXCEPT ![x] = NextOutput(x)]
        /\ UNCHANGED <<mtx, q, queued, dropped>>
     \/ /\ transport[o] # "nil" /\ Len(q[o]) < QueueSize
        /\ Enqueue(o, emit[x].pkt)
        /\ emit' = [emit EXCEPT ![x] = NextOutput(x)]
        /\ UNCHANGED <<mtx, dropped>>
     \/ /\ transport[o] # "nil" /\ Len(q[o]) = QueueSize
        /\ emit[x].pkt.kind = "uplink"
        /\ dropped' = dropped + 1
        /\ emit' = [emit EXCEPT ![x] = NextOutput(x)]
        /\ UNCHANGED <<mtx, q, queued>>
     \/ /\ transport[o] # "nil" /\ Len(q[o]) = QueueSize
        /\ emit[x].pkt.kind = "speech"
        /\ mtx' = [mtx EXCEPT ![o] = x]
        /\ emit' = [emit EXCEPT ![x].blocked = TRUE]
        /\ UNCHANGED <<q, queued, dropped>>
  /\ UNCHANGED <<cancelled, serve, transport, loop, drain, uplink, speech,
                 taken, floor, stale, timedOut>>

\* Slip: the blocked send does not watch the context
BlockedSendForever(x) ==
  LET o == Head(emit[x].todo) IN
  /\ emit[x].blocked
  /\ Len(q[o]) < QueueSize /\ Enqueue(o, emit[x].pkt)
  /\ mtx' = [mtx EXCEPT ![o] = Free]
  /\ emit' = [emit EXCEPT ![x] = NextOutput(x)]
  /\ UNCHANGED <<cancelled, serve, transport, loop, drain, uplink, speech,
                 dropped, taken, floor, stale, timedOut>>

\* The blocking select of trySendPacket: room, or the end of the session.
BlockedSend(x) ==
  LET o == Head(emit[x].todo) IN
  /\ emit[x].blocked
  /\ \/ Len(q[o]) < QueueSize /\ Enqueue(o, emit[x].pkt)
     \/ cancelled /\ UNCHANGED <<q, queued>>
  /\ mtx' = [mtx EXCEPT ![o] = Free]
  /\ emit' = [emit EXCEPT ![x] = NextOutput(x)]
  /\ UNCHANGED <<cancelled, serve, transport, loop, drain, uplink, speech,
                 dropped, taken, floor, stale, timedOut>>

\* SendToOutput with a synthesized packet.
SendToOutput(x) ==
  /\ emit[x] = NotEmitting /\ speech < MaxSpeech
  /\ speech' = speech + 1
  /\ emit' = [emit EXCEPT ![x] =
       [pkt |-> [kind |-> "speech", n |-> speech + 1],
        todo |-> Outputs, blocked |-> FALSE]]
  /\ UNCHANGED <<cancelled, serve, mtx, transport, loop, q, drain, uplink,
                 dropped, history>>

-----------------------------------------------------------------------------
(* DrainOutputs                                                            *)

DrainOutputs(d) ==
  /\ drain[d] = <<>>
  /\ drain' = [drain EXCEPT ![d] = Outputs]
  /\ UNCHANGED <<cancelled, serve, mtx, transport, loop, q, emit, uplink,
                 speech, dropped, history>>

\* Slip: one packet is taken instead of all of them
DrainOneOnly(d) ==
  LET o == Head(drain[d]) IN
  /\ drain[d] # <<>> /\ mtx[o] = Free
  /\ q' = [q EXCEPT ![o] = IF @ = <<>> THEN @ ELSE Tail(@)]
  /\ floor' = [floor EXCEPT ![o] = queued[o]]
  /\ stale' = [stale EXCEPT ![o] = 0]
  /\ drain' = [drain EXCEPT ![d] = Tail(@)]
  /\ UNCHANGED <<cancelled, serve, mtx, transport, loop, emit, uplink, speech,
                 dropped, queued, taken, timedOut>>

\* TransportManager.drain empties the queue under the mutex, which keeps
\* senders out; a packet the loop takes meanwhile counts as taken before.
DrainOne(d) ==
  LET o == Head(drain[d]) IN
  /\ drain[d] # <<>> /\ mtx[o] = Free
  /\ q' = [q EXCEPT ![o] = <<>>]
  /\ floor' = [floor EXCEPT ![o] = queued[o]]
  /\ stale' = [stale EXCEPT ![o] = 0]
  /\ drain' = [drain EXCEPT ![d] = Tail(@)]
  /\ UNCHANGED <<cancelled, serve, mtx, transport, loop, emit, uplink, speech,
                 dropped, queued, taken, timedOut>>

-----------------------------------------------------------------------------
(* The loops                                                               *)

SetLoop(m, l) == loop' = [loop EXCEPT ![m] = l]

\* Both loops make their ClosedChan under the mutex before anything else.
LoopStart(m) ==
  /\ loop[m].pc = "spawned" /\ mtx[m] = Free
  /\ SetLoop(m, Loop("ready"))
  /\ UNCHANGED <<cancelled, serve, mtx, transport, q, emit, drain, uplink,
                 speech, dropped, history>>

\* processIncoming: the context is looked at before every Next.
InputNext(m) ==
  /\ m \in InputSet /\ loop[m].pc = "ready" /\ emit[m] = NotEmitting
  /\ SetLoop(m, Loop(IF cancelled THEN "ended" ELSE "io"))
  /\ UNCHANGED <<cancelled, serve, mtx, transport, q, emit, drain, uplink,
                 speech, dropped, history>>

\* processIncoming: Next returns a packet, which is decoded, or kept as it is
\* under the relay and without a decoder; a filter or the echo suppression
\* may drop it, or it is routed to the outputs.
InputPacket(m) ==
  /\ m \in InputSet /\ loop[m].pc = "io" /\ uplink < MaxUplink
  /\ SetLoop(m, Loop("ready"))
  /\ uplink' = uplink + 1
  /\ \/ UNCHANGED emit
     \/ emit' = [emit EXCEPT ![m] =
          [pkt |-> [kind |-> "uplink", n |-> uplink + 1],
           todo |-> Outputs, blocked |-> FALSE]]
  /\ UNCHANGED <<cancelled, serve, mtx, transport, q, drain, speech, dropped,
                 history>>

\* processIncoming: Next fails or ends, or the decoder or a filter fails.  The
\* error or hangup is announced and the loop ends; the session goes on.
InputStops(m) ==
  /\ m \in InputSet /\ loop[m].pc = "io"
  /\ SetLoop(m, Loop("ended"))
  /\ UNCHANGED <<cancelled, serve, mtx, transport, q, emit, drain, uplink,
                 speech, dropped, history>>

\* processOutgoing: the select takes a packet, although the context may be
\* done as well.
OutputTake(o) ==
  /\ o \in OutputSet /\ loop[o].pc = "ready" /\ q[o] # <<>>
  /\ SetLoop(o, [pc |-> "hand", pkt |-> Head(q[o])])
  /\ q' = [q EXCEPT ![o] = Tail(@)]
  /\ taken' = IF Head(q[o]).kind = "speech" THEN [taken EXCEPT ![o] = Head(q[o]).n] ELSE taken
  /\ UNCHANGED <<cancelled, serve, mtx, transport, emit, drain, uplink, speech,
                 dropped, queued, floor, stale, timedOut>>

\* processOutgoing: the select takes ctx.Done.
OutputCancelled(o) ==
  /\ o \in OutputSet /\ loop[o].pc = "ready" /\ cancelled
  /\ SetLoop(o, Loop("ended"))
  /\ UNCHANGED <<cancelled, serve, mtx, transport, q, emit, drain, uplink,
                 speech, dropped, history>>

\* processOutgoing: a filter skips the packet.
OutputSkips(o) ==
  /\ o \in OutputSet /\ loop[o].pc = "hand"
  /\ SetLoop(o, Loop("ready"))
  /\ UNCHANGED <<cancelled, serve, mtx, transport, q, emit, drain, uplink,
                 speech, dropped, history>>

\* processOutgoing: a filter or the encoder fails, or the transport is gone
\* and the call of Send panics; the loop ends, the session goes on.
OutputStops(o) ==
  /\ o \in OutputSet /\ loop[o].pc = "hand"
  /\ SetLoop(o, Loop("ended"))
  /\ UNCHANGED <<cancelled, serve, mtx, transport, q, emit, drain, uplink,
                 speech, dropped, history>>

\* processOutgoing: the packet is encoded, or kept as it is under the relay
\* and without an encoder, and Send is called.
OutputSend(o) ==
  LET p == loop[o].pkt IN
  /\ o \in OutputSet /\ loop[o].pc = "hand" /\ transport[o] # "nil"
  /\ SetLoop(o, Loop("io"))
  /\ stale' = IF p.kind = "speech" /\ p.n <= floor[o]
              THEN [stale EXCEPT ![o] = @ + 1] ELSE stale
  /\ UNCHANGED <<cancelled, serve, mtx, transport, q, emit, drain, uplink,
                 speech, dropped, queued, taken, floor, timedOut>>

\* processOutgoing: Send returns; its result is not looked at.
OutputSent(o) ==
  /\ o \in OutputSet /\ loop[o].pc = "io"
  /\ SetLoop(o, Loop("ready"))
  /\ UNCHANGED <<cancelled, serve, mtx, transport, q, emit, drain, uplink,
                 speech, dropped, history>>

-----------------------------------------------------------------------------
Init ==
  /\ cancelled = FALSE
  /\ serve = [pc |-> "new", todo |-> <<>>]
  /\ mtx = [m \in Managers |-> Free]
  /\ transport = [m \in Managers |-> "open"]
  /\ loop = [m \in Managers |-> Loop("none")]
  /\ q = [o \in OutputSet |-> <<>>]
  /\ emit = [x \in Emitters |-> NotEmitting]
  /\ drain = [d \in Drainers |-> <<>>]
  /\ uplink = 0 /\ speech = 0 /\ dropped = 0
  /\ queued = [o \in OutputSet |-> 0]
  /\ taken = [o \in OutputSet |-> 0]
  /\ floor = [o \in OutputSet |-> 0]
  /\ stale = [o \in OutputSet |-> 0]
  /\ timedOut = {}

ServeStep ==
  ServeStart \/ ServeEnd \/ CleanupLock \/ CleanupDone \/ CleanupTimeout \/ ServeDone

EmitStep(x) == RouterSkips(x) \/ TrySendPacket(x) \/ BlockedSend(x)

InputStep(m) == LoopStart(m) \/ InputNext(m) \/ InputPacket(m) \/ InputStops(m)

OutputStep(o) ==
  \/ LoopStart(o) \/ OutputTake(o) \/ OutputCancelled(o)
  \/ OutputSkips(o) \/ OutputStops(o) \/ OutputSend(o) \/ OutputSent(o)

Next ==
  \/ ServeStep \/ Close \/ SessionTimeout
  \/ \E x \in Emitters : EmitStep(x)
  \/ \E x \in Senders : SendToOutput(x)
  \/ \E d \in Drainers : DrainOutputs(d) \/ DrainOne(d)
  \/ \E m \in InputSet : InputStep(m)
  \/ \E o \in OutputSet : OutputStep(o)

\* Goroutines that can run do run, and a goroutine that waits for a mutex
\* gets it.  Next and Send return.  Serve is called and its timer fires.  New
\* calls of SendToOutput, DrainOutputs and Close need not come.
Fairness ==
  /\ WF_vars(SessionTimeout)
  /\ WF_vars(ServeStep)
  /\ \A x \in Emitters : WF_vars(EmitStep(x))
  /\ \A d \in Drainers : WF_vars(DrainOne(d))
  /\ \A m \in InputSet : WF_vars(InputStep(m))
  /\ \A o \in OutputSet : WF_vars(OutputStep(o))

Spec == Init /\ [][Next]_vars /\ Fairness

-----------------------------------------------------------------------------
(* Properties                                                              *)

\* When the shutdown is reported the loops have let go of their transports,
\* so that another reader can own the socket, whichever of Serve, Close and
\* the loops came first.  The exception is a loop cleanup gave up waiting for.
ShutdownReleases ==
  ShutdownComplete =>
    \A m \in Managers : m \notin timedOut => loop[m].pc # "io"

\* Synthesized speech is complete and in order while the session runs: the
\* speech in an output's queue is all there is between the last packet the
\* loop took, or the last drain, and the last one sent.
SpeechIsComplete ==
  \A o \in OutputSet : ~cancelled =>
    LET low == IF taken[o] > floor[o] THEN taken[o] ELSE floor[o]
    IN  /\ {q[o][i].n : i \in Speech(q[o])} = low + 1 .. queued[o]
        /\ \A i, j \in Speech(q[o]) : i < j => q[o][i].n < q[o][j].n

\* After DrainOutputs went through an output, at most one packet of the speech
\* that was queued before it is still sent: the one the loop already held.
DrainLeavesOne == \A o \in OutputSet : stale[o] <= 1

\* A session whose context is cancelled shuts down: cleanup, blocked senders
\* and the loops do not wait for each other in a circle.
ServeReturns == (cancelled /\ serve.pc # "new") ~> ShutdownComplete

\* SendToOutput and DrainOutputs return, even when the output's loop has died
\* with its queue full: the timer ends the session at the latest.
CallsReturn ==
  /\ \A x \in Senders : (serve.pc # "new" /\ emit[x] # NotEmitting) ~> (emit[x] = NotEmitting)
  /\ \A d \in Drainers : (serve.pc # "new" /\ drain[d] # <<>>) ~> (drain[d] = <<>>)
=============================================================================
