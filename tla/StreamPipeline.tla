--------------------------- MODULE StreamPipeline ---------------------------
(***************************************************************************)
(* The fan-out pipeline of pkg/protocol/pipeline: a PipelineManager keeps   *)
(* one StreamPipeline per stream, a StreamPipeline copies every input frame *)
(* to the sinks registered with it, and each sink is wrapped in a           *)
(* sinkWrapper with a buffered channel and a goroutine of its own.          *)
(*                                                                         *)
(* Goroutines: Writers call PipelineManager.WriteFrame, Callers call        *)
(* Create/Destroy/AddSink/RemoveSink, every wrapper has its loop, and a     *)
(* closed wrapper has a drainer.  A step is what happens between two        *)
(* points where another goroutine can be seen: a lock, an atomic, a channel *)
(* operation or a call of the sink.  Frames are numbers in the order they   *)
(* are offered.  Nothing after a panic is modelled: a send on a closed      *)
(* channel ends the Go process.                                             *)
(***************************************************************************)
EXTENDS Naturals, Sequences, FiniteSets

CONSTANTS
  Streams,    \* stream ids
  Pipes,      \* StreamPipeline objects, allocated once each (a bound)
  SinkIds,    \* OutputSink.ID() values
  Wrappers,   \* sinkWrapper objects, allocated once each (a bound)
  Writers,    \* goroutines that call WriteFrame
  Callers,    \* goroutines that call the other operations
  BufSize,    \* capacity of a sink's channel
  MaxFrames,  \* bound on the frames offered
  None        \* nil

ASSUME PipelineAssumption ==
  /\ BufSize \in Nat \ {0}
  /\ MaxFrames \in Nat
  /\ IsFiniteSet(Writers)
  /\ None \notin Pipes \cup Wrappers \cup SinkIds \cup Callers

VARIABLES
  pipelines,  \* PipelineManager.pipelines
  made,       \* the pipelines allocated so far
  pclosed,    \* StreamPipeline.closed
  sinks,      \* StreamPipeline.sinks
  lock,       \* the caller that holds sinkMu for writing, or None
  owner,      \* the pipeline a wrapper was made for, None before it is made
  stage,      \* how far closeInternal got on a wrapper
  ch,         \* sinkWrapper.ch
  loop,       \* the wrapper's goroutine: pc, the frame in hand, attempts made
  drainer,    \* the goroutine closeInternal starts
  offered,    \* history: frames for which tryWrite found the wrapper open
  written,    \* history: frames WriteFrame accepted, in order
  dropped,    \* sinkWrapper.framesDropped
  nframes,    \* StreamPipeline.framesIn, summed; the next frame's number
  writer,     \* the state of each writer
  caller,     \* the state of each caller
  crashed     \* a goroutine panicked

pipeVars == <<pipelines, made, pclosed, sinks, lock, owner>>
sinkVars == <<stage, ch, loop, drainer, offered, written, dropped>>
procVars == <<nframes, writer, caller>>
vars == <<pipeVars, sinkVars, procVars, crashed>>

MaxAttempts == 3

IdleLoop   == [pc |-> "idle", frame |-> 0, attempt |-> 0]
IdleWriter == [pc |-> "idle", pipe |-> None, frame |-> 0, todo |-> {}, w |-> None]
IdleCaller == [op |-> "idle", pipe |-> None, todo |-> {}, w |-> None]

TypeOK ==
  /\ pipelines \in [Streams -> Pipes \cup {None}]
  /\ made \in SUBSET Pipes
  /\ pclosed \in [Pipes -> BOOLEAN]
  /\ sinks \in [Pipes -> [SinkIds -> Wrappers \cup {None}]]
  /\ lock \in [Pipes -> Callers \cup {None}]
  /\ owner \in [Wrappers -> Pipes \cup {None}]
  /\ stage \in [Wrappers -> {"open", "marked", "unchanneled", "closed"}]
  /\ \A w \in Wrappers : ch[w] \in Seq(1..MaxFrames) /\ Len(ch[w]) <= BufSize
  /\ loop \in [Wrappers -> [pc : {"none", "idle", "writing", "closing", "ended"},
                            frame : 0..MaxFrames, attempt : 0..MaxAttempts]]
  /\ drainer \in [Wrappers -> {"none", "running", "ended"}]
  /\ offered \in [Wrappers -> 0..MaxFrames]
  /\ \A w \in Wrappers : written[w] \in Seq(1..MaxFrames)
  /\ dropped \in [Wrappers -> 0..MaxFrames]
  /\ nframes \in 0..MaxFrames
  /\ writer \in [Writers -> [pc : {"idle", "got", "snap", "each", "send"},
                             pipe : Pipes \cup {None}, frame : 0..MaxFrames,
                             todo : SUBSET Wrappers, w : Wrappers \cup {None}]]
  /\ caller \in [Callers -> [op : {"idle", "add", "remove", "close", "locked"},
                             pipe : Pipes \cup {None}, todo : SUBSET Wrappers,
                             w : Wrappers \cup {None}]]
  /\ crashed \in BOOLEAN

-----------------------------------------------------------------------------
(* sinkWrapper                                                             *)

Closed(w) == stage[w] # "open"

\* Slip: close(w.ch) forgotten
ChClosedNever(w) == FALSE

\* close(w.ch) was executed
ChClosed(w) == stage[w] \in {"unchanneled", "closed"}

\* The sinks of p that are registered.
SinksOf(p) == {sinks[p][id] : id \in SinkIds} \ {None}

\* The objects are interchangeable, so the next one allocated is fixed.
FreshWrapper(w) == owner[w] = None /\ w = CHOOSE x \in Wrappers : owner[x] = None
FreshPipe(p) == p \notin made /\ p = CHOOSE x \in Pipes : x \notin made

\* newSinkWrapper: the channel is made and the goroutine started.
NewSinkWrapper(w, p) ==
  /\ owner' = [owner EXCEPT ![w] = p]
  /\ loop' = [loop EXCEPT ![w] = IdleLoop]

\* closeInternal, up to the start of the drainer, by whoever wins the
\* CompareAndSwap; the loser returns at once.
MarkClosed(w) ==
  /\ stage' = [stage EXCEPT ![w] = "marked"]
  /\ drainer' = [drainer EXCEPT ![w] = "running"]

\* closeInternal: close(w.ch)
CloseChannel(w) ==
  /\ stage[w] = "marked"
  /\ stage' = [stage EXCEPT ![w] = "unchanneled"]
  /\ UNCHANGED <<pipeVars, ch, loop, drainer, offered, written, dropped, procVars, crashed>>

\* closeInternal: w.sink.Close()
CloseSink(w) ==
  /\ stage[w] = "unchanneled"
  /\ stage' = [stage EXCEPT ![w] = "closed"]
  /\ UNCHANGED <<pipeVars, ch, loop, drainer, offered, written, dropped, procVars, crashed>>

\* The loop is at its select: also after a closeInternal of its own.
AtSelect(w) ==
  \/ loop[w].pc = "idle"
  \/ loop[w].pc = "closing" /\ stage[w] = "closed"

\* loop: the select takes a frame.  The done channel may be closed already;
\* select chooses among the ready cases at random.
LoopReceive(w) ==
  /\ AtSelect(w) /\ ch[w] # <<>>
  /\ loop' = [loop EXCEPT ![w] = [pc |-> "writing", frame |-> Head(ch[w]), attempt |-> 0]]
  /\ ch' = [ch EXCEPT ![w] = Tail(@)]
  /\ UNCHANGED <<pipeVars, stage, drainer, offered, written, dropped, procVars, crashed>>

\* loop: the select sees done or the closed, empty channel.
LoopExit(w) ==
  /\ AtSelect(w) /\ Closed(w)
  /\ loop' = [loop EXCEPT ![w].pc = "ended"]
  /\ UNCHANGED <<pipeVars, stage, ch, drainer, offered, written, dropped, procVars, crashed>>

\* Slip: the attempts go on after one that succeeded
WriteSucceedsAgain(w) ==
  /\ loop[w].pc = "writing"
  /\ written' = [written EXCEPT ![w] = Append(@, loop[w].frame)]
  /\ loop' = [loop EXCEPT ![w] = IF @.attempt < MaxAttempts - 1
                                 THEN [@ EXCEPT !.attempt = @ + 1] ELSE IdleLoop]
  /\ UNCHANGED <<pipeVars, stage, ch, drainer, offered, dropped, procVars, crashed>>

\* processFrame: sink.WriteFrame succeeds.
WriteSucceeds(w) ==
  /\ loop[w].pc = "writing"
  /\ written' = [written EXCEPT ![w] = Append(@, loop[w].frame)]
  /\ loop' = [loop EXCEPT ![w] = IdleLoop]
  /\ UNCHANGED <<pipeVars, stage, ch, drainer, offered, dropped, procVars, crashed>>

\* processFrame: an attempt fails and is not the last one.
Retry(w) ==
  /\ loop[w].pc = "writing"
  /\ loop[w].attempt < MaxAttempts - 1
  /\ loop' = [loop EXCEPT ![w].attempt = @ + 1]
  /\ UNCHANGED <<pipeVars, stage, ch, drainer, offered, written, dropped, procVars, crashed>>

\* Slip: a frame that failed three times is given up, the sink stays open
WriteFailsQuietly(w) ==
  /\ loop[w].pc = "writing"
  /\ loop[w].attempt = MaxAttempts - 1
  /\ loop' = [loop EXCEPT ![w] = IdleLoop]
  /\ UNCHANGED <<pipeVars, stage, ch, drainer, offered, written, dropped, procVars, crashed>>

\* processFrame: the last attempt fails; the loop closes its own sink and,
\* unlike a normal exit, goes back to the select.
WriteFails(w) ==
  /\ loop[w].pc = "writing"
  /\ loop[w].attempt = MaxAttempts - 1
  /\ IF Closed(w)
     THEN loop' = [loop EXCEPT ![w] = IdleLoop] /\ UNCHANGED <<stage, drainer>>
     ELSE MarkClosed(w) /\ loop' = [loop EXCEPT ![w] = [IdleLoop EXCEPT !.pc = "closing"]]
  /\ UNCHANGED <<pipeVars, ch, offered, written, dropped, procVars, crashed>>

\* The drainer takes a frame, which is neither written nor counted.
Drain(w) ==
  /\ drainer[w] = "running" /\ ch[w] # <<>>
  /\ ch' = [ch EXCEPT ![w] = Tail(@)]
  /\ UNCHANGED <<pipeVars, stage, loop, drainer, offered, written, dropped, procVars, crashed>>

\* The drainer's range ends with the closed, empty channel.
DrainEnd(w) ==
  /\ drainer[w] = "running" /\ ch[w] = <<>> /\ ChClosed(w)
  /\ drainer' = [drainer EXCEPT ![w] = "ended"]
  /\ UNCHANGED <<pipeVars, stage, ch, loop, offered, written, dropped, procVars, crashed>>

WrapperStep(w) ==
  \/ CloseChannel(w) \/ CloseSink(w)
  \/ LoopReceive(w) \/ LoopExit(w)
  \/ WriteSucceeds(w) \/ Retry(w) \/ WriteFails(w)
  \/ Drain(w) \/ DrainEnd(w)

-----------------------------------------------------------------------------
(* WriteFrame                                                              *)

\* PipelineManager.WriteFrame: GetPipeline
WriterGet(a, s) ==
  /\ writer[a].pc = "idle" /\ pipelines[s] # None
  /\ nframes < MaxFrames
  /\ writer' = [writer EXCEPT ![a] = [IdleWriter EXCEPT !.pc = "got", !.pipe = pipelines[s]]]
  /\ UNCHANGED <<pipeVars, sinkVars, nframes, caller, crashed>>

\* StreamPipeline.WriteFrame: a closed pipeline takes nothing, an open one
\* counts the frame.
WriterCheck(a) ==
  /\ writer[a].pc = "got"
  /\ \/ /\ pclosed[writer[a].pipe]
        /\ writer' = [writer EXCEPT ![a] = IdleWriter]
        /\ UNCHANGED nframes
     \/ /\ ~pclosed[writer[a].pipe] /\ nframes < MaxFrames
        /\ nframes' = nframes + 1
        /\ writer' = [writer EXCEPT ![a].pc = "snap", ![a].frame = nframes + 1]
  /\ UNCHANGED <<pipeVars, sinkVars, caller, crashed>>

\* The loop over the snapshot goes on to the next sink, or WriteFrame returns.
NextSink(a, rest) ==
  IF rest = {} THEN IdleWriter
  ELSE [writer[a] EXCEPT !.pc = "each", !.todo = rest, !.w = None]

\* StreamPipeline.WriteFrame: the sinks are copied under sinkMu.RLock.
WriterSnapshot(a) ==
  /\ writer[a].pc = "snap" /\ lock[writer[a].pipe] = None
  /\ writer' = [writer EXCEPT ![a] = NextSink(a, SinksOf(writer[a].pipe))]
  /\ UNCHANGED <<pipeVars, sinkVars, nframes, caller, crashed>>

\* tryWrite: the closed flag is read; a closed sink is passed over.
TryWrite(a, w) ==
  /\ writer[a].pc = "each" /\ w \in writer[a].todo
  /\ IF Closed(w)
     THEN /\ writer' = [writer EXCEPT ![a] = NextSink(a, writer[a].todo \ {w})]
          /\ UNCHANGED offered
     ELSE /\ writer' = [writer EXCEPT ![a].todo = @ \ {w}, ![a].pc = "send", ![a].w = w]
          /\ offered' = [offered EXCEPT ![w] = @ + 1]
  /\ UNCHANGED <<pipeVars, stage, ch, loop, drainer, written, dropped, nframes, caller, crashed>>

\* tryWrite: the select with default.  A full channel drops the frame, a
\* closed one panics.
TrySend(a) ==
  LET w == writer[a].w IN
  /\ writer[a].pc = "send"
  /\ writer' = [writer EXCEPT ![a] = NextSink(a, writer[a].todo)]
  /\ crashed' = ChClosed(w)
  /\ IF ChClosed(w) THEN UNCHANGED <<ch, dropped>>
     ELSE IF Len(ch[w]) < BufSize
          THEN ch' = [ch EXCEPT ![w] = Append(@, writer[a].frame)] /\ UNCHANGED dropped
          ELSE dropped' = [dropped EXCEPT ![w] = @ + 1] /\ UNCHANGED ch
  /\ UNCHANGED <<pipeVars, stage, loop, drainer, offered, written, nframes, caller>>

WriterStep(a) ==
  \/ \E s \in Streams : WriterGet(a, s)
  \/ WriterCheck(a) \/ WriterSnapshot(a)
  \/ \E w \in Wrappers : TryWrite(a, w)
  \/ TrySend(a)

-----------------------------------------------------------------------------
(* The other operations                                                    *)

\* CreatePipeline: the existing pipeline is kept.
CreatePipeline(c, s, p) ==
  /\ caller[c].op = "idle"
  /\ pipelines[s] = None /\ FreshPipe(p)
  /\ pipelines' = [pipelines EXCEPT ![s] = p]
  /\ made' = made \cup {p}
  /\ UNCHANGED <<pclosed, sinks, lock, owner, sinkVars, procVars, crashed>>

\* PipelineManager.AddSink and RemoveSink: GetPipeline
CallerGet(c, s, op) ==
  /\ caller[c].op = "idle" /\ pipelines[s] # None
  /\ op = "add" => \E w \in Wrappers : owner[w] = None
  /\ caller' = [caller EXCEPT ![c] = [IdleCaller EXCEPT !.op = op, !.pipe = pipelines[s]]]
  /\ UNCHANGED <<pipeVars, sinkVars, nframes, writer, crashed>>

\* Slip: AddSink does not look at the closed flag
AddSinkUnchecked(c, id, w) ==
  LET p == caller[c].pipe IN
  /\ caller[c].op = "add" /\ lock[p] = None
  /\ caller' = [caller EXCEPT ![c] = IdleCaller]
  /\ IF sinks[p][id] # None
     THEN UNCHANGED <<sinks, owner, loop>>
     ELSE /\ FreshWrapper(w)
          /\ sinks' = [sinks EXCEPT ![p][id] = w]
          /\ NewSinkWrapper(w, p)
  /\ UNCHANGED <<pipelines, made, pclosed, lock, stage, ch, drainer, offered,
                 written, dropped, nframes, writer, crashed>>

\* StreamPipeline.AddSink, all of it under sinkMu: refused when the pipeline
\* is closed or the id is taken.
AddSink(c, id, w) ==
  LET p == caller[c].pipe IN
  /\ caller[c].op = "add" /\ lock[p] = None
  /\ caller' = [caller EXCEPT ![c] = IdleCaller]
  /\ IF pclosed[p] \/ sinks[p][id] # None
     THEN UNCHANGED <<sinks, owner, loop>>
     ELSE /\ FreshWrapper(w)
          /\ sinks' = [sinks EXCEPT ![p][id] = w]
          /\ NewSinkWrapper(w, p)
  /\ UNCHANGED <<pipelines, made, pclosed, lock, stage, ch, drainer, offered,
                 written, dropped, nframes, writer, crashed>>

\* StreamPipeline.RemoveSink takes sinkMu and deletes the entry; an unknown
\* id is an error.
RemoveSink(c, id) ==
  LET p == caller[c].pipe IN
  /\ caller[c].op = "remove" /\ lock[p] = None
  /\ IF sinks[p][id] = None
     THEN caller' = [caller EXCEPT ![c] = IdleCaller] /\ UNCHANGED <<sinks, lock>>
     ELSE /\ sinks' = [sinks EXCEPT ![p][id] = None]
          /\ lock' = [lock EXCEPT ![p] = c]
          /\ caller' = [caller EXCEPT ![c].op = "locked", ![c].todo = {sinks[p][id]}]
  /\ UNCHANGED <<pipelines, made, pclosed, owner, sinkVars, nframes, writer, crashed>>

\* DestroyPipeline deletes the entry under mu, then calls Close.
DestroyPipeline(c, s) ==
  /\ caller[c].op = "idle" /\ pipelines[s] # None
  /\ pipelines' = [pipelines EXCEPT ![s] = None]
  /\ caller' = [caller EXCEPT ![c] = [IdleCaller EXCEPT !.op = "close", !.pipe = pipelines[s]]]
  /\ UNCHANGED <<made, pclosed, sinks, lock, owner, sinkVars, nframes, writer, crashed>>

\* StreamPipeline.Close: the CompareAndSwap on closed.
CloseFlag(c) ==
  LET p == caller[c].pipe IN
  /\ caller[c].op = "close" /\ ~pclosed[p]
  /\ pclosed' = [pclosed EXCEPT ![p] = TRUE]
  /\ UNCHANGED <<pipelines, made, sinks, lock, owner, sinkVars, procVars, crashed>>

\* StreamPipeline.Close: sinkMu is taken and every sink closed in turn.
CloseLock(c) ==
  LET p == caller[c].pipe IN
  /\ caller[c].op = "close" /\ pclosed[p] /\ lock[p] = None
  /\ lock' = [lock EXCEPT ![p] = c]
  /\ caller' = [caller EXCEPT ![c].op = "locked", ![c].todo = SinksOf(p)]
  /\ sinks' = [sinks EXCEPT ![p] = [id \in SinkIds |-> None]]
  /\ UNCHANGED <<pipelines, made, pclosed, owner, sinkVars, nframes, writer, crashed>>

\* The closeInternal the caller is in, if any, has returned.
AtNextSink(c) ==
  /\ caller[c].op = "locked"
  /\ caller[c].w # None => stage[caller[c].w] = "closed"

\* closeInternal of the next wrapper: the CompareAndSwap, won or lost.
CallerMark(c, w) ==
  /\ AtNextSink(c) /\ w \in caller[c].todo
  /\ IF Closed(w)
     THEN /\ caller' = [caller EXCEPT ![c].todo = @ \ {w}, ![c].w = None]
          /\ UNCHANGED <<stage, drainer>>
     ELSE /\ caller' = [caller EXCEPT ![c].todo = @ \ {w}, ![c].w = w]
          /\ MarkClosed(w)
  /\ UNCHANGED <<pipeVars, ch, loop, offered, written, dropped, nframes, writer, crashed>>

\* RemoveSink and Close release sinkMu and return.
CallerUnlock(c) ==
  /\ AtNextSink(c) /\ caller[c].todo = {}
  /\ lock' = [lock EXCEPT ![caller[c].pipe] = None]
  /\ caller' = [caller EXCEPT ![c] = IdleCaller]
  /\ UNCHANGED <<pipelines, made, pclosed, sinks, owner, sinkVars, nframes, writer, crashed>>

CallerBegin(c) ==
  \E s \in Streams :
    \/ \E p \in Pipes : CreatePipeline(c, s, p)
    \/ \E op \in {"add", "remove"} : CallerGet(c, s, op)
    \/ DestroyPipeline(c, s)

CallerStep(c) ==
  \/ \E id \in SinkIds, w \in Wrappers : AddSink(c, id, w)
  \/ \E id \in SinkIds : RemoveSink(c, id)
  \/ CloseFlag(c) \/ CloseLock(c)
  \/ \E w \in Wrappers : CallerMark(c, w)
  \/ CallerUnlock(c)

-----------------------------------------------------------------------------
Init ==
  /\ pipelines = [s \in Streams |-> None]
  /\ made = {}
  /\ pclosed = [p \in Pipes |-> FALSE]
  /\ sinks = [p \in Pipes |-> [id \in SinkIds |-> None]]
  /\ lock = [p \in Pipes |-> None]
  /\ owner = [w \in Wrappers |-> None]
  /\ stage = [w \in Wrappers |-> "open"]
  /\ ch = [w \in Wrappers |-> <<>>]
  /\ loop = [w \in Wrappers |-> [IdleLoop EXCEPT !.pc = "none"]]
  /\ drainer = [w \in Wrappers |-> "none"]
  /\ offered = [w \in Wrappers |-> 0]
  /\ written = [w \in Wrappers |-> <<>>]
  /\ dropped = [w \in Wrappers |-> 0]
  /\ nframes = 0
  /\ writer = [a \in Writers |-> IdleWriter]
  /\ caller = [c \in Callers |-> IdleCaller]
  /\ crashed = FALSE

Next ==
  /\ ~crashed
  /\ \/ \E w \in Wrappers : WrapperStep(w)
     \/ \E a \in Writers : WriterStep(a)
     \/ \E c \in Callers : CallerBegin(c) \/ CallerStep(c)

\* Goroutines that can run do run, and a sink's WriteFrame and Close return.
\* New operations need not begin.
Fairness ==
  /\ \A w \in Wrappers :
       /\ WF_vars(~crashed /\ CloseChannel(w))
       /\ WF_vars(~crashed /\ CloseSink(w))
       /\ WF_vars(~crashed /\ (LoopReceive(w) \/ LoopExit(w)
                               \/ WriteSucceeds(w) \/ Retry(w) \/ WriteFails(w)))
       /\ WF_vars(~crashed /\ (Drain(w) \/ DrainEnd(w)))
  /\ \A c \in Callers : WF_vars(~crashed /\ CallerStep(c))

Spec == Init /\ [][Next]_vars /\ Fairness

-----------------------------------------------------------------------------
(* Properties                                                              *)

\* A sink is given the frames in the order in which they were offered and
\* none twice, whatever is dropped in between and however often an attempt is
\* repeated.  (One writer per stream.)
SinkOrder ==
  \A w \in Wrappers : \A i, j \in DOMAIN written[w] :
    i < j => written[w][i] < written[w][j]

\* An open sink loses nothing silently: each frame that found it open was
\* written or counted as dropped, is in the channel, is in the loop's hand or
\* is about to be sent.  A frame that failed for good is missing here, so a
\* sink that lost one is closed.
OpenSinkAccounts ==
  \A w \in Wrappers : ~Closed(w) =>
    offered[w] = Len(written[w]) + dropped[w] + Len(ch[w])
                 + (IF loop[w].pc = "writing" THEN 1 ELSE 0)
                 + Cardinality({a \in Writers : writer[a].w = w})

\* When Close has returned, or RemoveSink, every sink that pipeline ever had
\* and that is no longer registered is closed; a closed pipeline has no
\* registered sink.  AddSink racing with Close must not leave a sink behind.
ClosedPipelineIsEmpty ==
  \A p \in Pipes :
    (lock[p] = None /\ \A c \in Callers : ~(caller[c].op = "close" /\ caller[c].pipe = p)) =>
      /\ pclosed[p] => SinksOf(p) = {}
      /\ \A w \in Wrappers : owner[w] = p /\ w \notin SinksOf(p) => stage[w] # "open"

\* The goroutines of a closed sink end: the loop and the drainer leak nowhere.
ClosedSinksEnd ==
  \A w \in Wrappers :
    Closed(w) ~> (crashed \/ (loop[w].pc = "ended" /\ drainer[w] = "ended"))

\* WriteFrame is the non-blocking fan-out the package comment describes: a
\* full sink drops the frame, and no interleaving makes it panic.
WriteFrameNeverPanics == ~crashed
=============================================================================
