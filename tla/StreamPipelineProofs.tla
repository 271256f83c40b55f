------------------------ MODULE StreamPipelineProofs ------------------------
(***************************************************************************)
(* The fan-out pipeline, for any streams, sinks, writers, callers and      *)
(* buffer sizes.                                                           *)
(*                                                                         *)
(* Part 1: ClosedPipelineIsEmpty, from CloseInv.                           *)
(* Part 2: FlowInv, where a frame can be on its way.                       *)
(* Part 3: OpenSinkAccounts, from both.                                    *)
(* Part 4: SinkOrder, when a stream has a single writer.                   *)
(***************************************************************************)
EXTENDS StreamPipeline, FiniteSetTheorems, TLAPS

-----------------------------------------------------------------------------
(* Closing.  ClosedPipelineIsEmpty speaks of pipelines nobody is closing.   *)
(* CloseInv adds who is at work on the others: a sink that is neither       *)
(* registered nor closed is on the list of the caller that holds sinkMu,    *)
(* and a closed pipeline that has sinks left has a caller in Close.         *)

CallerType == [op : {"idle", "add", "remove", "close", "locked"},
               pipe : Pipes \cup {None}, todo : SUBSET Wrappers,
               w : Wrappers \cup {None}]

CloseTypeOK ==
  /\ pipelines \in [Streams -> Pipes \cup {None}]
  /\ pclosed \in [Pipes -> BOOLEAN]
  /\ sinks \in [Pipes -> [SinkIds -> Wrappers \cup {None}]]
  /\ lock \in [Pipes -> Callers \cup {None}]
  /\ owner \in [Wrappers -> Pipes \cup {None}]
  /\ stage \in [Wrappers -> {"open", "marked", "unchanneled", "closed"}]
  /\ caller \in [Callers -> CallerType]
  /\ \A c \in Callers : caller[c].op # "idle" => caller[c].pipe \in Pipes

LockIsHeld ==
  \A c \in Callers : caller[c].op = "locked" => lock[caller[c].pipe] = c

Closes(c, p, w) ==
  caller[c].op = "locked" /\ caller[c].pipe = p /\ w \in caller[c].todo

Registered(w, p) == \E id \in SinkIds : sinks[p][id] = w

UnregisteredAreClosed ==
  \A p \in Pipes, w \in Wrappers :
    owner[w] = p /\ ~Registered(w, p) /\ stage[w] = "open" =>
      \E c \in Callers : Closes(c, p, w)

ClosedIsEmptied ==
  \A p \in Pipes, id \in SinkIds :
    pclosed[p] /\ sinks[p][id] # None =>
      \E c \in Callers : caller[c].op = "close" /\ caller[c].pipe = p

CloseInv == CloseTypeOK /\ LockIsHeld /\ UnregisteredAreClosed /\ ClosedIsEmptied

closeVars == <<pipelines, pclosed, sinks, lock, owner, stage, caller>>

LEMMA CloseInit == Init => CloseInv
  BY PipelineAssumption
     DEF Init, CloseInv, CloseTypeOK, CallerType, LockIsHeld,
         UnregisteredAreClosed, ClosedIsEmptied, IdleCaller

LEMMA CloseStutter ==
  ASSUME CloseInv, UNCHANGED closeVars PROVE CloseInv'
  BY DEF CloseInv, closeVars, CloseTypeOK, LockIsHeld, UnregisteredAreClosed,
     ClosedIsEmptied, Registered, Closes

\* A wrapper only moves away from "open".
LEMMA CloseWrapperStep ==
  ASSUME CloseInv, NEW w \in Wrappers, WrapperStep(w) PROVE CloseInv'
  <1>1. /\ UNCHANGED <<pipelines, pclosed, sinks, lock, owner, caller>>
        /\ stage' \in [Wrappers -> {"open", "marked", "unchanneled", "closed"}]
        /\ \A v \in Wrappers : stage'[v] = "open" => stage[v] = "open"
    BY DEF CloseInv, CloseTypeOK, WrapperStep, CloseChannel, CloseSink,
       LoopReceive, LoopExit, WriteSucceeds, Retry, WriteFails, MarkClosed,
       Drain, DrainEnd, pipeVars, procVars
  <1> QED  BY <1>1 DEF CloseInv, CloseTypeOK, LockIsHeld,
              UnregisteredAreClosed, ClosedIsEmptied, Registered, Closes

LEMMA CloseWriterStep ==
  ASSUME CloseInv, NEW a \in Writers, WriterStep(a) PROVE CloseInv'
  <1>1. UNCHANGED closeVars
    BY DEF closeVars, WriterStep, WriterGet, WriterCheck, WriterSnapshot,
       TryWrite, TrySend, pipeVars, sinkVars
  <1> QED  BY <1>1, CloseStutter

LEMMA CloseCallerBegin ==
  ASSUME CloseInv, NEW c \in Callers, CallerBegin(c) PROVE CloseInv'
  <1> USE PipelineAssumption DEF CloseInv, CloseTypeOK, CallerType
  <1> PICK s \in Streams :
        \/ \E p \in Pipes : CreatePipeline(c, s, p)
        \/ \E op \in {"add", "remove"} : CallerGet(c, s, op)
        \/ DestroyPipeline(c, s)
    BY DEF CallerBegin
  <1>1. CASE \E p \in Pipes : CreatePipeline(c, s, p)
    BY <1>1 DEF CreatePipeline, LockIsHeld, UnregisteredAreClosed,
       ClosedIsEmptied, Registered, Closes, sinkVars, procVars
  <1>2. CASE \/ \E op \in {"add", "remove"} : CallerGet(c, s, op)
             \/ DestroyPipeline(c, s)
    <2> PICK op \in {"add", "remove", "close"} :
          caller' = [caller EXCEPT ![c] = [IdleCaller EXCEPT !.op = op,
                                                             !.pipe = pipelines[s]]]
      BY <1>2 DEF CallerGet, DestroyPipeline
    <2>1. /\ caller[c].op = "idle" /\ pipelines[s] \in Pipes
          /\ UNCHANGED <<pclosed, sinks, lock, owner, stage>>
          /\ pipelines' \in [Streams -> Pipes \cup {None}]
      BY <1>2 DEF CallerGet, DestroyPipeline, pipeVars, sinkVars
    <2>2. /\ [IdleCaller EXCEPT !.op = op, !.pipe = pipelines[s]] \in CallerType
          /\ [IdleCaller EXCEPT !.op = op, !.pipe = pipelines[s]].op = op
          /\ [IdleCaller EXCEPT !.op = op, !.pipe = pipelines[s]].pipe = pipelines[s]
      BY <2>1 DEF IdleCaller
    <2>3. /\ caller'[c].op = op /\ caller'[c].pipe = pipelines[s]
          /\ \A d \in Callers : d # c => caller'[d] = caller[d]
          /\ caller' \in [Callers -> CallerType]
      BY <2>2
    <2> QED  BY <2>1, <2>3 DEF LockIsHeld, UnregisteredAreClosed,
                ClosedIsEmptied, Registered, Closes
  <1> QED  BY <1>1, <1>2

LEMMA CallerLocks ==
  ASSUME NEW r \in CallerType, NEW T \in SUBSET Wrappers
  PROVE  LET n == [r EXCEPT !.op = "locked", !.todo = T]
         IN  n \in CallerType /\ n.op = "locked" /\ n.pipe = r.pipe /\ n.todo = T
  BY DEF CallerType

LEMMA CloseCallerStep ==
  ASSUME CloseInv, NEW c \in Callers, CallerStep(c) PROVE CloseInv'
  <1> USE PipelineAssumption DEF CloseInv, CloseTypeOK
  <1> DEFINE q == caller[c].pipe
  <1>0. IdleCaller \in CallerType /\ IdleCaller.op = "idle"
    BY DEF IdleCaller, CallerType
  <1>1. ASSUME NEW id \in SinkIds, NEW w \in Wrappers, AddSink(c, id, w)
        PROVE  CloseInv'
    <2>1. /\ caller[c].op = "add" /\ q \in Pipes /\ lock[q] = None
          /\ caller' = [caller EXCEPT ![c] = IdleCaller]
          /\ UNCHANGED <<pipelines, pclosed, lock, stage>>
      BY <1>1 DEF AddSink
    <2>2. /\ caller' \in [Callers -> CallerType]
          /\ caller'[c].op = "idle"
          /\ \A d \in Callers : d # c => caller'[d] = caller[d]
      BY <1>0, <2>1
    <2>3. CASE UNCHANGED <<sinks, owner>>
      BY <2>1, <2>2, <2>3 DEF LockIsHeld, UnregisteredAreClosed,
         ClosedIsEmptied, Registered, Closes
    <2>4. CASE /\ ~pclosed[q] /\ sinks[q][id] = None /\ owner[w] = None
               /\ sinks' = [sinks EXCEPT ![q][id] = w]
               /\ owner' = [owner EXCEPT ![w] = q]
      <3>1. /\ sinks' \in [Pipes -> [SinkIds -> Wrappers \cup {None}]]
            /\ \A p \in Pipes, i \in SinkIds :
                  sinks'[p][i] = IF p = q /\ i = id THEN w ELSE sinks[p][i]
        BY <2>1, <2>4
      <3>2. CloseTypeOK' /\ LockIsHeld'
        BY <2>1, <2>2, <2>4, <3>1 DEF LockIsHeld
      <3>3. UnregisteredAreClosed'
        <4> SUFFICES ASSUME NEW p \in Pipes, NEW v \in Wrappers, owner'[v] = p,
                            ~Registered(v, p)', stage'[v] = "open"
                     PROVE  \E d \in Callers : Closes(d, p, v)'
          BY DEF UnregisteredAreClosed
        <4>1. v # w
          BY <2>1, <2>4, <3>1 DEF Registered
        <4>2. owner[v] = p /\ stage[v] = "open" /\ ~Registered(v, p)
          BY <2>1, <2>4, <3>1, <4>1 DEF Registered
        <4>3. PICK d \in Callers : Closes(d, p, v)
          BY <4>2 DEF UnregisteredAreClosed
        <4> QED  BY <2>1, <2>2, <4>3 DEF Closes
      <3>4. ClosedIsEmptied'
        BY <2>1, <2>2, <2>4, <3>1 DEF ClosedIsEmptied
      <3> QED  BY <3>2, <3>3, <3>4
    <2> QED  BY <1>1, <2>3, <2>4 DEF AddSink, FreshWrapper, NewSinkWrapper
  <1>2. ASSUME NEW id \in SinkIds, RemoveSink(c, id) PROVE CloseInv'
    <2>1. /\ caller[c].op = "remove" /\ q \in Pipes /\ lock[q] = None
          /\ UNCHANGED <<pipelines, pclosed, owner, stage>>
      BY <1>2 DEF RemoveSink, sinkVars
    <2>2. CASE sinks[q][id] = None
      <3>1. /\ caller' = [caller EXCEPT ![c] = IdleCaller]
            /\ UNCHANGED <<sinks, lock>>
        BY <1>2, <2>2 DEF RemoveSink
      <3>2. /\ caller' \in [Callers -> CallerType]
            /\ caller'[c].op = "idle"
            /\ \A d \in Callers : d # c => caller'[d] = caller[d]
        BY <1>0, <3>1
      <3> QED  BY <2>1, <3>1, <3>2 DEF LockIsHeld, UnregisteredAreClosed,
                  ClosedIsEmptied, Registered, Closes
    <2>3. CASE sinks[q][id] # None
      <3>1. /\ sinks' = [sinks EXCEPT ![q][id] = None]
            /\ lock' = [lock EXCEPT ![q] = c]
            /\ caller' = [caller EXCEPT ![c].op = "locked",
                                        ![c].todo = {sinks[q][id]}]
        BY <1>2, <2>3 DEF RemoveSink
      <3>2. /\ caller' \in [Callers -> CallerType]
            /\ caller'[c].op = "locked" /\ caller'[c].pipe = q
            /\ caller'[c].todo = {sinks[q][id]}
            /\ \A d \in Callers : d # c => caller'[d] = caller[d]
        <4> DEFINE rec == [caller[c] EXCEPT !.op = "locked", !.todo = {sinks[q][id]}]
        <4>1. /\ rec \in CallerType /\ rec.op = "locked" /\ rec.pipe = q
              /\ rec.todo = {sinks[q][id]}
          <5>1. caller[c] \in CallerType /\ {sinks[q][id]} \in SUBSET Wrappers
            BY <2>1, <2>3
          <5> QED  BY <5>1, CallerLocks
        <4>2. caller' = [caller EXCEPT ![c] = rec]
          BY <3>1
        <4> HIDE DEF rec
        <4> QED  BY <4>1, <4>2
      <3>3. /\ sinks' \in [Pipes -> [SinkIds -> Wrappers \cup {None}]]
            /\ \A p \in Pipes, i \in SinkIds :
                  sinks'[p][i] = IF p = q /\ i = id THEN None ELSE sinks[p][i]
        BY <2>1, <3>1
      <3>4. CloseTypeOK' /\ LockIsHeld'
        BY <2>1, <3>1, <3>2, <3>3 DEF LockIsHeld
      <3>5. UnregisteredAreClosed'
        <4> SUFFICES ASSUME NEW p \in Pipes, NEW v \in Wrappers, owner'[v] = p,
                            ~Registered(v, p)', stage'[v] = "open"
                     PROVE  \E d \in Callers : Closes(d, p, v)'
          BY DEF UnregisteredAreClosed
        <4>1. CASE p = q /\ sinks[q][id] = v
          BY <3>2, <4>1 DEF Closes
        <4>2. CASE ~(p = q /\ sinks[q][id] = v)
          <5>1. owner[v] = p /\ stage[v] = "open" /\ ~Registered(v, p)
            BY <2>1, <3>3, <4>2 DEF Registered
          <5>2. PICK d \in Callers : Closes(d, p, v)
            BY <5>1 DEF UnregisteredAreClosed
          <5> QED  BY <2>1, <3>2, <5>2 DEF Closes
        <4> QED  BY <4>1, <4>2
      <3>6. ClosedIsEmptied'
        <4> SUFFICES ASSUME NEW p \in Pipes, NEW i \in SinkIds,
                            pclosed'[p], sinks'[p][i] # None
                     PROVE  \E d \in Callers : caller'[d].op = "close"
                                               /\ caller'[d].pipe = p
          BY DEF ClosedIsEmptied
        <4>1. PICK d \in Callers : caller[d].op = "close" /\ caller[d].pipe = p
          BY <2>1, <3>3 DEF ClosedIsEmptied
        <4> QED  BY <2>1, <3>2, <4>1
      <3> QED  BY <3>4, <3>5, <3>6
    <2> QED  BY <2>2, <2>3
  <1>3. CASE CloseFlag(c)
    BY <1>3, SMTT(30) DEF CloseFlag, LockIsHeld, UnregisteredAreClosed,
       ClosedIsEmptied, Registered, Closes, sinkVars, procVars
  <1>4. CASE CloseLock(c)
    <2>1. /\ caller[c].op = "close" /\ q \in Pipes /\ lock[q] = None
          /\ lock' = [lock EXCEPT ![q] = c]
          /\ caller' = [caller EXCEPT ![c].op = "locked", ![c].todo = SinksOf(q)]
          /\ sinks' = [sinks EXCEPT ![q] = [id \in SinkIds |-> None]]
          /\ UNCHANGED <<pipelines, pclosed, owner, stage>>
      BY <1>4 DEF CloseLock, sinkVars
    <2>2. /\ SinksOf(q) \in SUBSET Wrappers
          /\ \A w \in Wrappers : w \in SinksOf(q) <=> Registered(w, q)
      BY <2>1 DEF SinksOf, Registered
    <2>3. /\ caller' \in [Callers -> CallerType]
          /\ caller'[c].op = "locked" /\ caller'[c].pipe = q
          /\ caller'[c].todo = SinksOf(q)
          /\ \A d \in Callers : d # c => caller'[d] = caller[d]
      <3> DEFINE rec == [caller[c] EXCEPT !.op = "locked", !.todo = SinksOf(q)]
      <3>1. /\ rec \in CallerType /\ rec.op = "locked" /\ rec.pipe = q
            /\ rec.todo = SinksOf(q)
        <4>1. caller[c] \in CallerType
          OBVIOUS
        <4> QED  BY <2>2, <4>1, CallerLocks
      <3>2. caller' = [caller EXCEPT ![c] = rec]
        BY <2>1
      <3> HIDE DEF rec
      <3> QED  BY <3>1, <3>2
    <2>4. /\ sinks' \in [Pipes -> [SinkIds -> Wrappers \cup {None}]]
          /\ \A p \in Pipes, i \in SinkIds :
                sinks'[p][i] = IF p = q THEN None ELSE sinks[p][i]
      BY <2>1
    <2>5. CloseTypeOK' /\ LockIsHeld'
      BY <2>1, <2>3, <2>4 DEF LockIsHeld
    <2>6. UnregisteredAreClosed'
      <3> SUFFICES ASSUME NEW p \in Pipes, NEW v \in Wrappers, owner'[v] = p,
                          ~Registered(v, p)', stage'[v] = "open"
                   PROVE  \E d \in Callers : Closes(d, p, v)'
        BY DEF UnregisteredAreClosed
      <3>1. CASE p = q /\ Registered(v, q)
        BY <2>2, <2>3, <3>1 DEF Closes
      <3>2. CASE ~(p = q /\ Registered(v, q))
        <4>1. owner[v] = p /\ stage[v] = "open" /\ ~Registered(v, p)
          BY <2>1, <2>4, <3>2 DEF Registered
        <4>2. PICK d \in Callers : Closes(d, p, v)
          BY <4>1 DEF UnregisteredAreClosed
        <4> QED  BY <2>1, <2>3, <4>2 DEF Closes
      <3> QED  BY <3>1, <3>2
    <2>7. ClosedIsEmptied'
      BY <2>1, <2>3, <2>4, SMTT(30) DEF ClosedIsEmptied
    <2> QED  BY <2>5, <2>6, <2>7
  <1>5. ASSUME NEW w \in Wrappers, CallerMark(c, w) PROVE CloseInv'
    <2>1. /\ caller[c].op = "locked" /\ q \in Pipes
          /\ UNCHANGED <<pipelines, pclosed, sinks, lock, owner>>
          /\ stage' \in [Wrappers -> {"open", "marked", "unchanneled", "closed"}]
          /\ stage'[w] # "open"
          /\ \A v \in Wrappers : v # w => stage'[v] = stage[v]
      BY <1>5 DEF CallerMark, AtNextSink, MarkClosed, Closed, pipeVars
    <2>2. /\ caller' \in [Callers -> CallerType]
          /\ caller'[c].op = "locked" /\ caller'[c].pipe = q
          /\ caller'[c].todo = caller[c].todo \ {w}
          /\ \A d \in Callers : d # c => caller'[d] = caller[d]
      <3> DEFINE T == caller[c].todo \ {w}
                 rec(x) == [caller[c] EXCEPT !.todo = T, !.w = x]
      <3>1. ASSUME NEW x \in {None, w}
            PROVE  /\ rec(x) \in CallerType /\ rec(x).op = "locked"
                   /\ rec(x).pipe = q /\ rec(x).todo = T
        <4>1. caller[c] \in CallerType /\ T \in SUBSET Wrappers
          BY DEF CallerType
        <4>2. x \in Wrappers \cup {None}
          BY <3>1
        <4>3. /\ rec(x) \in CallerType /\ rec(x).op = caller[c].op
              /\ rec(x).pipe = caller[c].pipe /\ rec(x).todo = T
          <5> HIDE DEF T, CloseInv, CloseTypeOK
          <5> QED  BY <4>1, <4>2 DEF CallerType
        <4> QED  BY <2>1, <4>3
      <3>2. PICK x \in {None, w} : caller' = [caller EXCEPT ![c] = rec(x)]
        BY <1>5 DEF CallerMark
      <3> HIDE DEF rec
      <3> QED  BY <3>1, <3>2
    <2>3. CloseTypeOK' /\ LockIsHeld'
      BY <2>1, <2>2 DEF LockIsHeld
    <2>4. UnregisteredAreClosed'
      <3> SUFFICES ASSUME NEW p \in Pipes, NEW v \in Wrappers, owner'[v] = p,
                          ~Registered(v, p)', stage'[v] = "open"
                   PROVE  \E d \in Callers : Closes(d, p, v)'
        BY DEF UnregisteredAreClosed
      <3>1. v # w /\ owner[v] = p /\ stage[v] = "open" /\ ~Registered(v, p)
        BY <2>1 DEF Registered
      <3>2. PICK d \in Callers : Closes(d, p, v)
        BY <3>1 DEF UnregisteredAreClosed
      <3> QED  BY <2>1, <2>2, <3>1, <3>2 DEF Closes
    <2>5. ClosedIsEmptied'
      BY <2>1, <2>2 DEF ClosedIsEmptied
    <2> QED  BY <2>3, <2>4, <2>5
  <1>6. CASE CallerUnlock(c)
    <2>1. /\ caller[c].op = "locked" /\ q \in Pipes /\ caller[c].todo = {}
          /\ lock' = [lock EXCEPT ![q] = None]
          /\ caller' = [caller EXCEPT ![c] = IdleCaller]
          /\ UNCHANGED <<pipelines, pclosed, sinks, owner, stage>>
      BY <1>6 DEF CallerUnlock, AtNextSink, sinkVars
    <2>2. /\ caller' \in [Callers -> CallerType]
          /\ caller'[c].op = "idle"
          /\ \A d \in Callers : d # c => caller'[d] = caller[d]
      BY <1>0, <2>1
    <2>3. CloseTypeOK' /\ LockIsHeld'
      BY <2>1, <2>2 DEF LockIsHeld
    <2>4. UnregisteredAreClosed'
      BY <2>1, <2>2 DEF UnregisteredAreClosed, Registered, Closes
    <2>5. ClosedIsEmptied'
      BY <2>1, <2>2 DEF ClosedIsEmptied
    <2> QED  BY <2>3, <2>4, <2>5
  <1> QED  BY <1>1, <1>2, <1>3, <1>4, <1>5, <1>6 DEF CallerStep

LEMMA CloseNext == CloseInv /\ [Next]_vars => CloseInv'
  <1> SUFFICES ASSUME CloseInv, [Next]_vars PROVE CloseInv'
    OBVIOUS
  <1>1. CASE UNCHANGED vars
    BY <1>1, CloseStutter DEF closeVars, vars, pipeVars, sinkVars, procVars
  <1> QED  BY <1>1, CloseWrapperStep, CloseWriterStep, CloseCallerBegin,
              CloseCallerStep DEF Next

\* When Close and RemoveSink have returned, every sink the pipeline ever had
\* and that is not registered is closed, and a closed pipeline has none
\* registered, however many callers add, remove and destroy at the same time
\* (pipeline.go, AddSink, RemoveSink and Close).
THEOREM ClosedPipelineIsEmptyCorrect == Spec => []ClosedPipelineIsEmpty
  <1>1. CloseInv => ClosedPipelineIsEmpty
    <2> SUFFICES ASSUME CloseInv, NEW p \in Pipes, lock[p] = None,
                        \A c \in Callers : ~(caller[c].op = "close" /\ caller[c].pipe = p)
                 PROVE  /\ pclosed[p] => SinksOf(p) = {}
                        /\ \A w \in Wrappers :
                             owner[w] = p /\ w \notin SinksOf(p) => stage[w] # "open"
      BY DEF ClosedPipelineIsEmpty
    <2> USE PipelineAssumption DEF CloseInv, CloseTypeOK
    <2>1. pclosed[p] => SinksOf(p) = {}
      BY DEF ClosedIsEmptied, SinksOf
    <2>2. ASSUME NEW w \in Wrappers, owner[w] = p, w \notin SinksOf(p)
          PROVE  stage[w] # "open"
      <3>1. ~Registered(w, p)
        BY <2>2 DEF Registered, SinksOf
      <3>2. \A c \in Callers : ~Closes(c, p, w)
        BY DEF LockIsHeld, Closes
      <3> QED  BY <2>2, <3>1, <3>2 DEF UnregisteredAreClosed
    <2> QED  BY <2>1, <2>2
  <1> QED  BY <1>1, CloseInit, CloseNext, PTL DEF Spec

-----------------------------------------------------------------------------
(* Frames.  FlowInv is what both accounts of the frames rest on: the types, *)
(* a writer that is about to send has its wrapper in hand and off its list, *)
(* a wrapper that was not made yet does nothing, and only closed wrappers   *)
(* are drained.                                                             *)

WriterType == [pc : {"idle", "got", "snap", "each", "send"},
               pipe : Pipes \cup {None}, frame : Nat,
               todo : SUBSET Wrappers, w : Wrappers \cup {None}]

LoopType == [pc : {"none", "idle", "writing", "closing", "ended"},
             frame : Nat, attempt : Nat]

FlowTypeOK ==
  /\ ch \in [Wrappers -> Seq(Nat)]
  /\ written \in [Wrappers -> Seq(Nat)]
  /\ dropped \in [Wrappers -> Nat]
  /\ offered \in [Wrappers -> Nat]
  /\ loop \in [Wrappers -> LoopType]
  /\ drainer \in [Wrappers -> {"none", "running", "ended"}]
  /\ nframes \in Nat
  /\ writer \in [Writers -> WriterType]

WriterHand ==
  \A a \in Writers :
    /\ writer[a].pc # "idle" => writer[a].pipe \in Pipes
    /\ writer[a].pc = "send" <=> writer[a].w # None
    /\ writer[a].w \notin writer[a].todo

FreshAreIdle == \A w \in Wrappers : owner[w] = None => loop[w].pc = "none"

OnlyClosedDrain == \A w \in Wrappers : drainer[w] = "running" => Closed(w)

FlowInv == FlowTypeOK /\ WriterHand /\ FreshAreIdle /\ OnlyClosedDrain

LEMMA FlowInit == Init => FlowInv
  BY PipelineAssumption
     DEF Init, FlowInv, FlowTypeOK, WriterHand, FreshAreIdle, OnlyClosedDrain,
         WriterType, LoopType, IdleWriter, IdleLoop

\* What WriteFrame does to its own state when it goes on to the next sink.
LEMMA NextSinkIs ==
  ASSUME FlowInv, NEW a \in Writers, writer[a].pc # "idle",
         NEW rest \in SUBSET Wrappers
  PROVE  /\ NextSink(a, rest) \in WriterType
         /\ NextSink(a, rest).w = None
         /\ NextSink(a, rest).pc \in {"idle", "each"}
         /\ NextSink(a, rest).todo = rest
         /\ rest # {} => /\ NextSink(a, rest).frame = writer[a].frame
                         /\ NextSink(a, rest).pipe = writer[a].pipe
                         /\ NextSink(a, rest).pc = "each"
         /\ rest = {} => NextSink(a, rest).pc = "idle"
  <1>1. writer[a] \in WriterType
    BY DEF FlowInv, FlowTypeOK
  <1> QED  BY <1>1 DEF NextSink, IdleWriter, WriterType

\* A writer step that changes no wrapper: writer a goes to the record r.
LEMMA FlowWriter ==
  ASSUME FlowInv, NEW a \in Writers, NEW r \in WriterType,
         r.pc # "idle" => r.pipe \in Pipes,
         r.pc = "send" <=> r.w # None, r.w \notin r.todo,
         writer' = [writer EXCEPT ![a] = r],
         UNCHANGED <<owner, stage, loop, drainer, written>>,
         ch' \in [Wrappers -> Seq(Nat)], dropped' \in [Wrappers -> Nat],
         offered' \in [Wrappers -> Nat], nframes' \in Nat
  PROVE  FlowInv'
  <1>1. writer' \in [Writers -> WriterType]
    BY DEF FlowInv, FlowTypeOK
  <1>2. WriterHand'
    BY DEF FlowInv, FlowTypeOK, WriterHand
  <1> QED  BY <1>1, <1>2 DEF FlowInv, FlowTypeOK, FreshAreIdle, OnlyClosedDrain, Closed

\* The three things a step of writer a can be: it looks around, it takes an
\* open wrapper in hand, or it sends.  r is its state after the step.
Looks(a, r) ==
  /\ writer[a].w = None /\ r.w = None
  /\ UNCHANGED <<ch, dropped, offered>>
  /\ \/ nframes' = nframes + 1 /\ r.frame = nframes + 1 /\ r.pc = "snap"
     \/ nframes' = nframes /\ r.todo = {} /\ r.pc \in {"idle", "got"}
     \/ /\ nframes' = nframes /\ r.frame = writer[a].frame /\ r.pc = "each"
        /\ writer[a].pc = "snap" \/ r.todo \subseteq writer[a].todo

Hands(a, r) ==
  \E w \in writer[a].todo :
    /\ writer[a].w = None /\ r.w = w /\ r.pc = "send"
    /\ r.frame = writer[a].frame /\ r.todo = writer[a].todo \ {w}
    /\ offered' = [offered EXCEPT ![w] = @ + 1]
    /\ UNCHANGED <<ch, dropped, nframes>>

Sends(a, r) ==
  \E w \in Wrappers :
    /\ writer[a].w = w /\ r.w = None /\ r.pc \in {"idle", "each"}
    /\ r.todo = writer[a].todo
    /\ r.todo # {} => r.frame = writer[a].frame
    /\ \/ ChClosed(w) /\ UNCHANGED <<ch, dropped>>
       \/ ch' = [ch EXCEPT ![w] = Append(@, writer[a].frame)] /\ UNCHANGED dropped
       \/ dropped' = [dropped EXCEPT ![w] = @ + 1] /\ UNCHANGED ch
    /\ UNCHANGED <<offered, nframes>>

LEMMA WriterCases ==
  ASSUME CloseInv, FlowInv, NEW a \in Writers, WriterStep(a)
  PROVE  \E r \in WriterType :
           /\ writer' = [writer EXCEPT ![a] = r]
           /\ r.pc # "idle" => r.pipe \in Pipes
           /\ r.pc = "send" <=> r.w # None
           /\ r.w \notin r.todo
           /\ UNCHANGED <<owner, stage, loop, drainer, written>>
           /\ Looks(a, r) \/ Hands(a, r) \/ Sends(a, r)
  <1> DEFINE Goal(r) == /\ writer' = [writer EXCEPT ![a] = r]
                        /\ r.pc # "idle" => r.pipe \in Pipes
                        /\ r.pc = "send" <=> r.w # None
                        /\ r.w \notin r.todo
                        /\ UNCHANGED <<owner, stage, loop, drainer, written>>
                        /\ Looks(a, r) \/ Hands(a, r) \/ Sends(a, r)
  <1> USE PipelineAssumption DEF pipeVars, sinkVars
  <1>0. /\ writer[a] \in WriterType
        /\ writer[a].pc # "idle" => writer[a].pipe \in Pipes
        /\ writer[a].pc = "send" <=> writer[a].w # None
        /\ writer[a].w \notin writer[a].todo
        /\ IdleWriter \in WriterType
        /\ IdleWriter.pc = "idle" /\ IdleWriter.w = None /\ IdleWriter.todo = {}
    BY DEF FlowInv, FlowTypeOK, WriterHand, WriterType, IdleWriter
  <1>1. ASSUME NEW s \in Streams, WriterGet(a, s)
        PROVE  \E r \in WriterType : Goal(r)
    <2> DEFINE r == [IdleWriter EXCEPT !.pc = "got", !.pipe = pipelines[s]]
    <2>1. pipelines[s] \in Pipes
      BY <1>1 DEF WriterGet, CloseInv, CloseTypeOK
    <2>2. /\ r \in WriterType /\ r.pc = "got" /\ r.pipe \in Pipes
          /\ r.w = None /\ r.todo = {}
      BY <2>1 DEF IdleWriter, WriterType
    <2>3. /\ writer' = [writer EXCEPT ![a] = r] /\ writer[a].pc = "idle"
          /\ UNCHANGED <<owner, stage, loop, drainer, written, ch, dropped, offered, nframes>>
      BY <1>1 DEF WriterGet
    <2> HIDE DEF r
    <2>4. Goal(r)
      BY <1>0, <2>2, <2>3 DEF Looks
    <2> QED  BY <2>2, <2>4
  <1>2. CASE WriterCheck(a)
    <2>1. CASE writer' = [writer EXCEPT ![a] = IdleWriter] /\ UNCHANGED nframes
      <3>1. Goal(IdleWriter)
        BY <1>0, <1>2, <2>1 DEF WriterCheck, Looks
      <3> QED  BY <1>0, <3>1
    <2>2. CASE /\ nframes' = nframes + 1
               /\ writer' = [writer EXCEPT ![a].pc = "snap", ![a].frame = nframes + 1]
      <3> DEFINE n == nframes + 1
                 r == [writer[a] EXCEPT !.pc = "snap", !.frame = n]
      <3>0. n \in Nat
        BY DEF FlowInv, FlowTypeOK
      <3>1. /\ r \in WriterType /\ r.pc = "snap" /\ r.frame = n
            /\ r.pipe = writer[a].pipe /\ r.w = writer[a].w /\ r.todo = writer[a].todo
        <4> HIDE DEF n
        <4> QED  BY <1>0, <3>0 DEF WriterType
      <3>2. /\ writer' = [writer EXCEPT ![a] = r] /\ writer[a].pc = "got"
            /\ UNCHANGED <<owner, stage, loop, drainer, written, ch, dropped, offered>>
        BY <1>2, <2>2 DEF WriterCheck
      <3> HIDE DEF r
      <3>3. Goal(r)
        BY <1>0, <2>2, <3>1, <3>2 DEF Looks
      <3> QED  BY <3>1, <3>3
    <2> QED  BY <1>2, <2>1, <2>2 DEF WriterCheck
  <1>3. CASE WriterSnapshot(a)
    <2> DEFINE rest == SinksOf(writer[a].pipe)
               r == NextSink(a, rest)
    <2>1. writer[a].pc = "snap"
      BY <1>3 DEF WriterSnapshot
    <2>2. rest \in SUBSET Wrappers
      BY <1>0, <2>1 DEF SinksOf, CloseInv, CloseTypeOK
    <2>3. /\ writer' = [writer EXCEPT ![a] = r]
          /\ UNCHANGED <<owner, stage, loop, drainer, written, ch, dropped, offered, nframes>>
      BY <1>3 DEF WriterSnapshot
    <2> HIDE DEF rest
    <2>4. /\ r \in WriterType /\ r.w = None /\ r.pc \in {"idle", "each"}
          /\ r.todo = rest
          /\ rest # {} => /\ r.frame = writer[a].frame
                          /\ r.pipe = writer[a].pipe /\ r.pc = "each"
          /\ rest = {} => r.pc = "idle"
      BY <2>1, <2>2, NextSinkIs
    <2> HIDE DEF r
    <2>5. Looks(a, r)
      <3>1. CASE rest = {}
        BY <1>0, <2>1, <2>3, <2>4, <3>1 DEF Looks
      <3>2. CASE rest # {}
        BY <1>0, <2>1, <2>3, <2>4, <3>2 DEF Looks
      <3> QED  BY <3>1, <3>2
    <2>6. Goal(r)
      BY <1>0, <2>1, <2>2, <2>3, <2>4, <2>5
    <2> QED  BY <2>4, <2>6
  <1>4. ASSUME NEW w \in Wrappers, TryWrite(a, w)
        PROVE  \E r \in WriterType : Goal(r)
    <2>1. /\ writer[a].pc = "each" /\ w \in writer[a].todo
          /\ UNCHANGED <<owner, stage, loop, drainer, written, ch, dropped, nframes>>
      BY <1>4 DEF TryWrite
    <2>2. CASE Closed(w)
      <3> DEFINE rest == writer[a].todo \ {w}
                 r == NextSink(a, rest)
      <3>1. writer' = [writer EXCEPT ![a] = r] /\ UNCHANGED offered
        BY <1>4, <2>2 DEF TryWrite
      <3>2. rest \in SUBSET Wrappers /\ rest \subseteq writer[a].todo
        BY <1>0 DEF WriterType
      <3> HIDE DEF rest
      <3>3. /\ r \in WriterType /\ r.w = None /\ r.pc \in {"idle", "each"}
            /\ r.todo = rest
            /\ rest # {} => /\ r.frame = writer[a].frame
                            /\ r.pipe = writer[a].pipe /\ r.pc = "each"
            /\ rest = {} => r.pc = "idle"
        BY <2>1, <3>2, NextSinkIs
      <3> HIDE DEF r
      <3>4. Goal(r)
        BY <1>0, <2>1, <3>1, <3>2, <3>3 DEF Looks
      <3> QED  BY <3>3, <3>4
    <2>3. CASE ~Closed(w)
      <3> DEFINE r == [writer[a] EXCEPT !.todo = writer[a].todo \ {w},
                                        !.pc = "send", !.w = w]
      <3>1. /\ writer' = [writer EXCEPT ![a] = r]
            /\ offered' = [offered EXCEPT ![w] = @ + 1]
        BY <1>4, <2>3 DEF TryWrite
      <3>2. /\ r \in WriterType /\ r.w = w /\ r.pc = "send"
            /\ r.frame = writer[a].frame /\ r.pipe = writer[a].pipe
            /\ r.todo = writer[a].todo \ {w}
        BY <1>0 DEF WriterType
      <3> HIDE DEF r
      <3>3. Goal(r)
        BY <1>0, <2>1, <3>1, <3>2 DEF Hands
      <3> QED  BY <3>2, <3>3
    <2> QED  BY <2>2, <2>3
  <1>5. CASE TrySend(a)
    <2> DEFINE w == writer[a].w
               rest == writer[a].todo
               r == NextSink(a, rest)
    <2>1. /\ writer[a].pc = "send"
          /\ writer' = [writer EXCEPT ![a] = r]
          /\ UNCHANGED <<owner, stage, loop, drainer, offered, written, nframes>>
          /\ \/ ChClosed(w) /\ UNCHANGED <<ch, dropped>>
             \/ ch' = [ch EXCEPT ![w] = Append(@, writer[a].frame)] /\ UNCHANGED dropped
             \/ dropped' = [dropped EXCEPT ![w] = @ + 1] /\ UNCHANGED ch
      BY <1>5 DEF TrySend
    <2>2. w \in Wrappers /\ rest \in SUBSET Wrappers
      BY <1>0, <2>1 DEF WriterType
    <2>3. /\ r \in WriterType /\ r.w = None /\ r.pc \in {"idle", "each"}
          /\ r.todo = rest
          /\ rest # {} => /\ r.frame = writer[a].frame
                          /\ r.pipe = writer[a].pipe /\ r.pc = "each"
          /\ rest = {} => r.pc = "idle"
      BY <2>1, <2>2, NextSinkIs
    <2> HIDE DEF r
    <2>4. Sends(a, r)
      BY <2>1, <2>2, <2>3 DEF Sends
    <2>5. Goal(r)
      BY <1>0, <2>1, <2>2, <2>3, <2>4
    <2> QED  BY <2>3, <2>5
  <1> QED  BY <1>1, <1>2, <1>3, <1>4, <1>5 DEF WriterStep

LEMMA FlowWriterStep ==
  ASSUME CloseInv, FlowInv, NEW a \in Writers, WriterStep(a) PROVE FlowInv'
  <1> PICK r \in WriterType :
           /\ writer' = [writer EXCEPT ![a] = r]
           /\ r.pc # "idle" => r.pipe \in Pipes
           /\ r.pc = "send" <=> r.w # None
           /\ r.w \notin r.todo
           /\ UNCHANGED <<owner, stage, loop, drainer, written>>
           /\ Looks(a, r) \/ Hands(a, r) \/ Sends(a, r)
    BY WriterCases
  <1>1. writer[a] \in WriterType
    BY DEF FlowInv, FlowTypeOK
  <1>2. ch' \in [Wrappers -> Seq(Nat)]
    <2>1. CASE UNCHANGED ch
      BY <2>1 DEF FlowInv, FlowTypeOK
    <2>2. ASSUME NEW w \in Wrappers, ch' = [ch EXCEPT ![w] = Append(@, writer[a].frame)]
          PROVE  ch' \in [Wrappers -> Seq(Nat)]
      <3>1. Append(ch[w], writer[a].frame) \in Seq(Nat)
        BY <1>1 DEF WriterType, FlowInv, FlowTypeOK
      <3> QED  BY <2>2, <3>1 DEF FlowInv, FlowTypeOK
    <2> QED  BY <2>1, <2>2 DEF Looks, Hands, Sends
  <1>3. /\ dropped' \in [Wrappers -> Nat] /\ offered' \in [Wrappers -> Nat]
        /\ nframes' \in Nat
    <2>1. CASE Looks(a, r)
      BY <2>1 DEF Looks, FlowInv, FlowTypeOK
    <2>2. CASE Hands(a, r)
      BY <1>1, <2>2 DEF Hands, FlowInv, FlowTypeOK, WriterType
    <2>3. CASE Sends(a, r)
      <3>1. PICK w \in Wrappers :
              dropped' = dropped \/ dropped' = [dropped EXCEPT ![w] = @ + 1]
        BY <2>3 DEF Sends
      <3>2. dropped[w] + 1 \in Nat
        BY DEF FlowInv, FlowTypeOK
      <3>3. dropped' \in [Wrappers -> Nat]
        BY <3>1, <3>2 DEF FlowInv, FlowTypeOK
      <3> QED  BY <2>3, <3>3 DEF Sends, FlowInv, FlowTypeOK
    <2> QED  BY <2>1, <2>2, <2>3
  <1> QED  BY <1>2, <1>3, FlowWriter

LEMMA FlowWrapperStep ==
  ASSUME CloseInv, FlowInv, NEW w \in Wrappers, WrapperStep(w) PROVE FlowInv'
  <1> USE DEF FlowInv, FlowTypeOK, pipeVars, procVars
  <1>1. /\ UNCHANGED <<owner, dropped, offered, nframes, writer>>
        /\ WriterHand'
    BY DEF WrapperStep, CloseChannel, CloseSink, LoopReceive, LoopExit,
       WriteSucceeds, Retry, WriteFails, Drain, DrainEnd, WriterHand
  <1>2. /\ loop[w] \in LoopType /\ IdleLoop \in LoopType /\ IdleLoop.pc = "idle"
        /\ stage \in [Wrappers -> {"open", "marked", "unchanneled", "closed"}]
    BY DEF LoopType, IdleLoop, CloseInv, CloseTypeOK
  <1>3. CASE CloseChannel(w) \/ CloseSink(w)
    BY <1>1, <1>2, <1>3 DEF CloseChannel, CloseSink, FreshAreIdle, OnlyClosedDrain, Closed
  <1>4. CASE LoopReceive(w)
    <2>1. /\ Tail(ch[w]) \in Seq(Nat) /\ Head(ch[w]) \in Nat
          /\ AtSelect(w)
          /\ loop' = [loop EXCEPT ![w] = [pc |-> "writing", frame |-> Head(ch[w]),
                                          attempt |-> 0]]
          /\ ch' = [ch EXCEPT ![w] = Tail(ch[w])]
          /\ UNCHANGED <<stage, drainer, written>>
      BY <1>4 DEF LoopReceive
    <2>2. [pc |-> "writing", frame |-> Head(ch[w]), attempt |-> 0] \in LoopType
      BY <2>1 DEF LoopType
    <2> QED  BY <1>1, <2>1, <2>2 DEF FreshAreIdle, OnlyClosedDrain, Closed, AtSelect
  <1>5. CASE LoopExit(w)
    <2>1. /\ loop' = [loop EXCEPT ![w] = [loop[w] EXCEPT !.pc = "ended"]]
          /\ AtSelect(w) /\ UNCHANGED <<stage, ch, drainer, written>>
      BY <1>5 DEF LoopExit
    <2>2. [loop[w] EXCEPT !.pc = "ended"] \in LoopType
      BY <1>2 DEF LoopType
    <2> QED  BY <1>1, <2>1, <2>2 DEF FreshAreIdle, OnlyClosedDrain, Closed, AtSelect
  <1>6. CASE WriteSucceeds(w)
    <2>1. Append(written[w], loop[w].frame) \in Seq(Nat)
      BY <1>2 DEF LoopType
    <2> QED  BY <1>1, <1>2, <1>6, <2>1 DEF WriteSucceeds, FreshAreIdle,
                OnlyClosedDrain, Closed
  <1>7. CASE Retry(w)
    <2> DEFINE n == loop[w].attempt + 1
    <2>1. /\ loop' = [loop EXCEPT ![w] = [loop[w] EXCEPT !.attempt = n]]
          /\ loop[w].pc = "writing" /\ UNCHANGED <<stage, ch, drainer, written>>
      BY <1>7 DEF Retry
    <2>2. n \in Nat
      BY <1>2 DEF LoopType
    <2> HIDE DEF n
    <2>3. [loop[w] EXCEPT !.attempt = n] \in LoopType
      BY <1>2, <2>2 DEF LoopType
    <2> QED  BY <1>1, <2>1, <2>3 DEF FreshAreIdle, OnlyClosedDrain, Closed
  <1>8. CASE WriteFails(w)
    <2>1. [IdleLoop EXCEPT !.pc = "closing"] \in LoopType
      BY DEF LoopType, IdleLoop
    <2> QED  BY <1>1, <1>2, <1>8, <2>1 DEF WriteFails, MarkClosed,
                FreshAreIdle, OnlyClosedDrain, Closed
  <1>9. CASE Drain(w) \/ DrainEnd(w)
    <2>1. /\ ch' \in [Wrappers -> Seq(Nat)]
          /\ drainer' \in {drainer, [drainer EXCEPT ![w] = "ended"]}
          /\ UNCHANGED <<stage, loop, written>>
      <3>1. CASE Drain(w)
        <4>1. Tail(ch[w]) \in Seq(Nat)
          BY <3>1 DEF Drain
        <4> QED  BY <3>1, <4>1 DEF Drain
      <3>2. CASE DrainEnd(w)
        BY <3>2 DEF DrainEnd
      <3> QED  BY <1>9, <3>1, <3>2
    <2> QED  BY <1>1, <2>1 DEF FreshAreIdle, OnlyClosedDrain, Closed
  <1> QED  BY <1>3, <1>4, <1>5, <1>6, <1>7, <1>8, <1>9 DEF WrapperStep

\* Callers make wrappers and mark them closed; the frames are not theirs.
LEMMA CallerCases ==
  ASSUME CloseInv, FlowInv, NEW c \in Callers, CallerBegin(c) \/ CallerStep(c)
  PROVE  /\ UNCHANGED <<ch, offered, written, dropped, nframes, writer>>
         /\ \A w \in Wrappers : Closed(w) => Closed(w)'
         /\ \/ UNCHANGED <<loop, owner>>
            \/ \E w \in Wrappers, p \in Pipes :
                 /\ owner[w] = None
                 /\ owner' = [owner EXCEPT ![w] = p]
                 /\ loop' = [loop EXCEPT ![w] = IdleLoop]
         /\ \/ UNCHANGED <<drainer, stage>>
            \/ \E w \in Wrappers : MarkClosed(w)
  <1> USE DEF pipeVars, sinkVars, procVars
  <1>1. ASSUME NEW id \in SinkIds, NEW w \in Wrappers, AddSink(c, id, w)
        PROVE  /\ UNCHANGED <<ch, offered, written, dropped, nframes, writer, stage, drainer>>
               /\ \/ UNCHANGED <<loop, owner>>
                  \/ \E p \in Pipes :
                       /\ owner[w] = None
                       /\ owner' = [owner EXCEPT ![w] = p]
                       /\ loop' = [loop EXCEPT ![w] = IdleLoop]
    <2>1. caller[c].pipe \in Pipes
      BY <1>1 DEF AddSink, CloseInv, CloseTypeOK
    <2> QED  BY <1>1, <2>1 DEF AddSink, FreshWrapper, NewSinkWrapper
  <1>2. ASSUME NEW w \in Wrappers, CallerMark(c, w)
        PROVE  /\ UNCHANGED <<ch, offered, written, dropped, nframes, writer, loop, owner>>
               /\ UNCHANGED <<drainer, stage>> \/ MarkClosed(w)
    BY <1>2 DEF CallerMark
  <1>3. ASSUME NEW w \in Wrappers, MarkClosed(w)
        PROVE  \A v \in Wrappers : Closed(v) => Closed(v)'
    BY <1>3 DEF MarkClosed, Closed, CloseInv, CloseTypeOK
  <1>4. ASSUME \/ CallerBegin(c) \/ CloseFlag(c) \/ CloseLock(c) \/ CallerUnlock(c)
               \/ \E id \in SinkIds : RemoveSink(c, id)
        PROVE  UNCHANGED <<sinkVars, nframes, writer, owner>>
    BY <1>4 DEF CallerBegin, CreatePipeline, CallerGet, DestroyPipeline,
       RemoveSink, CloseFlag, CloseLock, CallerUnlock
  <1>5. CASE \E id \in SinkIds, w \in Wrappers : AddSink(c, id, w)
    BY <1>1, <1>5 DEF Closed
  <1>6. CASE \E w \in Wrappers : CallerMark(c, w)
    BY <1>2, <1>3, <1>6 DEF Closed
  <1> QED  BY <1>4, <1>5, <1>6 DEF CallerStep, Closed

LEMMA FlowCallerStep ==
  ASSUME CloseInv, FlowInv, NEW c \in Callers, CallerBegin(c) \/ CallerStep(c)
  PROVE  FlowInv'
  <1> USE PipelineAssumption DEF FlowInv, FlowTypeOK
  <1>0. IdleLoop \in LoopType
    BY DEF LoopType, IdleLoop
  <1>1. /\ UNCHANGED <<ch, offered, written, dropped, nframes, writer>>
        /\ \A w \in Wrappers : Closed(w) => Closed(w)'
        /\ owner \in [Wrappers -> Pipes \cup {None}]
    BY CallerCases DEF CloseInv, CloseTypeOK
  <1>2. WriterHand'
    BY <1>1 DEF WriterHand
  <1>3. loop' \in [Wrappers -> LoopType] /\ FreshAreIdle'
    <2>1. CASE UNCHANGED <<loop, owner>>
      BY <2>1 DEF FreshAreIdle
    <2>2. ASSUME NEW w \in Wrappers, NEW p \in Pipes,
                 owner' = [owner EXCEPT ![w] = p],
                 loop' = [loop EXCEPT ![w] = IdleLoop]
          PROVE  loop' \in [Wrappers -> LoopType] /\ FreshAreIdle'
      BY <1>0, <1>1, <2>2 DEF FreshAreIdle
    <2> QED  BY <2>1, <2>2, CallerCases
  <1>4. drainer' \in [Wrappers -> {"none", "running", "ended"}] /\ OnlyClosedDrain'
    <2>1. CASE UNCHANGED <<drainer, stage>>
      BY <2>1 DEF OnlyClosedDrain, Closed
    <2>2. ASSUME NEW w \in Wrappers, MarkClosed(w)
          PROVE  drainer' \in [Wrappers -> {"none", "running", "ended"}] /\ OnlyClosedDrain'
      BY <2>2 DEF MarkClosed, OnlyClosedDrain, Closed, CloseInv, CloseTypeOK
    <2> QED  BY <2>1, <2>2, CallerCases
  <1> QED  BY <1>1, <1>2, <1>3, <1>4

LEMMA FlowNext == CloseInv /\ FlowInv /\ [Next]_vars => FlowInv'
  <1> SUFFICES ASSUME CloseInv, FlowInv, [Next]_vars PROVE FlowInv'
    OBVIOUS
  <1>1. CASE UNCHANGED vars
    BY <1>1 DEF vars, pipeVars, sinkVars, procVars, FlowInv, FlowTypeOK,
       WriterHand, FreshAreIdle, OnlyClosedDrain, Closed
  <1> QED  BY <1>1, FlowWriterStep, FlowWrapperStep, FlowCallerStep DEF Next

-----------------------------------------------------------------------------
(* The frames of an open sink: nothing is lost without being counted.       *)

InHand(w) == {a \in Writers : writer[a].w = w}
InLoop(w) == IF loop[w].pc = "writing" THEN 1 ELSE 0
Count(s) == Len(s)

LEMMA CountFacts ==
  ASSUME NEW s \in Seq(Nat)
  PROVE  /\ Count(s) \in Nat
         /\ \A e \in Nat : Count(Append(s, e)) = Count(s) + 1
         /\ s # <<>> => Count(Tail(s)) = Count(s) - 1
  BY DEF Count

LEMMA InHandType ==
  ASSUME NEW w \in Wrappers
  PROVE  IsFiniteSet(InHand(w)) /\ Cardinality(InHand(w)) \in Nat
  <1>1. InHand(w) \subseteq Writers
    BY DEF InHand
  <1> QED  BY <1>1, PipelineAssumption, FS_Subset, FS_CardinalityType

\* The account in terms of InHand and InLoop.
LEMMA AccountIs ==
  OpenSinkAccounts <=>
    \A w \in Wrappers : ~Closed(w) =>
      offered[w] = Count(written[w]) + dropped[w] + Count(ch[w]) + InLoop(w)
                   + Cardinality(InHand(w))
  BY DEF OpenSinkAccounts, InHand, InLoop, Count

\* A step that leaves the account of every open wrapper alone.
LEMMA AccountSame ==
  ASSUME OpenSinkAccounts,
         \A w \in Wrappers : ~Closed(w)' =>
           /\ ~Closed(w)
           /\ offered'[w] = offered[w] /\ dropped'[w] = dropped[w]
           /\ Count(written'[w]) + Count(ch'[w]) + InLoop(w)'
                = Count(written[w]) + Count(ch[w]) + InLoop(w)
           /\ InHand(w)' = InHand(w),
         FlowInv, FlowInv'
  PROVE  OpenSinkAccounts'
  <1> SUFFICES ASSUME NEW w \in Wrappers, ~Closed(w)'
               PROVE  offered'[w] = Count(written'[w]) + dropped'[w] + Count(ch'[w])
                                    + InLoop(w)' + Cardinality(InHand(w)')
    BY DEF OpenSinkAccounts, InHand, InLoop, Count
  <1>1. offered[w] = Count(written[w]) + dropped[w] + Count(ch[w]) + InLoop(w)
                     + Cardinality(InHand(w))
    BY AccountIs
  <1>2. /\ Count(written[w]) \in Nat /\ Count(ch[w]) \in Nat /\ dropped[w] \in Nat
        /\ InLoop(w) \in Nat /\ InLoop(w)' \in Nat
        /\ Count(written'[w]) \in Nat /\ Count(ch'[w]) \in Nat
        /\ Cardinality(InHand(w)) \in Nat
    BY InHandType, CountFacts DEF FlowInv, FlowTypeOK, InLoop
  <1>3. /\ offered'[w] = offered[w] /\ dropped'[w] = dropped[w]
        /\ Count(written'[w]) + Count(ch'[w]) + InLoop(w)'
             = Count(written[w]) + Count(ch[w]) + InLoop(w)
        /\ Cardinality(InHand(w)') = Cardinality(InHand(w))
    OBVIOUS
  <1> QED  BY <1>1, <1>2, <1>3

LEMMA AccountWriterStep ==
  ASSUME CloseInv, FlowInv, FlowInv', OpenSinkAccounts,
         NEW a \in Writers, WriterStep(a)
  PROVE  OpenSinkAccounts'
  <1> PICK r \in WriterType :
           /\ writer' = [writer EXCEPT ![a] = r]
           /\ UNCHANGED <<owner, stage, loop, drainer, written>>
           /\ Looks(a, r) \/ Hands(a, r) \/ Sends(a, r)
    BY WriterCases
  <1>1. /\ writer'[a] = r
        /\ \A b \in Writers : b # a => writer'[b] = writer[b]
    BY DEF FlowInv, FlowTypeOK
  <1>2. \A w \in Wrappers : /\ Closed(w)' <=> Closed(w)
                            /\ InLoop(w)' = InLoop(w)
                            /\ written'[w] = written[w]
    BY DEF Closed, InLoop
  <1>3. CASE Looks(a, r)
    <2>1. \A w \in Wrappers : InHand(w)' = InHand(w)
      BY <1>1, <1>3, PipelineAssumption DEF Looks, InHand
    <2>2. UNCHANGED <<ch, dropped, offered>>
      BY <1>3 DEF Looks
    <2> QED  BY <1>2, <2>1, <2>2, AccountSame
  <1>4. CASE Hands(a, r)
    <2> PICK w \in writer[a].todo :
          /\ writer[a].w = None /\ r.w = w
          /\ offered' = [offered EXCEPT ![w] = @ + 1]
          /\ UNCHANGED <<ch, dropped, nframes>>
      BY <1>4 DEF Hands
    <2>1. w \in Wrappers /\ w # None
      BY PipelineAssumption DEF FlowInv, FlowTypeOK, WriterType
    <2>2. \A v \in Wrappers : v # w => InHand(v)' = InHand(v)
      BY <1>1, <2>1, PipelineAssumption DEF InHand
    <2>3. InHand(w)' = InHand(w) \cup {a} /\ a \notin InHand(w)
      BY <1>1, <2>1 DEF InHand
    <2>4. Cardinality(InHand(w)') = Cardinality(InHand(w)) + 1
      BY <2>1, <2>3, InHandType, FS_AddElement
    <2>5. /\ offered'[w] = offered[w] + 1 /\ offered[w] \in Nat
          /\ \A v \in Wrappers : v # w => offered'[v] = offered[v]
      BY <2>1 DEF FlowInv, FlowTypeOK
    <2> SUFFICES ASSUME NEW v \in Wrappers, ~Closed(v)'
                 PROVE  offered'[v] = Count(written'[v]) + dropped'[v] + Count(ch'[v])
                                      + InLoop(v)' + Cardinality(InHand(v)')
      BY DEF OpenSinkAccounts, InHand, InLoop, Count
    <2>6. offered[v] = Count(written[v]) + dropped[v] + Count(ch[v]) + InLoop(v)
                       + Cardinality(InHand(v))
      BY <1>2, AccountIs
    <2>7. /\ Count(written[v]) \in Nat /\ Count(ch[v]) \in Nat /\ dropped[v] \in Nat
          /\ InLoop(v) \in Nat /\ Cardinality(InHand(v)) \in Nat
      BY InHandType, CountFacts DEF FlowInv, FlowTypeOK, InLoop
    <2>8. CASE v = w
      BY <1>2, <2>4, <2>5, <2>6, <2>7, <2>8
    <2>9. CASE v # w
      BY <1>2, <2>2, <2>5, <2>6, <2>9
    <2> QED  BY <2>8, <2>9
  <1>5. CASE Sends(a, r)
    <2>0. PICK w \in Wrappers :
          /\ writer[a].w = w /\ r.w = None
          /\ \/ ChClosed(w) /\ UNCHANGED <<ch, dropped>>
             \/ ch' = [ch EXCEPT ![w] = Append(@, writer[a].frame)] /\ UNCHANGED dropped
             \/ dropped' = [dropped EXCEPT ![w] = @ + 1] /\ UNCHANGED ch
          /\ UNCHANGED <<offered, nframes>>
      BY <1>5 DEF Sends
    <2>1. \A v \in Wrappers : v # w => InHand(v)' = InHand(v)
      BY <1>1, <2>0, PipelineAssumption DEF InHand
    <2>2. InHand(w)' = InHand(w) \ {a} /\ a \in InHand(w)
      BY <1>1, <2>0, PipelineAssumption DEF InHand
    <2>3. /\ Cardinality(InHand(w)) = Cardinality(InHand(w)') + 1
          /\ Cardinality(InHand(w)') \in Nat
      <3>1. /\ IsFiniteSet(InHand(w)) /\ IsFiniteSet(InHand(w)')
            /\ a \notin InHand(w)' /\ InHand(w) = InHand(w)' \cup {a}
        BY <2>2, InHandType, FS_RemoveElement
      <3> QED  BY <3>1, FS_AddElement, FS_CardinalityType
    <2>4. /\ ~Closed(w) => Count(ch'[w]) + dropped'[w] = Count(ch[w]) + dropped[w] + 1
          /\ \A v \in Wrappers : v # w => ch'[v] = ch[v] /\ dropped'[v] = dropped[v]
      <3>1. /\ Count(ch[w]) \in Nat /\ dropped[w] \in Nat
            /\ Count(Append(ch[w], writer[a].frame)) = Count(ch[w]) + 1
        BY CountFacts DEF FlowInv, FlowTypeOK, WriterType
      <3>2. CASE ChClosed(w) /\ UNCHANGED <<ch, dropped>>
        BY <3>2 DEF ChClosed, Closed
      <3>3. CASE ch' = [ch EXCEPT ![w] = Append(@, writer[a].frame)] /\ UNCHANGED dropped
        <4>1. ch'[w] = Append(ch[w], writer[a].frame)
          BY <3>3 DEF FlowInv, FlowTypeOK
        <4> QED  BY <3>1, <3>3, <4>1 DEF FlowInv, FlowTypeOK
      <3>4. CASE dropped' = [dropped EXCEPT ![w] = @ + 1] /\ UNCHANGED ch
        BY <3>1, <3>4 DEF FlowInv, FlowTypeOK
      <3> QED  BY <2>0, <3>2, <3>3, <3>4
    <2> SUFFICES ASSUME NEW v \in Wrappers, ~Closed(v)'
                 PROVE  offered'[v] = Count(written'[v]) + dropped'[v] + Count(ch'[v])
                                      + InLoop(v)' + Cardinality(InHand(v)')
      BY DEF OpenSinkAccounts, InHand, InLoop, Count
    <2>6. offered[v] = Count(written[v]) + dropped[v] + Count(ch[v]) + InLoop(v)
                       + Cardinality(InHand(v))
      BY <1>2, AccountIs
    <2>7. /\ Count(written[v]) \in Nat /\ Count(ch[v]) \in Nat /\ dropped[v] \in Nat
          /\ Count(ch'[v]) \in Nat /\ dropped'[v] \in Nat
          /\ InLoop(v) \in Nat /\ Cardinality(InHand(v)) \in Nat
      BY InHandType, CountFacts DEF FlowInv, FlowTypeOK, InLoop
    <2>8. CASE v = w
      <3>1. Count(ch'[w]) + dropped'[w] = Count(ch[w]) + dropped[w] + 1
        BY <1>2, <2>4, <2>8
      <3>2. written'[w] = written[w] /\ InLoop(w)' = InLoop(w) /\ offered'[w] = offered[w]
        BY <1>2, <2>0
      <3>3. offered[w] = Count(written[w]) + dropped[w] + Count(ch[w]) + InLoop(w)
                         + Cardinality(InHand(w))
        BY <2>6, <2>8
      <3>4. /\ Count(written[w]) \in Nat /\ Count(ch[w]) \in Nat /\ dropped[w] \in Nat
            /\ Count(ch'[w]) \in Nat /\ dropped'[w] \in Nat
            /\ InLoop(w) \in Nat /\ Cardinality(InHand(w)) \in Nat
        BY <2>7, <2>8
      <3>5. offered'[w] = Count(written'[w]) + dropped'[w] + Count(ch'[w])
                          + InLoop(w)' + Cardinality(InHand(w)')
        BY <2>3, <3>1, <3>2, <3>3, <3>4
      <3> QED  BY <2>8, <3>5
    <2>9. CASE v # w
      BY <1>2, <2>0, <2>1, <2>4, <2>6, <2>9
    <2> QED  BY <2>8, <2>9
  <1> QED  BY <1>3, <1>4, <1>5

LEMMA AccountWrapperStep ==
  ASSUME CloseInv, FlowInv, FlowInv', OpenSinkAccounts,
         NEW w \in Wrappers, WrapperStep(w)
  PROVE  OpenSinkAccounts'
  <1> USE DEF pipeVars, procVars
  <1>0. /\ UNCHANGED <<owner, dropped, offered, writer>>
        /\ \A v \in Wrappers : InHand(v)' = InHand(v)
        /\ \A v \in Wrappers : ~Closed(v)' => ~Closed(v)
    <2>1. UNCHANGED <<owner, dropped, offered, writer>>
      BY DEF WrapperStep, CloseChannel, CloseSink, LoopReceive, LoopExit,
         WriteSucceeds, Retry, WriteFails, Drain, DrainEnd
    <2>2. \A v \in Wrappers : ~Closed(v)' => ~Closed(v)
      BY DEF WrapperStep, CloseChannel, CloseSink, LoopReceive, LoopExit,
         WriteSucceeds, Retry, WriteFails, Drain, DrainEnd, MarkClosed, Closed,
         CloseInv, CloseTypeOK
    <2> QED  BY <2>1, <2>2 DEF InHand
  <1> SUFFICES ASSUME NEW v \in Wrappers, ~Closed(v)'
               PROVE  Count(written'[v]) + Count(ch'[v]) + InLoop(v)'
                        = Count(written[v]) + Count(ch[v]) + InLoop(v)
    BY <1>0, AccountSame
  <1>1. /\ ch[v] \in Seq(Nat) /\ written[v] \in Seq(Nat)
        /\ Count(ch[v]) \in Nat /\ Count(written[v]) \in Nat
    BY CountFacts DEF FlowInv, FlowTypeOK
  <1>2. CASE v # w
    <2>1. ch'[v] = ch[v] /\ written'[v] = written[v] /\ loop'[v] = loop[v]
      BY <1>2 DEF WrapperStep, CloseChannel, CloseSink, LoopReceive, LoopExit,
         WriteSucceeds, Retry, WriteFails, Drain, DrainEnd, FlowInv, FlowTypeOK
    <2> QED  BY <2>1 DEF InLoop
  <1>3. CASE v = w
    <2> USE <1>3
    <2>1. CASE CloseChannel(w) \/ CloseSink(w)
      BY <2>1 DEF CloseChannel, CloseSink, InLoop
    <2>2. CASE LoopReceive(w)
      <3>1. /\ loop'[w].pc = "writing" /\ loop[w].pc # "writing"
            /\ ch'[w] = Tail(ch[w]) /\ Count(Tail(ch[w])) = Count(ch[w]) - 1
            /\ UNCHANGED written
        BY <1>1, <2>2, CountFacts DEF LoopReceive, AtSelect, FlowInv, FlowTypeOK
      <3> QED  BY <1>1, <3>1 DEF InLoop
    <2>3. CASE LoopExit(w)
      <3>1. /\ loop'[w].pc = "ended" /\ loop[w].pc # "writing"
            /\ UNCHANGED <<ch, written>>
        BY <2>3 DEF LoopExit, AtSelect, FlowInv, FlowTypeOK, LoopType
      <3> QED  BY <3>1 DEF InLoop
    <2>4. CASE WriteSucceeds(w)
      <3>1. /\ loop'[w].pc = "idle" /\ loop[w].pc = "writing"
            /\ written'[w] = Append(written[w], loop[w].frame)
            /\ UNCHANGED ch
        BY <2>4 DEF WriteSucceeds, IdleLoop, FlowInv, FlowTypeOK
      <3>2. Count(Append(written[w], loop[w].frame)) = Count(written[w]) + 1
        BY <1>1, CountFacts DEF FlowInv, FlowTypeOK, LoopType
      <3> QED  BY <1>1, <3>1, <3>2 DEF InLoop
    <2>5. CASE Retry(w)
      <3>1. loop'[w].pc = loop[w].pc /\ UNCHANGED <<ch, written>>
        BY <2>5 DEF Retry, FlowInv, FlowTypeOK, LoopType
      <3> QED  BY <3>1 DEF InLoop
    <2>6. CASE WriteFails(w)
      BY <2>6, <1>0 DEF WriteFails, MarkClosed, Closed, CloseInv, CloseTypeOK
    <2>7. CASE Drain(w)
      BY <2>7, <1>0 DEF Drain, FlowInv, OnlyClosedDrain
    <2>8. CASE DrainEnd(w)
      BY <2>8 DEF DrainEnd, InLoop
    <2> QED  BY <2>1, <2>2, <2>3, <2>4, <2>5, <2>6, <2>7, <2>8 DEF WrapperStep
  <1> QED  BY <1>2, <1>3

LEMMA AccountCallerStep ==
  ASSUME CloseInv, FlowInv, FlowInv', OpenSinkAccounts,
         NEW c \in Callers, CallerBegin(c) \/ CallerStep(c)
  PROVE  OpenSinkAccounts'
  <1>1. /\ UNCHANGED <<ch, offered, written, dropped, writer>>
        /\ \A w \in Wrappers : Closed(w) => Closed(w)'
    BY CallerCases
  <1>2. \A w \in Wrappers : InLoop(w)' = InLoop(w)
    <2>1. CASE UNCHANGED loop
      BY <2>1 DEF InLoop
    <2>2. ASSUME NEW w \in Wrappers, owner[w] = None,
                 loop' = [loop EXCEPT ![w] = IdleLoop]
          PROVE  \A v \in Wrappers : InLoop(v)' = InLoop(v)
      BY <2>2 DEF InLoop, IdleLoop, FlowInv, FlowTypeOK, FreshAreIdle
    <2> QED  BY <2>1, <2>2, CallerCases
  <1>3. \A w \in Wrappers : InHand(w)' = InHand(w)
    BY <1>1 DEF InHand
  <1> QED  BY <1>1, <1>2, <1>3, AccountSame

LEMMA AccountNext ==
  CloseInv /\ FlowInv /\ FlowInv' /\ OpenSinkAccounts /\ [Next]_vars => OpenSinkAccounts'
  <1> SUFFICES ASSUME CloseInv, FlowInv, FlowInv', OpenSinkAccounts, [Next]_vars
               PROVE  OpenSinkAccounts'
    OBVIOUS
  <1>1. CASE UNCHANGED vars
    BY <1>1 DEF vars, sinkVars, procVars, OpenSinkAccounts, Closed
  <1> QED  BY <1>1, AccountWriterStep, AccountWrapperStep, AccountCallerStep DEF Next

LEMMA AccountInit == Init => OpenSinkAccounts
  <1> SUFFICES ASSUME Init PROVE OpenSinkAccounts
    OBVIOUS
  <1>1. \A w \in Wrappers : {a \in Writers : writer[a].w = w} = {}
    BY PipelineAssumption DEF Init, IdleWriter
  <1>2. Cardinality({}) = 0
    BY FS_EmptySet
  <1>3. \A w \in Wrappers : Count(written[w]) = 0 /\ Count(ch[w]) = 0
    BY DEF Init, Count
  <1>4. \A w \in Wrappers : InLoop(w) = 0 /\ dropped[w] = 0 /\ offered[w] = 0
    BY DEF Init, InLoop, IdleLoop
  <1> QED  BY <1>1, <1>2, <1>3, <1>4, AccountIs DEF InHand

\* An open sink loses nothing silently: every frame that found it open was
\* written or counted as dropped, or is still on its way, for any number of
\* writers, any buffer size and any failures of the sink (pipeline.go,
\* tryWrite, loop and processFrame).
THEOREM OpenSinkAccountsCorrect == Spec => []OpenSinkAccounts
  <1> QED  BY CloseInit, CloseNext, FlowInit, FlowNext, AccountInit, AccountNext,
              PTL DEF Spec

-----------------------------------------------------------------------------
(* The order of the frames of a sink, for a single writer.  OrderInv keeps  *)
(* the frames of a wrapper in order on their whole way: written, in the     *)
(* loop's hand, in the channel, in the writer's hand.                       *)

Increasing(s) == \A i, j \in DOMAIN s : i < j => s[i] < s[j]
Below(s, n) == \A i \in DOMAIN s : s[i] < n
Above(s, n) == \A i \in DOMAIN s : n < s[i]

Writing(w) == loop[w].pc = "writing"

\* Every frame that got to wrapper w is below n.
AllBelow(w, n) ==
  /\ Below(written[w], n) /\ Below(ch[w], n)
  /\ Writing(w) => loop[w].frame < n

WayInOrder(w) ==
  /\ Increasing(written[w]) /\ Increasing(ch[w])
  /\ \A j \in DOMAIN ch[w] : Below(written[w], ch[w][j])
  /\ Writing(w) => Below(written[w], loop[w].frame) /\ Above(ch[w], loop[w].frame)

\* The frame of writer a may still be sent to w.
Pending(a, w) ==
  writer[a].pc = "snap" \/ w \in writer[a].todo \/ writer[a].w = w

OrderInv ==
  /\ \A w \in Wrappers : WayInOrder(w) /\ AllBelow(w, nframes + 1)
  /\ \A a \in Writers, w \in Wrappers :
       Pending(a, w) => AllBelow(w, writer[a].frame) /\ writer[a].frame <= nframes

SingleWriter == \A a, b \in Writers : a = b

LEMMA TailFacts ==
  ASSUME NEW s \in Seq(Nat), s # <<>>
  PROVE  /\ Tail(s) \in Seq(Nat) /\ Head(s) \in Nat
         /\ Increasing(s) => Increasing(Tail(s)) /\ Above(Tail(s), Head(s))
         /\ \A n : Below(s, n) => Below(Tail(s), n) /\ Head(s) < n
         /\ \A n : Above(s, n) => Above(Tail(s), n) /\ n < Head(s)
         /\ \A j \in DOMAIN Tail(s) : \E i \in DOMAIN s : Tail(s)[j] = s[i]
         /\ \E i \in DOMAIN s : Head(s) = s[i]
  <1>1. /\ Tail(s) \in Seq(Nat) /\ Head(s) = s[1] /\ 1 \in DOMAIN s
        /\ DOMAIN s = 1 .. Len(s) /\ DOMAIN Tail(s) = 1 .. Len(s) - 1
        /\ Len(s) \in Nat
        /\ \A i \in 1 .. Len(s) - 1 : Tail(s)[i] = s[i + 1]
    OBVIOUS
  <1>2. \A i \in DOMAIN Tail(s) : i \in Nat /\ i + 1 \in DOMAIN s /\ Tail(s)[i] = s[i + 1] /\ 1 < i + 1
    BY <1>1
  <1>3. Head(s) \in Nat
    OBVIOUS
  <1>4. Increasing(s) => Increasing(Tail(s)) /\ Above(Tail(s), Head(s))
    BY <1>1, <1>2, SMTT(30) DEF Increasing, Above
  <1>5. \A n : Below(s, n) => Below(Tail(s), n) /\ Head(s) < n
    BY <1>1, <1>2 DEF Below
  <1>6. \A n : Above(s, n) => Above(Tail(s), n) /\ n < Head(s)
    BY <1>1, <1>2 DEF Above
  <1> QED  BY <1>1, <1>2, <1>3, <1>4, <1>5, <1>6

LEMMA AppendFacts ==
  ASSUME NEW s \in Seq(Nat), NEW e \in Nat
  PROVE  /\ Append(s, e) \in Seq(Nat)
         /\ Increasing(s) /\ Below(s, e) => Increasing(Append(s, e))
         /\ \A n : Below(s, n) /\ e < n => Below(Append(s, e), n)
         /\ \A n : Above(s, n) /\ n < e => Above(Append(s, e), n)
         /\ \A j \in DOMAIN Append(s, e) :
              Append(s, e)[j] = e \/ \E i \in DOMAIN s : Append(s, e)[j] = s[i]
  <1>1. /\ Append(s, e) \in Seq(Nat) /\ Len(s) \in Nat
        /\ DOMAIN s = 1 .. Len(s) /\ DOMAIN Append(s, e) = 1 .. Len(s) + 1
        /\ \A i \in 1 .. Len(s) : Append(s, e)[i] = s[i]
        /\ Append(s, e)[Len(s) + 1] = e
    OBVIOUS
  <1>2. \A i \in DOMAIN Append(s, e) :
          \/ i \in DOMAIN s /\ Append(s, e)[i] = s[i]
          \/ i = Len(s) + 1 /\ Append(s, e)[i] = e
    BY <1>1
  <1>3. Increasing(s) /\ Below(s, e) => Increasing(Append(s, e))
    BY <1>1, <1>2 DEF Increasing, Below
  <1>4. \A n : Below(s, n) /\ e < n => Below(Append(s, e), n)
    BY <1>2 DEF Below
  <1>5. \A n : Above(s, n) /\ n < e => Above(Append(s, e), n)
    BY <1>2 DEF Above
  <1> QED  BY <1>1, <1>2, <1>3, <1>4, <1>5

LEMMA OrderInit == Init => OrderInv
  BY PipelineAssumption
     DEF Init, OrderInv, WayInOrder, AllBelow, Increasing, Below, Above,
         Writing, Pending, IdleLoop, IdleWriter

\* What a step of wrapper w does to the way of its frames.
LEMMA OrderOwnStep ==
  ASSUME FlowInv, NEW w \in Wrappers, WayInOrder(w), WrapperStep(w)
  PROVE  WayInOrder(w)' /\ \A n \in Nat : AllBelow(w, n) => AllBelow(w, n)'
  <1> USE DEF WayInOrder, AllBelow, Writing
  <1>0. /\ ch[w] \in Seq(Nat) /\ written[w] \in Seq(Nat) /\ loop[w].frame \in Nat
        /\ loop[w] \in LoopType
    BY DEF FlowInv, FlowTypeOK, LoopType
  <1>1. CASE UNCHANGED <<ch, written>> /\ (Writing(w)' => Writing(w) /\ loop'[w].frame = loop[w].frame)
    BY <1>1
  <1>2. CASE CloseChannel(w) \/ CloseSink(w) \/ DrainEnd(w)
    BY <1>1, <1>2 DEF CloseChannel, CloseSink, DrainEnd
  <1>3. CASE LoopExit(w) \/ WriteFails(w) \/ Retry(w)
    <2>1. UNCHANGED <<ch, written>>
      BY <1>3 DEF LoopExit, WriteFails, Retry
    <2>2. Writing(w)' => Writing(w) /\ loop'[w].frame = loop[w].frame
      BY <1>0, <1>3 DEF LoopExit, WriteFails, Retry, IdleLoop, FlowInv, FlowTypeOK, LoopType
    <2> QED  BY <1>1, <2>1, <2>2
  <1>4. CASE LoopReceive(w)
    <2>1. /\ ch[w] # <<>> /\ ~Writing(w)
          /\ ch'[w] = Tail(ch[w]) /\ written'[w] = written[w]
          /\ loop'[w].pc = "writing" /\ loop'[w].frame = Head(ch[w])
      BY <1>4 DEF LoopReceive, AtSelect, FlowInv, FlowTypeOK
    <2>2. /\ Increasing(Tail(ch[w])) /\ Above(Tail(ch[w]), Head(ch[w]))
          /\ \A n : Below(ch[w], n) => Below(Tail(ch[w]), n) /\ Head(ch[w]) < n
          /\ \A j \in DOMAIN Tail(ch[w]) : \E i \in DOMAIN ch[w] : Tail(ch[w])[j] = ch[w][i]
          /\ \E i \in DOMAIN ch[w] : Head(ch[w]) = ch[w][i]
      BY <1>0, <2>1, TailFacts
    <2>3. /\ \A j \in DOMAIN Tail(ch[w]) : Below(written[w], Tail(ch[w])[j])
          /\ Below(written[w], Head(ch[w]))
      BY <2>2
    <2> QED  BY <2>1, <2>2, <2>3
  <1>5. CASE WriteSucceeds(w)
    <2>1. /\ Writing(w) /\ ~Writing(w)' /\ ch'[w] = ch[w]
          /\ written'[w] = Append(written[w], loop[w].frame)
      BY <1>5 DEF WriteSucceeds, IdleLoop, FlowInv, FlowTypeOK
    <2>2. /\ Increasing(Append(written[w], loop[w].frame))
          /\ \A n : Below(written[w], n) /\ loop[w].frame < n
                      => Below(Append(written[w], loop[w].frame), n)
      BY <1>0, <2>1, AppendFacts
    <2>3. \A j \in DOMAIN ch[w] : Below(Append(written[w], loop[w].frame), ch[w][j])
      BY <2>1, <2>2 DEF Above
    <2> QED  BY <2>1, <2>2, <2>3
  <1>6. CASE Drain(w)
    <2>1. /\ ch[w] # <<>> /\ ch'[w] = Tail(ch[w]) /\ UNCHANGED <<written, loop>>
      BY <1>6 DEF Drain, FlowInv, FlowTypeOK
    <2>2. /\ Increasing(Tail(ch[w]))
          /\ \A n : Below(ch[w], n) => Below(Tail(ch[w]), n)
          /\ \A n : Above(ch[w], n) => Above(Tail(ch[w]), n)
          /\ \A j \in DOMAIN Tail(ch[w]) : \E i \in DOMAIN ch[w] : Tail(ch[w])[j] = ch[w][i]
      BY <1>0, <2>1, TailFacts
    <2>3. \A j \in DOMAIN Tail(ch[w]) : Below(written[w], Tail(ch[w])[j])
      BY <2>2
    <2> QED  BY <2>1, <2>2, <2>3
  <1> QED  BY <1>2, <1>3, <1>4, <1>5, <1>6 DEF WrapperStep

LEMMA OrderWrapperStep ==
  ASSUME FlowInv, OrderInv, NEW w \in Wrappers, WrapperStep(w) PROVE OrderInv'
  <1>1. UNCHANGED <<writer, nframes>>
    BY DEF WrapperStep, CloseChannel, CloseSink, LoopReceive, LoopExit,
       WriteSucceeds, Retry, WriteFails, Drain, DrainEnd, procVars
  <1>2. ASSUME NEW v \in Wrappers, v # w
        PROVE  WayInOrder(v)' /\ \A n \in Nat : AllBelow(v, n) => AllBelow(v, n)'
    <2>1. ch'[v] = ch[v] /\ written'[v] = written[v] /\ loop'[v] = loop[v]
      BY <1>2 DEF WrapperStep, CloseChannel, CloseSink, LoopReceive, LoopExit,
         WriteSucceeds, Retry, WriteFails, Drain, DrainEnd, FlowInv, FlowTypeOK
    <2>2. WayInOrder(v)
      BY DEF OrderInv
    <2> QED  BY <2>1, <2>2 DEF WayInOrder, AllBelow, Writing
  <1>3. \A v \in Wrappers : WayInOrder(v)' /\ \A n \in Nat : AllBelow(v, n) => AllBelow(v, n)'
    BY <1>2, OrderOwnStep DEF OrderInv
  <1>4. nframes + 1 \in Nat /\ \A a \in Writers : writer[a].frame \in Nat
    BY DEF FlowInv, FlowTypeOK, WriterType
  <1> QED  BY <1>1, <1>3, <1>4 DEF OrderInv, Pending

LEMMA OrderCallerStep ==
  ASSUME CloseInv, FlowInv, OrderInv, NEW c \in Callers, CallerBegin(c) \/ CallerStep(c)
  PROVE  OrderInv'
  <1>1. UNCHANGED <<ch, written, nframes, writer>>
    BY CallerCases
  <1>2. \A w \in Wrappers : Writing(w)' => Writing(w) /\ loop'[w] = loop[w]
    <2>1. CASE UNCHANGED loop
      BY <2>1 DEF Writing
    <2>2. ASSUME NEW w \in Wrappers, loop' = [loop EXCEPT ![w] = IdleLoop]
          PROVE  \A v \in Wrappers : Writing(v)' => Writing(v) /\ loop'[v] = loop[v]
      BY <2>2 DEF Writing, IdleLoop, FlowInv, FlowTypeOK
    <2> QED  BY <2>1, <2>2, CallerCases
  <1> QED  BY <1>1, <1>2 DEF OrderInv, WayInOrder, AllBelow, Pending

LEMMA OrderWriterStep ==
  ASSUME SingleWriter, CloseInv, FlowInv, OrderInv,
         NEW a \in Writers, WriterStep(a)
  PROVE  OrderInv'
  <1>0. PICK r \in WriterType :
           /\ writer' = [writer EXCEPT ![a] = r]
           /\ UNCHANGED <<owner, stage, loop, drainer, written>>
           /\ Looks(a, r) \/ Hands(a, r) \/ Sends(a, r)
    BY WriterCases
  <1>1. /\ writer'[a] = r /\ writer[a] \in WriterType
        /\ \A b \in Writers : b = a
        /\ writer[a].w \notin writer[a].todo
        /\ nframes \in Nat /\ writer[a].frame \in Nat /\ r.frame \in Nat
        /\ writer[a].todo \subseteq Wrappers
    BY <1>0 DEF FlowInv, FlowTypeOK, SingleWriter, WriterHand, WriterType
  <1>2. \A w \in Wrappers :
          /\ ch[w] \in Seq(Nat) /\ written[w] \in Seq(Nat)
          /\ Writing(w)' <=> Writing(w)
          /\ loop'[w].frame = loop[w].frame /\ written'[w] = written[w]
          /\ loop[w].frame \in Nat
    BY <1>0 DEF FlowInv, FlowTypeOK, Writing, LoopType
  <1>3. ASSUME UNCHANGED ch, nframes' = nframes \/ nframes' = nframes + 1,
               \A w \in Wrappers : Pending(a, w)' =>
                 AllBelow(w, r.frame) /\ r.frame <= nframes'
        PROVE  OrderInv'
    <2>1. ASSUME NEW w \in Wrappers
          PROVE  WayInOrder(w)' /\ \A n \in Nat : AllBelow(w, n) => AllBelow(w, n)'
      BY <1>2, <1>3, <2>1 DEF OrderInv, WayInOrder, AllBelow
    <2>2. ASSUME NEW w \in Wrappers PROVE AllBelow(w, nframes + 2)
      <3>1. AllBelow(w, nframes + 1)
        BY DEF OrderInv
      <3>2. /\ \A i \in DOMAIN ch[w] : ch[w][i] \in Nat
            /\ \A i \in DOMAIN written[w] : written[w][i] \in Nat
        BY <1>2
      <3> QED  BY <1>1, <1>2, <3>1, <3>2 DEF AllBelow, Below
    <2>3. \A w \in Wrappers : AllBelow(w, nframes + 1)'
      <3>1. nframes' + 1 \in Nat /\ (nframes' + 1 = nframes + 1 \/ nframes' + 1 = nframes + 2)
        BY <1>1, <1>3
      <3>2. \A w \in Wrappers : AllBelow(w, nframes' + 1)
        BY <2>2, <3>1 DEF OrderInv
      <3> QED  BY <2>1, <3>1, <3>2
    <2>4. \A b \in Writers, w \in Wrappers :
            Pending(b, w)' => AllBelow(w, writer[b].frame)' /\ (writer[b].frame <= nframes)'
      BY <1>1, <1>3, <2>1
    <2> QED  BY <2>1, <2>3, <2>4 DEF OrderInv
  <1>4. CASE Looks(a, r)
    <2>1. UNCHANGED ch /\ (nframes' = nframes \/ nframes' = nframes + 1)
      BY <1>4 DEF Looks
    <2>2. ASSUME NEW w \in Wrappers, Pending(a, w)'
          PROVE  AllBelow(w, r.frame) /\ r.frame <= nframes'
      <3>1. r.w # w /\ (r.pc = "snap" \/ w \in r.todo)
        BY <1>1, <1>4, <2>2, PipelineAssumption DEF Looks, Pending
      <3> QED  BY <1>1, <1>4, <3>1 DEF Looks, Pending, OrderInv
    <2> QED  BY <1>3, <2>1, <2>2
  <1>5. CASE Hands(a, r)
    <2>1. UNCHANGED <<ch, nframes>>
      BY <1>5 DEF Hands
    <2>2. ASSUME NEW w \in Wrappers, Pending(a, w)'
          PROVE  AllBelow(w, r.frame) /\ r.frame <= nframes'
      <3>1. Pending(a, w) /\ r.frame = writer[a].frame
        BY <1>1, <1>5, <2>2 DEF Hands, Pending
      <3> QED  BY <2>1, <3>1 DEF OrderInv
    <2> QED  BY <1>3, <2>1, <2>2
  <1>6. CASE Sends(a, r)
    <2>0. PICK w \in Wrappers :
            /\ writer[a].w = w /\ r.w = None /\ r.pc \in {"idle", "each"}
            /\ r.todo = writer[a].todo
            /\ r.todo # {} => r.frame = writer[a].frame
            /\ UNCHANGED ch \/ ch' = [ch EXCEPT ![w] = Append(@, writer[a].frame)]
            /\ UNCHANGED nframes
      BY <1>6 DEF Sends
    <2>1. ASSUME NEW v \in Wrappers, Pending(a, v)'
          PROVE  v # w /\ AllBelow(v, r.frame) /\ r.frame <= nframes'
      <3>1. v \in writer[a].todo
        BY <1>1, <2>0, <2>1, PipelineAssumption DEF Pending
      <3>2. Pending(a, v) /\ r.frame = writer[a].frame /\ v # w
        BY <1>1, <2>0, <3>1 DEF Pending
      <3> QED  BY <2>0, <3>2 DEF OrderInv
    <2>2. CASE UNCHANGED ch
      BY <1>3, <2>0, <2>1, <2>2
    <2>3. CASE ch' = [ch EXCEPT ![w] = Append(@, writer[a].frame)]
      <3>1. /\ ch'[w] = Append(ch[w], writer[a].frame)
            /\ \A v \in Wrappers : v # w => ch'[v] = ch[v]
        BY <2>3 DEF FlowInv, FlowTypeOK
      <3>2. AllBelow(w, writer[a].frame) /\ writer[a].frame < nframes + 1
        BY <1>1, <2>0 DEF OrderInv, Pending
      <3>3. ASSUME NEW v \in Wrappers, v # w
            PROVE  WayInOrder(v)' /\ \A n \in Nat : AllBelow(v, n) => AllBelow(v, n)'
        BY <1>2, <3>1, <3>3 DEF OrderInv, WayInOrder, AllBelow
      <3>4. /\ Increasing(Append(ch[w], writer[a].frame))
            /\ \A n : Below(ch[w], n) /\ writer[a].frame < n
                        => Below(Append(ch[w], writer[a].frame), n)
            /\ \A n : Above(ch[w], n) /\ n < writer[a].frame
                        => Above(Append(ch[w], writer[a].frame), n)
            /\ \A j \in DOMAIN Append(ch[w], writer[a].frame) :
                 \/ Append(ch[w], writer[a].frame)[j] = writer[a].frame
                 \/ \E i \in DOMAIN ch[w] : Append(ch[w], writer[a].frame)[j] = ch[w][i]
        BY <1>1, <1>2, <3>2, AppendFacts DEF OrderInv, WayInOrder, AllBelow
      <3>5. WayInOrder(w)'
        <4>1. \A j \in DOMAIN Append(ch[w], writer[a].frame) :
                Below(written[w], Append(ch[w], writer[a].frame)[j])
          BY <3>2, <3>4 DEF OrderInv, WayInOrder, AllBelow
        <4> QED  BY <1>2, <3>1, <3>2, <3>4, <4>1 DEF OrderInv, WayInOrder, AllBelow
      <3>6. AllBelow(w, nframes + 1)'
        BY <1>2, <2>0, <3>1, <3>2, <3>4 DEF OrderInv, AllBelow
      <3>7. \A v \in Wrappers : WayInOrder(v)' /\ AllBelow(v, nframes + 1)'
        <4>1. nframes + 1 \in Nat
          BY <1>1
        <4> QED  BY <2>0, <3>3, <3>5, <3>6, <4>1 DEF OrderInv
      <3>8. \A b \in Writers, v \in Wrappers :
              Pending(b, v)' => AllBelow(v, writer[b].frame)' /\ (writer[b].frame <= nframes)'
        BY <1>1, <2>1, <3>3
      <3> QED  BY <3>7, <3>8 DEF OrderInv
    <2> QED  BY <2>0, <2>2, <2>3
  <1> QED  BY <1>0, <1>4, <1>5, <1>6

LEMMA OrderNext ==
  ASSUME SingleWriter
  PROVE  CloseInv /\ FlowInv /\ OrderInv /\ [Next]_vars => OrderInv'
  <1> SUFFICES ASSUME CloseInv, FlowInv, OrderInv, [Next]_vars PROVE OrderInv'
    OBVIOUS
  <1>1. CASE UNCHANGED vars
    <2>1. UNCHANGED <<ch, written, loop, nframes, writer>>
      BY <1>1 DEF vars, sinkVars, procVars
    <2> QED  BY <2>1 DEF OrderInv, WayInOrder, AllBelow, Writing, Pending
  <1> QED  BY <1>1, OrderWriterStep, OrderWrapperStep, OrderCallerStep DEF Next

\* With one goroutine calling WriteFrame, every sink is given its frames in
\* the order in which they were offered and none twice, whatever is dropped,
\* retried or drained and however sinks are added and closed meanwhile
\* (pipeline.go, WriteFrame, loop and processFrame).
THEOREM SinkOrderCorrect == ASSUME SingleWriter PROVE Spec => []SinkOrder
  <1>1. OrderInv => SinkOrder
    BY DEF OrderInv, WayInOrder, Increasing, SinkOrder
  <1>2. CloseInv /\ FlowInv /\ OrderInv /\ [Next]_vars => OrderInv'
    BY OrderNext
  <1> QED  BY <1>1, <1>2, CloseInit, CloseNext, FlowInit, FlowNext, OrderInit,
              PTL DEF Spec
=============================================================================
