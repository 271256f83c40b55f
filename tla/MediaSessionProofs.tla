------------------------- MODULE MediaSessionProofs -------------------------
(***************************************************************************)
(* Proofs about the Go media session, for any number of transports,         *)
(* senders and drainers and any queue size.                                 *)
(*                                                                         *)
(* Part 1: types, and what a step of trySendPacket does to the queues.      *)
(* Part 2: ShutdownReleases.                                                *)
(* Part 3: DrainLeavesOne and SpeechIsComplete, when a single goroutine     *)
(*         calls SendToOutput, as the voice pipeline does.                  *)
(***************************************************************************)
EXTENDS MediaSession, TLAPS

-----------------------------------------------------------------------------
(* Sequences                                                               *)

\* The tail of a sequence that is not empty.
LEMMA TailFacts ==
  ASSUME NEW S, NEW s \in Seq(S), s # <<>>
  PROVE  /\ Len(s) \in Nat /\ Len(s) >= 1
         /\ Head(s) = s[1] /\ Head(s) \in S
         /\ Tail(s) \in Seq(S)
         /\ Len(Tail(s)) + 1 = Len(s)
         /\ \A i \in 1 .. Len(Tail(s)) : Tail(s)[i] = s[i + 1]
  OBVIOUS

\* A sequence of length zero is the empty one.
LEMMA LengthZero ==
  ASSUME NEW S, NEW s \in Seq(S), Len(s) = 0
  PROVE  s = <<>>
  OBVIOUS

\* What a sequence holds, its head and its tail.
LEMMA TailRange ==
  ASSUME NEW S, NEW s \in Seq(S), s # <<>>
  PROVE  /\ Head(s) \in Range(s)
         /\ Range(s) = {Head(s)} \cup Range(Tail(s))
<1>1. DOMAIN s = 1 .. Len(s) /\ DOMAIN Tail(s) = 1 .. Len(Tail(s))
  BY TailFacts
<1>2. Head(s) \in Range(s)
  BY <1>1, TailFacts DEF Range
<1>3. ASSUME NEW a \in Range(s) PROVE a \in {Head(s)} \cup Range(Tail(s))
  <2>0. PICK i \in 1 .. Len(s) : a = s[i]
    BY <1>1 DEF Range
  <2>1. CASE i = 1
    BY <2>0, <2>1, TailFacts
  <2>2. CASE i # 1
    <3>1. i - 1 \in 1 .. Len(Tail(s)) /\ Tail(s)[i - 1] = a
      BY <2>0, <2>2, TailFacts
    <3> QED BY <3>1, <1>1 DEF Range
  <2> QED BY <2>1, <2>2
<1>4. ASSUME NEW a \in Range(Tail(s)) PROVE a \in Range(s)
  <2>0. PICK i \in 1 .. Len(Tail(s)) : a = Tail(s)[i]
    BY <1>1 DEF Range
  <2>1. i + 1 \in 1 .. Len(s) /\ s[i + 1] = a
    BY <2>0, TailFacts
  <2> QED BY <2>1, <1>1 DEF Range
<1> QED BY <1>2, <1>3, <1>4

\* The managers in registration order are all the managers.
LEMMA AllManagers ==
  /\ Inputs \o Outputs \in Seq(Managers)
  /\ Range(Inputs \o Outputs) = Managers
  /\ Outputs \in Seq(OutputSet)
  /\ Range(Outputs) = OutputSet
<1> USE SessionAssumption
<1>1. Inputs \in Seq(Managers) /\ Outputs \in Seq(Managers)
  BY DEF Managers
<1>2. Inputs \o Outputs \in Seq(Managers)
  BY <1>1
<1>3. Range(Inputs \o Outputs) \subseteq Managers
  BY <1>2 DEF Range
<1>4. ASSUME NEW m \in InputSet PROVE m \in Range(Inputs \o Outputs)
  <2>0. PICK i \in DOMAIN Inputs : m = Inputs[i]
    BY DEF InputSet, Range
  <2>1. i \in DOMAIN (Inputs \o Outputs) /\ (Inputs \o Outputs)[i] = m
    BY <2>0, <1>1
  <2> QED BY <2>1 DEF Range
<1>5. ASSUME NEW m \in OutputSet PROVE m \in Range(Inputs \o Outputs)
  <2>0. PICK i \in DOMAIN Outputs : m = Outputs[i]
    BY DEF OutputSet, Range
  <2>1. /\ Len(Inputs) + i \in DOMAIN (Inputs \o Outputs)
        /\ (Inputs \o Outputs)[Len(Inputs) + i] = m
    BY <2>0, <1>1
  <2> QED BY <2>1 DEF Range
<1> QED BY <1>2, <1>3, <1>4, <1>5 DEF Managers, OutputSet

-----------------------------------------------------------------------------
(* Part 1: types                                                           *)

Loops == [pc : {"none", "spawned", "ready", "io", "hand", "ended"},
          pkt : Packet \cup {NoPacket}]

Emits == [pkt : Packet \cup {NoPacket}, todo : Seq(OutputSet), blocked : BOOLEAN]

ControlTypeOK ==
  /\ cancelled \in BOOLEAN
  /\ serve \in [pc : {"new", "serving", "cleaning", "done"}, todo : Seq(Managers)]
  /\ transport \in [Managers -> {"open", "closed", "nil"}]
  /\ loop \in [Managers -> Loops]

DataTypeOK ==
  /\ q \in [OutputSet -> Seq(Packet)]
  /\ emit \in [Emitters -> Emits]
  /\ drain \in [Drainers -> Seq(OutputSet)]
  /\ uplink \in Nat /\ speech \in Nat
  /\ queued \in [OutputSet -> Nat]
  /\ taken \in [OutputSet -> Nat]
  /\ floor \in [OutputSet -> Nat]
  /\ stale \in [OutputSet -> Nat]

\* An emitter that still has outputs to go to has a packet for them, speech
\* when it is a sender and uplink when it is an input.
EmitterHasPacket ==
  \A x \in Emitters :
    /\ emit[x].todo # <<>> =>
         /\ emit[x].pkt \in Packet
         /\ emit[x].pkt.kind = (IF x \in Senders THEN "speech" ELSE "uplink")
    /\ emit[x].blocked => emit[x].todo # <<>>

\* An output's loop that is about to send has a packet.
LoopHasPacket ==
  \A o \in OutputSet : loop[o].pc = "hand" => loop[o].pkt \in Packet

SessionTypeOK ==
  ControlTypeOK /\ DataTypeOK /\ EmitterHasPacket /\ LoopHasPacket

\* The emitter goes from e to r: its turn at the first output is over.
Leaves(e, r) ==
  /\ r.todo = Tail(e.todo)
  /\ r.todo # <<>> => r.pkt = e.pkt
  /\ r.blocked = FALSE

\* What trySendPacket of x may do when x goes from e to r: it starts to wait
\* with the mutex held, the packet is queued, or the packet is given up, which
\* happens to speech only once the session is over or the transport gone.
EmitEffect(e, r) ==
  \/ /\ r.todo = e.todo /\ r.pkt = e.pkt
     /\ UNCHANGED <<q, queued>>
  \/ /\ Leaves(e, r)
     /\ Enqueue(Head(e.todo), e.pkt)
  \/ /\ Leaves(e, r)
     /\ UNCHANGED <<q, queued>>
     /\ e.pkt.kind = "uplink" \/ cancelled \/ transport[Head(e.todo)] = "nil"

\* NextOutput is the end of the emitter's turn at an output.
LEMMA NextOutputLeaves ==
  ASSUME SessionTypeOK, NEW x \in Emitters, emit[x].todo # <<>>
  PROVE  NextOutput(x) \in Emits /\ Leaves(emit[x], NextOutput(x))
<1> DEFINE e == emit[x]
<1>0. e \in Emits /\ e.todo \in Seq(OutputSet) /\ e.pkt \in Packet
  BY DEF SessionTypeOK, DataTypeOK, EmitterHasPacket, Emits
<1>1. /\ Tail(e.todo) \in Seq(OutputSet) /\ Len(Tail(e.todo)) + 1 = Len(e.todo)
      /\ Len(e.todo) \in Nat
  BY <1>0, TailFacts
<1>2. CASE Len(e.todo) = 1
  <2>1. NextOutput(x) = NotEmitting
    BY <1>2 DEF NextOutput
  <2>2. Tail(e.todo) = <<>>
    <3>1. Len(Tail(e.todo)) = 0
      BY <1>1, <1>2
    <3> QED BY <3>1, <1>1, LengthZero
  <2>3. <<>> \in Seq(OutputSet)
    OBVIOUS
  <2>4. NotEmitting \in Emits /\ NotEmitting.todo = <<>> /\ NotEmitting.blocked = FALSE
    BY <2>3 DEF NotEmitting, Emits
  <2> QED BY <2>1, <2>2, <2>4 DEF Leaves
<1>3. CASE Len(e.todo) # 1
  <2>1. NextOutput(x) = [e EXCEPT !.todo = Tail(@), !.blocked = FALSE]
    BY <1>3 DEF NextOutput
  <2> HIDE DEF e
  <2>2. [e EXCEPT !.todo = Tail(@), !.blocked = FALSE] \in Emits
    BY <1>0, <1>1 DEF Emits
  <2>3. LET r == [e EXCEPT !.todo = Tail(@), !.blocked = FALSE] IN
        r.todo = Tail(e.todo) /\ r.pkt = e.pkt /\ r.blocked = FALSE
    BY <1>0 DEF Emits
  <2> QED BY <2>1, <2>2, <2>3 DEF e, Leaves
<1> QED BY <1>2, <1>3

\* A step of trySendPacket, as the rest of the session sees it.
LEMMA EmitStepEffect ==
  ASSUME SessionTypeOK, NEW x \in Emitters, EmitStep(x)
  PROVE  /\ emit[x].todo # <<>>
         /\ \E r \in Emits :
              /\ emit' = [emit EXCEPT ![x] = r]
              /\ EmitEffect(emit[x], r)
         /\ UNCHANGED <<cancelled, serve, transport, loop, drain, uplink,
                        speech, taken, floor, stale, timedOut>>
<1> DEFINE e == emit[x]
<1>0. e.todo # <<>>
  BY DEF EmitStep, RouterSkips, TrySendPacket, BlockedSend, SessionTypeOK, EmitterHasPacket
<1>1. UNCHANGED <<cancelled, serve, transport, loop, drain, uplink,
                  speech, taken, floor, stale, timedOut>>
  BY DEF EmitStep, RouterSkips, TrySendPacket, BlockedSend, history
<1>2. NextOutput(x) \in Emits /\ Leaves(e, NextOutput(x))
  BY <1>0, NextOutputLeaves
<1>3. e \in Emits /\ (x \in InputSet => e.pkt.kind = "uplink")
  BY <1>0, SessionAssumption DEF SessionTypeOK, DataTypeOK, EmitterHasPacket, Managers
<1>4. CASE RouterSkips(x)
  <2>1. emit' = [emit EXCEPT ![x] = NextOutput(x)] /\ UNCHANGED <<q, queued>>
        /\ x \in InputSet
    BY <1>4 DEF RouterSkips, history
  <2> QED BY <2>1, <1>0, <1>1, <1>2, <1>3 DEF EmitEffect
<1>5. CASE TrySendPacket(x)
  <2>1. CASE emit' = [emit EXCEPT ![x].blocked = TRUE] /\ UNCHANGED <<q, queued>>
    <3>1. [e EXCEPT !.blocked = TRUE] \in Emits
      BY <1>3 DEF Emits
    <3>2. emit' = [emit EXCEPT ![x] = [e EXCEPT !.blocked = TRUE]]
      BY <2>1
    <3>3. EmitEffect(e, [e EXCEPT !.blocked = TRUE])
      BY <2>1, <1>3 DEF EmitEffect, Emits
    <3> QED BY <3>1, <3>2, <3>3, <1>0, <1>1
  <2>2. CASE /\ emit' = [emit EXCEPT ![x] = NextOutput(x)]
             /\ \/ Enqueue(Head(e.todo), e.pkt)
                \/ /\ UNCHANGED <<q, queued>>
                   /\ e.pkt.kind = "uplink" \/ transport[Head(e.todo)] = "nil"
    BY <2>2, <1>0, <1>1, <1>2 DEF EmitEffect
  <2> QED BY <2>1, <2>2, <1>5 DEF TrySendPacket
<1>6. CASE BlockedSend(x)
  <2>1. /\ emit' = [emit EXCEPT ![x] = NextOutput(x)]
        /\ \/ Enqueue(Head(e.todo), e.pkt)
           \/ cancelled /\ UNCHANGED <<q, queued>>
    BY <1>6 DEF BlockedSend
  <2> QED BY <2>1, <1>0, <1>1, <1>2 DEF EmitEffect
<1> QED BY <1>4, <1>5, <1>6 DEF EmitStep

LEMMA TypeInit == Init => SessionTypeOK
<1> SUFFICES ASSUME Init PROVE SessionTypeOK
  OBVIOUS
<1>1. \A pc \in {"none", "ready"} : Loop(pc) \in Loops
  BY DEF Loop, Loops
<1>2. <<>> \in Seq(Managers) /\ <<>> \in Seq(OutputSet) /\ <<>> \in Seq(Packet)
  OBVIOUS
<1>3. NotEmitting \in Emits /\ NotEmitting.todo = <<>> /\ ~NotEmitting.blocked
  BY <1>2 DEF NotEmitting, Emits
<1>4. ControlTypeOK
  BY <1>1, <1>2 DEF Init, ControlTypeOK
<1>5. DataTypeOK
  BY <1>2, <1>3 DEF Init, DataTypeOK
<1>6. EmitterHasPacket
  BY <1>3 DEF Init, EmitterHasPacket
<1>7. LoopHasPacket
  BY DEF Init, LoopHasPacket, Loop, Managers
<1> QED BY <1>4, <1>5, <1>6, <1>7 DEF SessionTypeOK

\* Serve, Close and the timer touch neither packets nor queues.
LEMMA ServeStepType ==
  ASSUME SessionTypeOK, ServeStep \/ Close \/ SessionTimeout
  PROVE  SessionTypeOK'
<1> USE DEF SessionTypeOK
<1>1. Inputs \o Outputs \in Seq(Managers)
  BY AllManagers
<1>2. Loop("spawned") \in Loops /\ Loop("spawned").pc = "spawned"
  BY DEF Loop, Loops
<1>3. serve.todo \in Seq(Managers) /\ (serve.todo # <<>> => Tail(serve.todo) \in Seq(Managers))
  BY TailFacts DEF ControlTypeOK
<1>4. UNCHANGED <<q, emit, drain, uplink, speech, queued, taken, floor, stale>>
  BY DEF ServeStep, ServeStart, ServeEnd, CleanupLock, CleanupDone, CleanupTimeout,
         ServeDone, Close, SessionTimeout, history
<1>5. cancelled' \in BOOLEAN
  BY DEF ServeStep, ServeStart, ServeEnd, CleanupLock, CleanupDone, CleanupTimeout,
         ServeDone, Close, SessionTimeout, ControlTypeOK
<1>6. loop' \in [Managers -> Loops] /\ LoopHasPacket'
  BY <1>2 DEF ServeStep, ServeStart, ServeEnd, CleanupLock, CleanupDone, CleanupTimeout,
         ServeDone, Close, SessionTimeout, ControlTypeOK, LoopHasPacket, Managers
<1>7. transport' \in [Managers -> {"open", "closed", "nil"}]
  BY DEF ServeStep, ServeStart, ServeEnd, CleanupLock, CleanupDone, CleanupTimeout,
         ServeDone, Close, SessionTimeout, ControlTypeOK
<1>8. serve' \in [pc : {"new", "serving", "cleaning", "done"}, todo : Seq(Managers)]
  <2>1. \/ serve' = serve
        \/ serve' = [serve EXCEPT !.pc = "serving"]
        \/ serve' = [serve EXCEPT !.pc = "done"]
        \/ serve' = [pc |-> "cleaning", todo |-> Inputs \o Outputs]
        \/ serve.todo # <<>> /\ serve' = [serve EXCEPT !.todo = Tail(@)]
    BY DEF ServeStep, ServeStart, ServeEnd, CleanupLock, CleanupDone,
           CleanupTimeout, ServeDone, Close, SessionTimeout
  <2>2. serve \in [pc : {"new", "serving", "cleaning", "done"}, todo : Seq(Managers)]
    BY DEF ControlTypeOK
  <2>3. CASE serve' = [pc |-> "cleaning", todo |-> Inputs \o Outputs]
    BY <1>1, <2>3
  <2>4. CASE serve.todo # <<>> /\ serve' = [serve EXCEPT !.todo = Tail(@)]
    BY <1>3, <2>2, <2>4
  <2> QED BY <2>1, <2>2, <2>3, <2>4
<1> QED BY <1>4, <1>5, <1>6, <1>7, <1>8 DEF ControlTypeOK, DataTypeOK, EmitterHasPacket

LEMMA EmitStepType ==
  ASSUME SessionTypeOK, NEW x \in Emitters, EmitStep(x)
  PROVE  SessionTypeOK'
<1> DEFINE e == emit[x]
<1>0. PICK r \in Emits : emit' = [emit EXCEPT ![x] = r] /\ EmitEffect(e, r)
  BY EmitStepEffect
<1>1. /\ e.todo # <<>> /\ e.pkt \in Packet
      /\ UNCHANGED <<cancelled, serve, transport, loop, drain, uplink,
                     speech, taken, floor, stale, timedOut>>
  BY EmitStepEffect DEF SessionTypeOK, EmitterHasPacket
<1>2. emit \in [Emitters -> Emits] /\ e.todo \in Seq(OutputSet) /\ Head(e.todo) \in OutputSet
  BY <1>1, TailFacts DEF SessionTypeOK, DataTypeOK, Emits
<1>3. emit' \in [Emitters -> Emits] /\ emit'[x] = r
      /\ \A y \in Emitters : y # x => emit'[y] = emit[y]
  BY <1>0, <1>2
<1>4. ASSUME Enqueue(Head(e.todo), e.pkt)
      PROVE  q' \in [OutputSet -> Seq(Packet)] /\ queued' \in [OutputSet -> Nat]
  <2>1. Append(q[Head(e.todo)], e.pkt) \in Seq(Packet)
    BY <1>1, <1>2 DEF SessionTypeOK, DataTypeOK
  <2>2. e.pkt.n \in Nat
    BY <1>1 DEF Packet
  <2> QED BY <1>4, <2>1, <2>2, <1>2 DEF Enqueue, SessionTypeOK, DataTypeOK
<1>5. q' \in [OutputSet -> Seq(Packet)] /\ queued' \in [OutputSet -> Nat]
  BY <1>0, <1>4 DEF EmitEffect, SessionTypeOK, DataTypeOK
<1>6. DataTypeOK'
  BY <1>1, <1>3, <1>5 DEF DataTypeOK, SessionTypeOK
<1>7. /\ r.todo # <<>> => r.pkt = e.pkt
      /\ r.blocked => r.todo # <<>>
  BY <1>0, <1>1 DEF EmitEffect, Leaves
<1>8. EmitterHasPacket'
  BY <1>1, <1>3, <1>7 DEF EmitterHasPacket, SessionTypeOK
<1> QED BY <1>1, <1>6, <1>8 DEF SessionTypeOK, ControlTypeOK, LoopHasPacket

LEMMA CallStepType ==
  ASSUME SessionTypeOK,
         \/ \E x \in Senders : SendToOutput(x)
         \/ \E d \in Drainers : DrainOutputs(d) \/ DrainOne(d)
  PROVE  SessionTypeOK'
<1>0. Outputs \in Seq(OutputSet)
  BY AllManagers
<1>1. ASSUME NEW x \in Senders, SendToOutput(x) PROVE SessionTypeOK'
  <2> DEFINE pkt == [kind |-> "speech", n |-> speech + 1]
             r == [pkt |-> pkt, todo |-> Outputs, blocked |-> FALSE]
  <2>1. /\ emit' = [emit EXCEPT ![x] = r] /\ speech' = speech + 1
        /\ UNCHANGED <<cancelled, serve, transport, loop, q, drain, uplink,
                       queued, taken, floor, stale>>
    BY <1>1 DEF SendToOutput, history
  <2>2. speech \in Nat /\ emit \in [Emitters -> Emits] /\ x \in Emitters
    BY DEF SessionTypeOK, DataTypeOK, Emitters
  <2>3. pkt \in Packet /\ pkt.kind = "speech"
    BY <2>2 DEF Packet
  <2> HIDE DEF pkt
  <2>4. r \in Emits /\ r.pkt = pkt /\ ~r.blocked
    BY <2>3, <1>0 DEF Emits
  <2> HIDE DEF r
  <2>5. emit' \in [Emitters -> Emits] /\ emit'[x] = r
        /\ \A y \in Emitters : y # x => emit'[y] = emit[y]
    BY <2>1, <2>2, <2>4
  <2>6. DataTypeOK'
    BY <2>1, <2>2, <2>5 DEF DataTypeOK, SessionTypeOK
  <2>7. EmitterHasPacket'
    BY <2>3, <2>4, <2>5 DEF EmitterHasPacket, SessionTypeOK
  <2> QED BY <2>1, <2>6, <2>7 DEF SessionTypeOK, ControlTypeOK, LoopHasPacket
<1>2. ASSUME NEW d \in Drainers, DrainOutputs(d) \/ DrainOne(d) PROVE SessionTypeOK'
  <2>1. UNCHANGED <<cancelled, serve, transport, loop, emit, uplink, speech,
                    queued, taken>>
    BY <1>2 DEF DrainOutputs, DrainOne, history
  <2>2. drain' \in [Drainers -> Seq(OutputSet)]
    <3>1. drain[d] # <<>> => Tail(drain[d]) \in Seq(OutputSet)
      BY TailFacts DEF SessionTypeOK, DataTypeOK
    <3> QED BY <1>0, <1>2, <3>1, ZenonT(30) DEF DrainOutputs, DrainOne, SessionTypeOK, DataTypeOK
  <2>3. q' \in [OutputSet -> Seq(Packet)]
    <3>1. <<>> \in Seq(Packet)
      OBVIOUS
    <3>2. q \in [OutputSet -> Seq(Packet)]
      BY DEF SessionTypeOK, DataTypeOK
    <3>3. q' = q \/ \E o : q' = [q EXCEPT ![o] = <<>>]
      BY <1>2 DEF DrainOutputs, DrainOne
    <3> QED BY <3>1, <3>2, <3>3
  <2>4. floor' \in [OutputSet -> Nat] /\ stale' \in [OutputSet -> Nat]
    <3>1. drain[d] # <<>> => Head(drain[d]) \in OutputSet
      BY TailFacts DEF SessionTypeOK, DataTypeOK
    <3>2. /\ floor \in [OutputSet -> Nat] /\ stale \in [OutputSet -> Nat]
          /\ queued \in [OutputSet -> Nat]
      BY DEF SessionTypeOK, DataTypeOK
    <3>3. \/ UNCHANGED <<floor, stale>>
          \/ /\ drain[d] # <<>>
             /\ floor' = [floor EXCEPT ![Head(drain[d])] = queued[Head(drain[d])]]
             /\ stale' = [stale EXCEPT ![Head(drain[d])] = 0]
      BY <1>2 DEF DrainOutputs, DrainOne, history
    <3> QED BY <3>1, <3>2, <3>3, SMTT(30)
  <2> QED BY <2>1, <2>2, <2>3, <2>4
          DEF SessionTypeOK, DataTypeOK, ControlTypeOK, LoopHasPacket, EmitterHasPacket
<1> QED BY <1>1, <1>2

\* The steps of the loops.
LoopsStep ==
  \/ \E m \in InputSet : InputStep(m)
  \/ \E o \in OutputSet : OutputStep(o)

\* A loop writes its own state only; besides, an input starts an emission, an
\* output takes the head of its queue or sends the packet it holds.
LEMMA LoopsStepType ==
  ASSUME SessionTypeOK, LoopsStep
  PROVE  SessionTypeOK'
<1>0. \A pc \in {"ready", "io", "ended"} : Loop(pc) \in Loops /\ Loop(pc).pc = pc
  BY DEF Loop, Loops
<1>1. /\ loop \in [Managers -> Loops] /\ InputSet \subseteq Managers
      /\ OutputSet \subseteq Managers
  BY DEF SessionTypeOK, ControlTypeOK, Managers
<1>2. ASSUME NEW m \in Managers, NEW pc \in {"ready", "io", "ended"},
             loop' = [loop EXCEPT ![m] = Loop(pc)]
      PROVE  loop' \in [Managers -> Loops] /\ LoopHasPacket'
  <2>1. loop' \in [Managers -> Loops]
    BY <1>0, <1>1, <1>2
  <2>2. loop'[m].pc # "hand" /\ \A o \in Managers : o # m => loop'[o] = loop[o]
    BY <1>0, <1>1, <1>2
  <2> QED BY <1>1, <2>1, <2>2 DEF LoopHasPacket, SessionTypeOK
<1>3. ASSUME NEW m \in InputSet, InputPacket(m) PROVE SessionTypeOK'
  <2> DEFINE pkt == [kind |-> "uplink", n |-> uplink + 1]
             r == [pkt |-> pkt, todo |-> Outputs, blocked |-> FALSE]
  <2>1. /\ emit' = emit \/ emit' = [emit EXCEPT ![m] = r]
        /\ uplink' = uplink + 1
        /\ loop' = [loop EXCEPT ![m] = Loop("ready")]
        /\ UNCHANGED <<cancelled, serve, transport, q, drain, speech,
                       queued, taken, floor, stale>>
    BY <1>3 DEF InputPacket, SetLoop, history
  <2>2. uplink \in Nat /\ emit \in [Emitters -> Emits] /\ m \in Emitters /\ m \notin Senders
    BY SessionAssumption DEF SessionTypeOK, DataTypeOK, Emitters, Managers
  <2>3. pkt \in Packet /\ pkt.kind = "uplink"
    BY <2>2 DEF Packet
  <2> HIDE DEF pkt
  <2>4. r \in Emits /\ r.pkt = pkt /\ ~r.blocked
    BY <2>3, AllManagers DEF Emits
  <2> HIDE DEF r
  <2>5. emit' \in [Emitters -> Emits]
        /\ \A y \in Emitters : emit'[y] = emit[y] \/ (y = m /\ emit'[y] = r)
    BY <2>1, <2>2, <2>4
  <2>6. DataTypeOK'
    BY <2>1, <2>2, <2>5 DEF DataTypeOK, SessionTypeOK
  <2>7. EmitterHasPacket'
    BY <2>2, <2>3, <2>4, <2>5 DEF EmitterHasPacket, SessionTypeOK
  <2>8. loop' \in [Managers -> Loops] /\ LoopHasPacket'
    BY <1>1, <1>2, <2>1
  <2> QED BY <2>1, <2>6, <2>7, <2>8 DEF SessionTypeOK, ControlTypeOK
<1>4. ASSUME NEW o \in OutputSet, OutputTake(o) PROVE SessionTypeOK'
  <2>1. /\ q[o] # <<>> /\ loop' = [loop EXCEPT ![o] = [pc |-> "hand", pkt |-> Head(q[o])]]
        /\ q' = [q EXCEPT ![o] = Tail(@)]
        /\ taken' = IF Head(q[o]).kind = "speech"
                    THEN [taken EXCEPT ![o] = Head(q[o]).n] ELSE taken
        /\ UNCHANGED <<cancelled, serve, transport, emit, drain, uplink, speech,
                       queued, floor, stale>>
    BY <1>4 DEF OutputTake, SetLoop
  <2>2. /\ q \in [OutputSet -> Seq(Packet)] /\ taken \in [OutputSet -> Nat]
        /\ o \in Managers
    BY <1>1 DEF SessionTypeOK, DataTypeOK
  <2>3. Head(q[o]) \in Packet /\ Tail(q[o]) \in Seq(Packet) /\ Head(q[o]).n \in Nat
    <3>1. Head(q[o]) \in Packet /\ Tail(q[o]) \in Seq(Packet)
      BY <2>1, <2>2, TailFacts
    <3> QED BY <3>1 DEF Packet
  <2>4. q' \in [OutputSet -> Seq(Packet)] /\ taken' \in [OutputSet -> Nat]
    BY <2>1, <2>2, <2>3
  <2>5. [pc |-> "hand", pkt |-> Head(q[o])] \in Loops
    BY <2>3 DEF Loops
  <2>6. loop' \in [Managers -> Loops] /\ loop'[o].pkt = Head(q[o])
        /\ \A m \in Managers : m # o => loop'[m] = loop[m]
    BY <2>1, <2>2, <2>5, <1>1
  <2>7. LoopHasPacket'
    BY <1>1, <2>3, <2>6 DEF LoopHasPacket, SessionTypeOK
  <2> QED BY <2>1, <2>4, <2>6, <2>7
          DEF SessionTypeOK, ControlTypeOK, DataTypeOK, EmitterHasPacket
<1>5. ASSUME NEW o \in OutputSet, OutputSend(o) PROVE SessionTypeOK'
  <2>1. /\ loop' = [loop EXCEPT ![o] = Loop("io")]
        /\ stale' = stale \/ stale' = [stale EXCEPT ![o] = @ + 1]
        /\ UNCHANGED <<cancelled, serve, transport, q, emit, drain, uplink, speech,
                       queued, taken, floor>>
    BY <1>5 DEF OutputSend, SetLoop
  <2>2. o \in Managers /\ stale' \in [OutputSet -> Nat]
    <3>1. stale \in [OutputSet -> Nat] /\ stale[o] + 1 \in Nat
      BY DEF SessionTypeOK, DataTypeOK
    <3> QED BY <1>1, <2>1, <3>1
  <2>3. loop' \in [Managers -> Loops] /\ LoopHasPacket'
    BY <1>2, <2>1, <2>2
  <2> QED BY <2>1, <2>2, <2>3
          DEF SessionTypeOK, ControlTypeOK, DataTypeOK, EmitterHasPacket
<1>6. ASSUME NEW m \in Managers,
             \/ LoopStart(m) \/ InputNext(m) \/ InputStops(m) \/ OutputCancelled(m)
             \/ OutputSkips(m) \/ OutputStops(m) \/ OutputSent(m)
      PROVE  SessionTypeOK'
  <2>1. /\ \E pc \in {"ready", "io", "ended"} : loop' = [loop EXCEPT ![m] = Loop(pc)]
        /\ UNCHANGED <<cancelled, serve, transport, q, emit, drain, uplink, speech,
                       queued, taken, floor, stale>>
    BY <1>6 DEF LoopStart, InputNext, InputStops, OutputCancelled, OutputSkips,
                OutputStops, OutputSent, SetLoop, history
  <2>2. loop' \in [Managers -> Loops] /\ LoopHasPacket'
    BY <1>2, <2>1
  <2> QED BY <2>1, <2>2
          DEF SessionTypeOK, ControlTypeOK, DataTypeOK, EmitterHasPacket
<1> QED BY <1>1, <1>3, <1>4, <1>5, <1>6 DEF LoopsStep, InputStep, OutputStep

LEMMA TypeStep == SessionTypeOK /\ [Next]_vars => SessionTypeOK'
<1> SUFFICES ASSUME SessionTypeOK, [Next]_vars PROVE SessionTypeOK'
  OBVIOUS
<1>1. CASE UNCHANGED vars
  BY <1>1 DEF vars, SessionTypeOK, ControlTypeOK, DataTypeOK, EmitterHasPacket, LoopHasPacket
<1> QED BY <1>1, ServeStepType, EmitStepType, CallStepType, LoopsStepType DEF Next, LoopsStep

LEMMA TypeCorrect == Spec => []SessionTypeOK
  BY TypeInit, TypeStep, PTL DEF Spec

-----------------------------------------------------------------------------
(* Part 2: the shutdown                                                    *)

\* cleanup is through with the manager m.
CleanedUp(m) ==
  \/ serve.pc = "done"
  \/ serve.pc = "cleaning" /\ m \notin Range(serve.todo)

\* The transports are let go of only after the context was cancelled, and a
\* loop whose manager was cleaned up is not inside its transport and will not
\* enter it again: an input looks at the context before it reads, an output
\* finds its transport gone.
ShutdownInv ==
  /\ serve.pc \in {"cleaning", "done"} => cancelled
  /\ \A m \in Managers : transport[m] = "nil" => serve.pc \in {"cleaning", "done"}
  /\ \A m \in Managers : CleanedUp(m) =>
       /\ transport[m] = "nil"
       /\ m \notin timedOut => loop[m].pc # "io"

LEMMA ShutdownInit == Init => ShutdownInv
  BY DEF Init, ShutdownInv, CleanedUp

\* Serve's own steps: cleanup sets the transport of the first manager to nil
\* after it saw the loop end, or gave up.
LEMMA ServeStepShutdown ==
  ASSUME SessionTypeOK, ShutdownInv, ServeStep \/ Close \/ SessionTimeout
  PROVE  ShutdownInv'
<1>0. /\ serve \in [pc : {"new", "serving", "cleaning", "done"}, todo : Seq(Managers)]
      /\ serve.todo \in Seq(Managers)
      /\ transport \in [Managers -> {"open", "closed", "nil"}]
      /\ loop \in [Managers -> Loops]
  BY DEF SessionTypeOK, ControlTypeOK
<1>1. CASE ServeStart
  <2>1. serve'.pc = "serving" /\ serve.pc = "new" /\ transport' = transport
    BY <1>0, <1>1 DEF ServeStart
  <2> QED BY <2>1 DEF ShutdownInv, CleanedUp
<1>2. CASE ServeEnd
  <2>1. /\ serve'.pc = "cleaning" /\ serve'.todo = Inputs \o Outputs
        /\ cancelled /\ cancelled' = cancelled /\ transport' = transport
    BY <1>2 DEF ServeEnd
  <2>2. \A m \in Managers : ~CleanedUp(m)'
    BY <2>1, AllManagers DEF CleanedUp
  <2> QED BY <2>1, <2>2 DEF ShutdownInv
<1>3. CASE CleanupLock
  <2> DEFINE h == Head(serve.todo)
  <2>1. /\ serve.pc = "cleaning" /\ serve.todo # <<>>
        /\ transport' = [transport EXCEPT ![h] = "closed"]
        /\ UNCHANGED <<serve, cancelled, loop, timedOut>>
    BY <1>3 DEF CleanupLock, history
  <2>2. h \in Range(serve.todo)
    BY <1>0, <2>1, TailRange
  <2>3. ~CleanedUp(h)
    BY <2>1, <2>2 DEF CleanedUp
  <2> QED BY <1>0, <2>1, <2>3 DEF ShutdownInv, CleanedUp
<1>4. CASE CleanupDone \/ CleanupTimeout
  <2> DEFINE h == Head(serve.todo)
  <2>1. /\ serve.pc = "cleaning" /\ serve.todo # <<>>
        /\ serve' = [serve EXCEPT !.todo = Tail(@)]
        /\ transport' = [transport EXCEPT ![h] = "nil"]
        /\ UNCHANGED <<cancelled, loop>>
        /\ timedOut \subseteq timedOut'
    BY <1>4 DEF CleanupDone, CleanupTimeout, history
  <2>2. h \in timedOut' \/ loop[h].pc # "io"
    BY <1>4 DEF CleanupDone, CleanupTimeout, ChanMade
  <2>3. serve'.pc = "cleaning" /\ serve'.todo = Tail(serve.todo)
    BY <1>0, <2>1
  <2>4. h \in Managers
    BY <1>0, <2>1, TailFacts
  <2>5. Range(serve.todo) = {h} \cup Range(Tail(serve.todo))
    BY <1>0, <2>1, TailRange
  <2>6. ASSUME NEW m \in Managers, CleanedUp(m)'
        PROVE  m = h \/ CleanedUp(m)
    BY <2>1, <2>3, <2>5, <2>6 DEF CleanedUp
  <2>7. \A m \in Managers : transport'[m] = IF m = h THEN "nil" ELSE transport[m]
    BY <1>0, <2>1
  <2>8. \A m \in Managers : CleanedUp(m)' =>
          transport'[m] = "nil" /\ (m \notin timedOut' => loop'[m].pc # "io")
    BY <2>1, <2>2, <2>6, <2>7 DEF ShutdownInv
  <2> QED BY <2>1, <2>3, <2>8 DEF ShutdownInv
<1>5. CASE ServeDone
  <2>1. /\ serve.pc = "cleaning" /\ serve.todo = <<>>
        /\ serve' = [serve EXCEPT !.pc = "done"]
        /\ UNCHANGED <<cancelled, transport, loop, timedOut>>
    BY <1>5 DEF ServeDone, history
  <2>2. serve'.pc = "done"
    BY <1>0, <2>1
  <2>3. \A m \in Managers : CleanedUp(m)
    BY <2>1 DEF CleanedUp, Range
  <2> QED BY <2>1, <2>2, <2>3 DEF ShutdownInv
<1>6. CASE Close \/ SessionTimeout
  <2>1. cancelled' = TRUE /\ UNCHANGED <<serve, transport, loop, timedOut>>
    BY <1>6 DEF Close, SessionTimeout, history
  <2> QED BY <2>1 DEF ShutdownInv, CleanedUp
<1> QED BY <1>1, <1>2, <1>3, <1>4, <1>5, <1>6 DEF ServeStep

\* A loop does not enter the transport of a manager that was cleaned up.
LEMMA LoopsStepShutdown ==
  ASSUME SessionTypeOK, ShutdownInv, LoopsStep
  PROVE  ShutdownInv'
<1>0. /\ loop \in [Managers -> Loops]
      /\ InputSet \subseteq Managers /\ OutputSet \subseteq Managers
  BY DEF SessionTypeOK, ControlTypeOK, Managers
<1>1. UNCHANGED <<serve, cancelled, transport, timedOut>>
  BY DEF LoopsStep, InputStep, OutputStep, LoopStart, InputNext, InputPacket, InputStops,
         OutputTake, OutputCancelled, OutputSkips, OutputStops, OutputSend, OutputSent, history
<1>2. PICK m \in Managers : InputStep(m) \/ OutputStep(m)
  BY <1>0 DEF LoopsStep
<1>3. \A n \in Managers :
        loop'[n].pc = "io" => loop[n].pc = "io" \/ ~cancelled \/ transport[n] # "nil"
  <2>0. \A pc : Loop(pc).pc = pc
    BY DEF Loop
  <2>1. CASE InputNext(m)
    BY <1>0, <2>0, <2>1 DEF InputNext, SetLoop
  <2>2. CASE OutputSend(m)
    BY <1>0, <2>2 DEF OutputSend, SetLoop
  <2>3. CASE OutputTake(m)
    BY <1>0, <2>3 DEF OutputTake, SetLoop
  <2>4. CASE \/ LoopStart(m) \/ InputPacket(m) \/ InputStops(m) \/ OutputCancelled(m)
             \/ OutputSkips(m) \/ OutputStops(m) \/ OutputSent(m)
    <3>1. \E pc \in {"ready", "ended"} : loop' = [loop EXCEPT ![m] = Loop(pc)]
      BY <2>4 DEF LoopStart, InputPacket, InputStops, OutputCancelled, OutputSkips,
                  OutputStops, OutputSent, SetLoop
    <3> QED BY <1>0, <2>0, <3>1
  <2> QED BY <1>2, <2>1, <2>2, <2>3, <2>4 DEF InputStep, OutputStep
<1>4. \A n \in Managers : CleanedUp(n) => cancelled /\ transport[n] = "nil"
  BY DEF ShutdownInv, CleanedUp
<1>5. \A n \in Managers : CleanedUp(n) /\ n \notin timedOut => loop'[n].pc # "io"
  BY <1>0, <1>3, <1>4 DEF ShutdownInv
<1> QED BY <1>1, <1>5 DEF ShutdownInv, CleanedUp

LEMMA ShutdownStep == SessionTypeOK /\ ShutdownInv /\ [Next]_vars => ShutdownInv'
<1> SUFFICES ASSUME SessionTypeOK, ShutdownInv, [Next]_vars PROVE ShutdownInv'
  OBVIOUS
<1>1. CASE UNCHANGED vars
  BY <1>1 DEF vars, ShutdownInv, CleanedUp
<1>2. ASSUME NEW x \in Emitters, EmitStep(x) PROVE ShutdownInv'
  BY <1>2, EmitStepEffect DEF ShutdownInv, CleanedUp
<1>3. ASSUME \/ \E x \in Senders : SendToOutput(x)
             \/ \E d \in Drainers : DrainOutputs(d) \/ DrainOne(d)
      PROVE  ShutdownInv'
  <2>1. UNCHANGED <<serve, cancelled, transport, loop, timedOut>>
    BY <1>3 DEF SendToOutput, DrainOutputs, DrainOne, history
  <2> QED BY <2>1 DEF ShutdownInv, CleanedUp
<1> QED BY <1>1, <1>2, <1>3, ServeStepShutdown, LoopsStepShutdown DEF Next, LoopsStep

\* ShutdownReleases: when Serve reports the shutdown no loop is inside Next or
\* Send of its transport, except one cleanup stopped waiting for, whatever the
\* order in which Close, the loops and the cleanup came.
THEOREM ShutdownReleasesCorrect == Spec => []ShutdownReleases
<1>1. ShutdownInv => ShutdownReleases
  BY DEF ShutdownInv, ShutdownReleases, ShutdownComplete, CleanedUp
<1> QED BY <1>1, ShutdownInit, ShutdownStep, TypeCorrect, PTL DEF Spec

-----------------------------------------------------------------------------
(* Part 3: the synthesized speech                                          *)

\* The speech in the queue s is numbered upwards, above low and up to high.
InOrder(s, low, high) ==
  /\ \A i \in Speech(s) : low < s[i].n /\ s[i].n <= high
  /\ \A i, j \in Speech(s) : i < j => s[i].n < s[j].n

\* No number above low and up to high is missing from the queue s.
Complete(s, low, high) ==
  \A k \in Nat : low < k /\ k <= high => \E i \in Speech(s) : s[i].n = k

\* Where speech is after a packet was put at the end of a queue.
LEMMA SpeechAppend ==
  ASSUME NEW s \in Seq(Packet), NEW p \in Packet
  PROVE  /\ Len(s) \in Nat /\ Speech(s) \subseteq 1 .. Len(s)
         /\ \A i \in Speech(s) : i \in Speech(Append(s, p)) /\ Append(s, p)[i] = s[i]
         /\ \A i \in Speech(Append(s, p)) :
              i \in Speech(s) \/ (i = Len(s) + 1 /\ p.kind = "speech")
         /\ Append(s, p)[Len(s) + 1] = p
         /\ p.kind = "speech" => Len(s) + 1 \in Speech(Append(s, p))
  BY DEF Speech

\* Where speech is after the head of a queue was taken.
LEMMA SpeechTail ==
  ASSUME NEW s \in Seq(Packet), s # <<>>
  PROVE  /\ Speech(s) \subseteq Nat /\ Speech(Tail(s)) \subseteq Nat \ {0}
         /\ \A i \in Speech(Tail(s)) : i + 1 \in Speech(s) /\ Tail(s)[i] = s[i + 1]
         /\ \A i \in Speech(s) : i # 1 => i - 1 \in Speech(Tail(s)) /\ Tail(s)[i - 1] = s[i]
         /\ 1 \in Speech(s) <=> Head(s).kind = "speech"
<1>1. /\ DOMAIN s = 1 .. Len(s) /\ DOMAIN Tail(s) = 1 .. Len(Tail(s))
      /\ Len(s) \in Nat /\ Len(Tail(s)) \in Nat
  BY TailFacts
<1> QED BY <1>1, TailFacts DEF Speech

LEMMA SpeechNumbers ==
  ASSUME NEW s \in Seq(Packet), NEW i \in Speech(s)
  PROVE  s[i].n \in Nat
<1>1. s[i] \in Packet
  BY DEF Speech
<1> QED BY <1>1 DEF Packet

LEMMA OrderAppend ==
  ASSUME NEW s \in Seq(Packet), NEW p \in Packet, NEW low \in Nat, NEW high \in Nat,
         low <= high, InOrder(s, low, high), high < p.n \/ p.kind = "uplink"
  PROVE  LET top == IF p.kind = "speech" THEN p.n ELSE high
         IN  /\ InOrder(Append(s, p), low, top)
             /\ Complete(s, low, high) /\ (p.kind = "speech" => p.n = high + 1)
                  => Complete(Append(s, p), low, top)
<1> DEFINE t == Append(s, p)
           top == IF p.kind = "speech" THEN p.n ELSE high
<1>0. p.n \in Nat /\ p.kind \in {"uplink", "speech"} /\ top \in Nat /\ high <= top
  BY DEF Packet
<1>1. /\ Len(s) \in Nat /\ Speech(s) \subseteq 1 .. Len(s)
      /\ \A i \in Speech(s) : i \in Speech(t) /\ t[i] = s[i]
      /\ \A i \in Speech(t) : i \in Speech(s) \/ (i = Len(s) + 1 /\ p.kind = "speech")
      /\ t[Len(s) + 1] = p
      /\ p.kind = "speech" => Len(s) + 1 \in Speech(t)
  BY SpeechAppend
<1>2. \A i \in Speech(s) : s[i].n \in Nat /\ low < s[i].n /\ s[i].n <= high
  BY SpeechNumbers DEF InOrder
<1> HIDE DEF t
<1>3. \A i \in Speech(t) : low < t[i].n /\ t[i].n <= top
  BY <1>0, <1>1, <1>2
<1>4. ASSUME NEW i \in Speech(t), NEW j \in Speech(t), i < j PROVE t[i].n < t[j].n
  <2>1. CASE i \in Speech(s) /\ j \in Speech(s)
    BY <1>1, <1>4, <2>1 DEF InOrder
  <2>2. CASE i \in Speech(s) /\ j = Len(s) + 1 /\ p.kind = "speech"
    BY <1>0, <1>1, <1>2, <2>2
  <2>3. CASE i = Len(s) + 1
    BY <1>1, <1>4, <2>3
  <2> QED BY <1>1, <2>1, <2>2, <2>3
<1>5. ASSUME Complete(s, low, high), p.kind = "speech" => p.n = high + 1,
             NEW k \in Nat, low < k, k <= top
      PROVE  \E i \in Speech(t) : t[i].n = k
  <2>1. CASE k <= high
    BY <1>1, <1>5, <2>1 DEF Complete
  <2>2. CASE ~(k <= high)
    <3>1. k = p.n /\ p.kind = "speech"
      BY <1>0, <1>5, <2>2
    <3> QED BY <1>1, <3>1
  <2> QED BY <2>1, <2>2
<1> QED BY <1>3, <1>4, <1>5 DEF t, InOrder, Complete

LEMMA OrderTail ==
  ASSUME NEW s \in Seq(Packet), s # <<>>, NEW low \in Nat, NEW high \in Nat,
         InOrder(s, low, high)
  PROVE  LET least == IF Head(s).kind = "speech" THEN Head(s).n ELSE low
         IN  /\ least \in Nat /\ low <= least
             /\ Head(s).kind = "speech" => low < least /\ least <= high
             /\ InOrder(Tail(s), least, high)
             /\ Complete(s, low, high) => Complete(Tail(s), least, high)
<1> DEFINE t == Tail(s)
           least == IF Head(s).kind = "speech" THEN Head(s).n ELSE low
<1>1. /\ Speech(s) \subseteq Nat /\ Speech(t) \subseteq Nat \ {0}
      /\ \A i \in Speech(t) : i + 1 \in Speech(s) /\ t[i] = s[i + 1]
      /\ \A i \in Speech(s) : i # 1 => i - 1 \in Speech(t) /\ t[i - 1] = s[i]
      /\ 1 \in Speech(s) <=> Head(s).kind = "speech"
      /\ Head(s) = s[1]
  BY SpeechTail, TailFacts
<1>2. \A i \in Speech(s) : s[i].n \in Nat /\ low < s[i].n /\ s[i].n <= high
  BY SpeechNumbers DEF InOrder
<1>3. /\ least \in Nat /\ low <= least
      /\ Head(s).kind = "speech" => low < least /\ least <= high
  BY <1>1, <1>2
<1> HIDE DEF t
<1>4. \A i \in Speech(t) : least < t[i].n /\ t[i].n <= high
  <2> TAKE i \in Speech(t)
  <2>1. i + 1 \in Speech(s) /\ t[i] = s[i + 1] /\ 1 < i + 1
    BY <1>1
  <2>2. CASE Head(s).kind = "speech"
    BY <1>1, <1>2, <2>1, <2>2 DEF InOrder
  <2>3. CASE Head(s).kind # "speech"
    BY <1>2, <2>1, <2>3
  <2> QED BY <2>2, <2>3
<1>5. \A i, j \in Speech(t) : i < j => t[i].n < t[j].n
  <2> SUFFICES ASSUME NEW i \in Speech(t), NEW j \in Speech(t), i < j
               PROVE  t[i].n < t[j].n
    OBVIOUS
  <2>1. i + 1 \in Speech(s) /\ j + 1 \in Speech(s) /\ i + 1 < j + 1
    BY <1>1
  <2>2. s[i + 1].n < s[j + 1].n
    BY <2>1 DEF InOrder
  <2> QED BY <1>1, <2>2
<1>6. ASSUME Complete(s, low, high), NEW k \in Nat, least < k, k <= high
      PROVE  \E i \in Speech(t) : t[i].n = k
  <2>1. PICK i \in Speech(s) : s[i].n = k
    BY <1>3, <1>6 DEF Complete
  <2>2. i # 1
    BY <1>1, <1>6, <2>1
  <2> QED BY <1>1, <2>1, <2>2
<1> QED BY <1>3, <1>4, <1>5, <1>6 DEF t, InOrder, Complete

\* What a complete queue in order looks like from outside.
LEMMA CompleteQueue ==
  ASSUME NEW s \in Seq(Packet), NEW low \in Nat, NEW high \in Nat,
         InOrder(s, low, high), Complete(s, low, high)
  PROVE  {s[i].n : i \in Speech(s)} = low + 1 .. high
<1>1. \A i \in Speech(s) : s[i].n \in low + 1 .. high
  BY SpeechNumbers DEF InOrder
<1>2. ASSUME NEW k \in low + 1 .. high PROVE \E i \in Speech(s) : s[i].n = k
  <2>1. k \in Nat /\ low < k /\ k <= high
    OBVIOUS
  <2> QED BY <2>1 DEF Complete
<1> QED BY <1>1, <1>2

\* One goroutine at a time calls SendToOutput.
SingleSender == \A x, y \in Senders : x = y

\* The speech packets up to this one have left the queue of o.
Low(o) == IF taken[o] > floor[o] THEN taken[o] ELSE floor[o]

\* The history of an output never runs ahead of the sender.
CountersInOrder ==
  \A o \in OutputSet :
    taken[o] <= queued[o] /\ floor[o] <= queued[o] /\ queued[o] <= speech

\* The packet a sender is sending is new to the outputs it still goes to.
SenderIsAhead ==
  \A x \in Senders :
    /\ \A i, j \in DOMAIN emit[x].todo : emit[x].todo[i] = emit[x].todo[j] => i = j
    /\ \A o \in Range(emit[x].todo) :
         queued[o] < emit[x].pkt.n /\ emit[x].pkt.n <= speech

QueuesInOrder == \A o \in OutputSet : InOrder(q[o], Low(o), queued[o])

\* Only the packet the loop held when the queue was drained is older than the
\* drain, and nothing older was sent before it.
HandIsLastStale ==
  \A o \in OutputSet :
    /\ stale[o] <= 1
    /\ /\ loop[o].pc = "hand" /\ loop[o].pkt.kind = "speech"
       /\ loop[o].pkt.n <= floor[o]
       => stale[o] = 0

\* Until the context is cancelled every output has been sent all the speech,
\* or is about to be sent the packet it lacks.
NothingMissing ==
  ~cancelled => \A o \in OutputSet :
    /\ Complete(q[o], Low(o), queued[o])
    /\ \A x \in Senders :
         /\ o \in Range(emit[x].todo) => emit[x].pkt.n = speech /\ queued[o] + 1 = speech
         /\ o \notin Range(emit[x].todo) => queued[o] = speech

SpeechInv ==
  CountersInOrder /\ SenderIsAhead /\ QueuesInOrder /\ HandIsLastStale /\ NothingMissing

LEMMA EmptyQueue ==
  ASSUME NEW low \in Nat, NEW high \in Nat
  PROVE  InOrder(<<>>, low, high) /\ Complete(<<>>, high, high)
  BY DEF InOrder, Complete, Speech

LEMMA LowType ==
  ASSUME SessionTypeOK, NEW o \in OutputSet
  PROVE  /\ Low(o) \in Nat /\ taken[o] <= Low(o) /\ floor[o] <= Low(o)
         /\ Low(o) \in {taken[o], floor[o]}
         /\ queued[o] \in Nat /\ taken[o] \in Nat /\ floor[o] \in Nat /\ stale[o] \in Nat
         /\ speech \in Nat /\ q[o] \in Seq(Packet)
<1>1. /\ queued[o] \in Nat /\ taken[o] \in Nat /\ floor[o] \in Nat /\ stale[o] \in Nat
      /\ speech \in Nat /\ q[o] \in Seq(Packet)
  BY DEF SessionTypeOK, DataTypeOK
<1> QED BY <1>1 DEF Low

LEMMA SpeechInit == Init => SpeechInv
<1> SUFFICES ASSUME Init PROVE SpeechInv
  OBVIOUS
<1>1. SessionTypeOK
  BY TypeInit
<1>2. /\ \A o \in OutputSet : /\ q[o] = <<>> /\ loop[o].pc # "hand" /\ stale[o] = 0
                              /\ taken[o] = 0 /\ floor[o] = 0 /\ queued[o] = 0
      /\ speech = 0
  BY DEF Init, Loop, Managers
<1>3. \A x \in Senders : emit[x].todo = <<>>
  BY DEF Init, NotEmitting, Emitters
<1>4. \A o \in OutputSet : Low(o) = 0
  BY <1>2 DEF Low
<1>5. CountersInOrder /\ HandIsLastStale
  BY <1>2 DEF CountersInOrder, HandIsLastStale
<1>6. SenderIsAhead
  BY <1>3 DEF SenderIsAhead, Range
<1>7. QueuesInOrder
  BY <1>2, <1>4, EmptyQueue DEF QueuesInOrder
<1>8. NothingMissing
  BY <1>2, <1>3, <1>4, EmptyQueue DEF NothingMissing, Range
<1> QED BY <1>5, <1>6, <1>7, <1>8 DEF SpeechInv

\* An input's trySendPacket puts uplink packets into the queues.
LEMMA InputEmitSpeech ==
  ASSUME SessionTypeOK, SpeechInv, NEW x \in Emitters \ Senders, EmitStep(x)
  PROVE  SpeechInv'
<1> DEFINE e == emit[x]
           h == Head(e.todo)
<1>0. PICK r \in Emits : emit' = [emit EXCEPT ![x] = r] /\ EmitEffect(e, r)
  BY EmitStepEffect
<1>1. /\ e.todo # <<>> /\ e.pkt \in Packet /\ e.pkt.kind = "uplink"
      /\ UNCHANGED <<cancelled, loop, speech, taken, floor, stale>>
  BY EmitStepEffect DEF SessionTypeOK, EmitterHasPacket
<1>2. /\ emit \in [Emitters -> Emits] /\ q \in [OutputSet -> Seq(Packet)] /\ h \in OutputSet
  BY <1>1, TailFacts DEF SessionTypeOK, DataTypeOK, Emits
<1>3. queued' = queued /\ (q' = q \/ q' = [q EXCEPT ![h] = Append(@, e.pkt)])
  BY <1>0, <1>1 DEF EmitEffect, Enqueue
<1>4. \A y \in Senders : y \in Emitters /\ emit'[y] = emit[y]
  BY <1>0, <1>2 DEF Emitters
<1>5. \A o \in OutputSet : Low(o)' = Low(o)
  BY <1>1 DEF Low
<1>6. ASSUME NEW o \in OutputSet
      PROVE  /\ InOrder(q'[o], Low(o), queued[o])
             /\ Complete(q[o], Low(o), queued[o]) => Complete(q'[o], Low(o), queued[o])
  <2>1. InOrder(q[o], Low(o), queued[o]) /\ Low(o) <= queued[o]
    BY LowType DEF SpeechInv, QueuesInOrder, CountersInOrder
  <2>2. CASE q'[o] = q[o]
    BY <2>1, <2>2
  <2>3. CASE q'[o] = Append(q[o], e.pkt)
    BY <2>1, <2>3, <1>1, LowType, OrderAppend
  <2> QED BY <1>2, <1>3, <2>2, <2>3
<1>7. CountersInOrder' /\ HandIsLastStale'
  BY <1>1, <1>3 DEF SpeechInv, CountersInOrder, HandIsLastStale
<1>8. SenderIsAhead'
  BY <1>1, <1>3, <1>4 DEF SpeechInv, SenderIsAhead
<1>9. QueuesInOrder'
  BY <1>3, <1>5, <1>6 DEF QueuesInOrder
<1>10. NothingMissing'
  BY <1>1, <1>3, <1>4, <1>5, <1>6 DEF SpeechInv, NothingMissing
<1> QED BY <1>7, <1>8, <1>9, <1>10 DEF SpeechInv

\* The sender's trySendPacket puts the next speech packet into a queue, waits
\* for room, or gives the packet up once the session is over.
LEMMA SenderEmitSpeech ==
  ASSUME SingleSender, SessionTypeOK, ShutdownInv, SpeechInv, NEW x \in Senders, EmitStep(x)
  PROVE  SpeechInv'
<1> DEFINE e == emit[x]
           h == Head(e.todo)
<1>a. x \in Emitters
  BY DEF Emitters
<1>0. PICK r \in Emits : emit' = [emit EXCEPT ![x] = r] /\ EmitEffect(e, r)
  BY <1>a, EmitStepEffect
<1>1. /\ e.todo # <<>> /\ e.pkt \in Packet /\ e.pkt.kind = "speech"
      /\ UNCHANGED <<cancelled, loop, speech, taken, floor, stale>>
  BY <1>a, EmitStepEffect DEF SessionTypeOK, EmitterHasPacket
<1>2. /\ emit \in [Emitters -> Emits] /\ q \in [OutputSet -> Seq(Packet)]
      /\ queued \in [OutputSet -> Nat] /\ speech \in Nat /\ e.pkt.n \in Nat
      /\ e.todo \in Seq(OutputSet)
  BY <1>a, <1>1 DEF SessionTypeOK, DataTypeOK, Emits, Packet
<1>3. /\ h \in OutputSet /\ h \in Range(e.todo)
      /\ Range(e.todo) = {h} \cup Range(Tail(e.todo))
  BY <1>1, <1>2, TailFacts, TailRange
<1>4. emit'[x] = r /\ \A y \in Senders : y = x
  BY <1>0, <1>2, <1>a DEF SingleSender
<1>5. \A o \in OutputSet : Low(o)' = Low(o)
  BY <1>1 DEF Low
<1>6. /\ h \notin Range(Tail(e.todo))
      /\ \A i, j \in DOMAIN Tail(e.todo) : Tail(e.todo)[i] = Tail(e.todo)[j] => i = j
  <2>1. \A i, j \in DOMAIN e.todo : e.todo[i] = e.todo[j] => i = j
    BY DEF SpeechInv, SenderIsAhead
  <2>2. /\ h = e.todo[1] /\ 1 \in DOMAIN e.todo
        /\ \A i \in DOMAIN Tail(e.todo) :
             i \in Nat \ {0} /\ i + 1 \in DOMAIN e.todo /\ Tail(e.todo)[i] = e.todo[i + 1]
    <3>1. /\ DOMAIN e.todo = 1 .. Len(e.todo)
          /\ DOMAIN Tail(e.todo) = 1 .. Len(Tail(e.todo)) /\ Len(Tail(e.todo)) \in Nat
      BY <1>1, <1>2, TailFacts
    <3>2. /\ Len(e.todo) \in Nat /\ Len(e.todo) >= 1 /\ h = e.todo[1]
          /\ Len(Tail(e.todo)) + 1 = Len(e.todo)
          /\ \A i \in 1 .. Len(Tail(e.todo)) : Tail(e.todo)[i] = e.todo[i + 1]
      BY <1>1, <1>2, TailFacts
    <3> HIDE DEF e, h
    <3>3. \A i \in 1 .. Len(Tail(e.todo)) : i \in Nat \ {0} /\ i + 1 \in 1 .. Len(e.todo)
      BY <3>1, <3>2
    <3> QED BY <3>1, <3>2, <3>3
  <2> HIDE DEF e, h
  <2>3. \A i \in DOMAIN Tail(e.todo) : Tail(e.todo)[i] # h
    BY <2>1, <2>2
  <2>4. ASSUME NEW i \in DOMAIN Tail(e.todo), NEW j \in DOMAIN Tail(e.todo),
               Tail(e.todo)[i] = Tail(e.todo)[j]
        PROVE  i = j
    <3>1. i + 1 = j + 1
      BY <2>1, <2>2, <2>4
    <3> QED BY <2>2, <3>1
  <2> QED BY <2>3, <2>4 DEF Range
<1>7. \A o \in Range(e.todo) : queued[o] < e.pkt.n /\ e.pkt.n <= speech
  BY DEF SpeechInv, SenderIsAhead
<1>8. HandIsLastStale'
  BY <1>1 DEF SpeechInv, HandIsLastStale
<1> HIDE DEF e, h
<1>9. CASE r.todo = e.todo /\ r.pkt = e.pkt /\ UNCHANGED <<q, queued>>
  <2>1. \A y \in Senders : emit'[y].todo = emit[y].todo /\ emit'[y].pkt = emit[y].pkt
    BY <1>4, <1>9 DEF e
  <2>2. CountersInOrder'
    BY <1>1, <1>9 DEF SpeechInv, CountersInOrder
  <2>3. SenderIsAhead'
    BY <1>1, <1>9, <2>1 DEF SpeechInv, SenderIsAhead
  <2>4. QueuesInOrder'
    BY <1>5, <1>9 DEF SpeechInv, QueuesInOrder
  <2>5. NothingMissing'
    BY <1>1, <1>5, <1>9, <2>1 DEF SpeechInv, NothingMissing
  <2> QED BY <1>8, <2>2, <2>3, <2>4, <2>5 DEF SpeechInv
<1>10. CASE Leaves(e, r) /\ Enqueue(h, e.pkt)
  <2>1. /\ q' = [q EXCEPT ![h] = Append(@, e.pkt)]
        /\ queued' = [queued EXCEPT ![h] = e.pkt.n]
        /\ r.todo = Tail(e.todo) /\ (r.todo # <<>> => r.pkt = e.pkt)
    BY <1>1, <1>10 DEF Enqueue, Leaves
  <2>2. \A o \in OutputSet : o # h => q'[o] = q[o] /\ queued'[o] = queued[o]
    BY <1>2, <2>1
  <2>3. q'[h] = Append(q[h], e.pkt) /\ queued'[h] = e.pkt.n
    BY <1>2, <1>3, <2>1
  <2>4. queued[h] < e.pkt.n /\ e.pkt.n <= speech
    BY <1>3, <1>7
  <2>5. CountersInOrder'
    <3> SUFFICES ASSUME NEW o \in OutputSet
                 PROVE  taken[o] <= queued'[o] /\ floor[o] <= queued'[o] /\ queued'[o] <= speech
      BY <1>1 DEF CountersInOrder
    <3>1. taken[o] <= queued[o] /\ floor[o] <= queued[o] /\ queued[o] <= speech
      BY DEF SpeechInv, CountersInOrder
    <3>2. taken[o] \in Nat /\ floor[o] \in Nat /\ queued[o] \in Nat
      BY LowType
    <3>3. CASE o = h
      BY <1>2, <2>3, <2>4, <3>1, <3>2, <3>3
    <3>4. CASE o # h
      BY <2>2, <3>1, <3>4
    <3> QED BY <3>3, <3>4
  <2>6. \A o \in Range(r.todo) : r.pkt = e.pkt /\ o # h /\ o \in Range(e.todo) /\ o \in OutputSet
    <3>1. \A o \in Range(r.todo) : r.todo # <<>>
      BY DEF Range
    <3>2. Range(e.todo) \subseteq OutputSet
      BY <1>2 DEF Range
    <3> QED BY <1>3, <1>6, <2>1, <3>1, <3>2
  <2>7. SenderIsAhead'
    <3>1. \A i, j \in DOMAIN r.todo : r.todo[i] = r.todo[j] => i = j
      BY <1>6, <2>1
    <3>2. \A o \in Range(r.todo) : queued'[o] < r.pkt.n /\ r.pkt.n <= speech
      BY <1>7, <2>2, <2>6
    <3> QED BY <1>1, <1>4, <3>1, <3>2 DEF SenderIsAhead
  <2>8. InOrder(q[h], Low(h), queued[h]) /\ Low(h) <= queued[h]
    BY <1>3, LowType DEF SpeechInv, QueuesInOrder, CountersInOrder
  <2>9. /\ InOrder(q'[h], Low(h), queued'[h])
        /\ Complete(q[h], Low(h), queued[h]) /\ e.pkt.n = queued[h] + 1
             => Complete(q'[h], Low(h), queued'[h])
    BY <1>1, <1>3, <2>3, <2>4, <2>8, LowType, OrderAppend
  <2>10. QueuesInOrder'
    BY <1>5, <2>2, <2>9 DEF SpeechInv, QueuesInOrder
  <2>11. ASSUME ~cancelled, NEW o \in OutputSet
         PROVE  /\ Complete(q'[o], Low(o), queued'[o])
                /\ o \in Range(r.todo) => r.pkt.n = speech /\ queued'[o] + 1 = speech
                /\ o \notin Range(r.todo) => queued'[o] = speech
    <3>1. /\ Complete(q[o], Low(o), queued[o])
          /\ o \in Range(e.todo) => e.pkt.n = speech /\ queued[o] + 1 = speech
          /\ o \notin Range(e.todo) => queued[o] = speech
      BY <2>11 DEF SpeechInv, NothingMissing, e
    <3>2. CASE o = h
      BY <1>3, <2>3, <2>6, <2>9, <3>1, <3>2
    <3>3. CASE o # h
      BY <1>3, <2>1, <2>2, <2>6, <3>1, <3>3
    <3> QED BY <3>2, <3>3
  <2>12. NothingMissing'
    BY <1>1, <1>4, <1>5, <2>11 DEF NothingMissing
  <2> QED BY <1>8, <2>5, <2>7, <2>10, <2>12 DEF SpeechInv
<1>11. CASE Leaves(e, r) /\ UNCHANGED <<q, queued>> /\ (cancelled \/ transport[h] = "nil")
  <2>1. cancelled
    BY <1>3, <1>11 DEF ShutdownInv, Managers
  <2>2. r.todo = Tail(e.todo) /\ \A o \in Range(r.todo) : r.pkt = e.pkt
    BY <1>11 DEF Leaves, Range
  <2>3. CountersInOrder'
    BY <1>1, <1>11 DEF SpeechInv, CountersInOrder
  <2>4. SenderIsAhead'
    BY <1>1, <1>3, <1>4, <1>6, <1>7, <1>11, <2>2 DEF SenderIsAhead
  <2>5. QueuesInOrder'
    BY <1>5, <1>11 DEF SpeechInv, QueuesInOrder
  <2>6. NothingMissing'
    BY <1>1, <2>1 DEF NothingMissing
  <2> QED BY <1>8, <2>3, <2>4, <2>5, <2>6 DEF SpeechInv
<1> QED BY <1>0, <1>1, <1>9, <1>10, <1>11 DEF EmitEffect, e, h

\* SendToOutput starts with a new number and all the outputs to go to.
LEMMA SendToOutputSpeech ==
  ASSUME SingleSender, SessionTypeOK, SpeechInv, NEW x \in Senders, SendToOutput(x)
  PROVE  SpeechInv'
<1> DEFINE r == [pkt |-> [kind |-> "speech", n |-> speech + 1],
                 todo |-> Outputs, blocked |-> FALSE]
<1>1. /\ emit[x].todo = <<>> /\ emit' = [emit EXCEPT ![x] = r] /\ speech' = speech + 1
      /\ UNCHANGED <<cancelled, loop, q, queued, taken, floor, stale>>
  BY DEF SendToOutput, NotEmitting, history
<1>2. r.todo = Outputs /\ r.pkt.n = speech + 1
  OBVIOUS
<1> HIDE DEF r
<1>3. emit \in [Emitters -> Emits] /\ x \in Emitters /\ speech \in Nat
  BY DEF SessionTypeOK, DataTypeOK, Emitters
<1>4. emit'[x] = r /\ \A y \in Senders : y = x
  BY <1>1, <1>3 DEF SingleSender
<1>5. \A o \in OutputSet : Low(o)' = Low(o)
  BY <1>1 DEF Low
<1>6. HandIsLastStale' /\ QueuesInOrder'
  BY <1>1, <1>5 DEF SpeechInv, HandIsLastStale, QueuesInOrder
<1>7. \A o \in OutputSet : queued[o] <= speech /\ queued[o] \in Nat
  BY LowType DEF SpeechInv, CountersInOrder
<1>8. CountersInOrder'
  <2>1. \A o \in OutputSet : queued[o] <= speech + 1
    BY <1>3, <1>7
  <2> QED BY <1>1, <2>1 DEF SpeechInv, CountersInOrder
<1>9. SenderIsAhead'
  <2>1. \A i, j \in DOMAIN r.todo : r.todo[i] = r.todo[j] => i = j
    BY <1>2, SessionAssumption
  <2>2. \A o \in Range(r.todo) : queued[o] < r.pkt.n /\ r.pkt.n <= speech + 1
    BY <1>2, <1>3, <1>7, AllManagers
  <2> QED BY <1>1, <1>4, <2>1, <2>2 DEF SenderIsAhead
<1>10. ASSUME ~cancelled, NEW o \in OutputSet
       PROVE  o \in Range(r.todo) /\ Complete(q[o], Low(o), queued[o]) /\ queued[o] = speech
  <2>1. o \in Range(r.todo)
    BY <1>2, AllManagers
  <2>2. o \notin Range(emit[x].todo)
    BY <1>1 DEF Range
  <2> QED BY <1>10, <2>1, <2>2 DEF SpeechInv, NothingMissing
<1>11. NothingMissing'
  BY <1>1, <1>2, <1>3, <1>4, <1>5, <1>10 DEF NothingMissing
<1> QED BY <1>6, <1>8, <1>9, <1>11 DEF SpeechInv

\* The drain takes everything that was queued.
LEMMA DrainSpeech ==
  ASSUME SessionTypeOK, SpeechInv, NEW d \in Drainers, DrainOutputs(d) \/ DrainOne(d)
  PROVE  SpeechInv'
<1>0. UNCHANGED <<cancelled, loop, emit, speech, queued, taken>>
  BY DEF DrainOutputs, DrainOne, history
<1>1. SenderIsAhead'
  BY <1>0 DEF SpeechInv, SenderIsAhead
<1>2. CASE UNCHANGED <<q, floor, stale>>
  BY <1>0, <1>1, <1>2 DEF SpeechInv, CountersInOrder, QueuesInOrder, HandIsLastStale,
                          NothingMissing, Low
<1>3. CASE DrainOne(d)
  <2> DEFINE h == Head(drain[d])
  <2>1. /\ q' = [q EXCEPT ![h] = <<>>] /\ floor' = [floor EXCEPT ![h] = queued[h]]
        /\ stale' = [stale EXCEPT ![h] = 0]
    BY <1>3 DEF DrainOne
  <2> HIDE DEF h
  <2>2. /\ q \in [OutputSet -> Seq(Packet)] /\ floor \in [OutputSet -> Nat]
        /\ stale \in [OutputSet -> Nat]
    BY DEF SessionTypeOK, DataTypeOK
  <2>3. \A o \in OutputSet :
          IF o = h THEN q'[o] = <<>> /\ floor'[o] = queued[o] /\ stale'[o] = 0
          ELSE q'[o] = q[o] /\ floor'[o] = floor[o] /\ stale'[o] = stale[o]
    BY <2>1, <2>2
  <2>4. \A o \in OutputSet : taken[o] <= queued[o]
    BY DEF SpeechInv, CountersInOrder
  <2>5. \A o \in OutputSet : Low(o)' = IF o = h THEN queued[o] ELSE Low(o)
    BY <1>0, <2>3, <2>4, LowType DEF Low
  <2>6. CountersInOrder'
    BY <1>0, <2>3, LowType DEF SpeechInv, CountersInOrder
  <2>7. HandIsLastStale'
    BY <1>0, <2>3 DEF SpeechInv, HandIsLastStale
  <2>8. QueuesInOrder'
    BY <1>0, <2>3, <2>5, EmptyQueue, LowType DEF SpeechInv, QueuesInOrder
  <2>9. NothingMissing'
    BY <1>0, <2>3, <2>5, EmptyQueue, LowType DEF SpeechInv, NothingMissing
  <2> QED BY <1>1, <2>6, <2>7, <2>8, <2>9 DEF SpeechInv
<1> QED BY <1>2, <1>3 DEF DrainOutputs, history

\* An output's loop takes the head of its queue.
LEMMA OutputTakeSpeech ==
  ASSUME SessionTypeOK, SpeechInv, NEW o \in OutputSet, OutputTake(o)
  PROVE  SpeechInv'
<1> DEFINE p == Head(q[o])
           least == IF p.kind = "speech" THEN p.n ELSE Low(o)
<1>1. /\ q[o] # <<>> /\ loop' = [loop EXCEPT ![o] = [pc |-> "hand", pkt |-> p]]
      /\ q' = [q EXCEPT ![o] = Tail(@)]
      /\ taken' = IF p.kind = "speech" THEN [taken EXCEPT ![o] = p.n] ELSE taken
      /\ UNCHANGED <<cancelled, emit, speech, queued, floor, stale>>
  BY DEF OutputTake, SetLoop
<1>2. /\ q \in [OutputSet -> Seq(Packet)] /\ taken \in [OutputSet -> Nat]
      /\ loop \in [Managers -> Loops] /\ OutputSet \subseteq Managers
  BY DEF SessionTypeOK, DataTypeOK, ControlTypeOK, Managers
<1>3. InOrder(q[o], Low(o), queued[o])
  BY DEF SpeechInv, QueuesInOrder
<1>4. /\ least \in Nat /\ Low(o) <= least
      /\ p.kind = "speech" => Low(o) < least /\ least <= queued[o]
      /\ InOrder(Tail(q[o]), least, queued[o])
      /\ Complete(q[o], Low(o), queued[o]) => Complete(Tail(q[o]), least, queued[o])
  BY <1>1, <1>3, LowType, OrderTail
<1>5. \A u \in OutputSet : u # o => /\ q'[u] = q[u] /\ taken'[u] = taken[u] /\ loop'[u] = loop[u]
                                    /\ Low(u)' = Low(u)
  BY <1>1, <1>2 DEF Low
<1>6. /\ q'[o] = Tail(q[o]) /\ loop'[o].pkt = p
      /\ taken'[o] = IF p.kind = "speech" THEN p.n ELSE taken[o]
  BY <1>1, <1>2
<1> HIDE DEF p
<1>7. Low(o)' = least
  <2>1. CASE p.kind = "speech"
    <3>1. taken'[o] = p.n /\ floor'[o] = floor[o] /\ floor[o] < p.n /\ p.n \in Nat
      BY <1>1, <1>4, <1>6, <2>1, LowType
    <3> QED BY <2>1, <3>1, LowType DEF Low
  <2>2. CASE p.kind # "speech"
    BY <1>1, <1>6, <2>2 DEF Low
  <2> QED BY <2>1, <2>2
<1> HIDE DEF least
<1>8. CountersInOrder'
  <2>1. taken'[o] <= queued[o]
    BY <1>4, <1>6 DEF SpeechInv, CountersInOrder, least
  <2> QED BY <1>1, <1>5, <2>1 DEF SpeechInv, CountersInOrder
<1>9. HandIsLastStale'
  <2>1. p.kind = "speech" => ~(p.n <= floor[o])
    BY <1>4, LowType DEF least
  <2> QED BY <1>1, <1>5, <1>6, <2>1 DEF SpeechInv, HandIsLastStale
<1>10. SenderIsAhead'
  BY <1>1 DEF SpeechInv, SenderIsAhead
<1>11. QueuesInOrder'
  BY <1>1, <1>4, <1>5, <1>6, <1>7 DEF SpeechInv, QueuesInOrder
<1>12. NothingMissing'
  BY <1>1, <1>4, <1>5, <1>6, <1>7 DEF SpeechInv, NothingMissing
<1> QED BY <1>8, <1>9, <1>10, <1>11, <1>12 DEF SpeechInv

\* The other steps leave the queues alone: a loop sends or lets go of the
\* packet it holds, Serve starts the loops, the context is cancelled.
LEMMA QuietSpeech ==
  ASSUME SessionTypeOK, SpeechInv,
         UNCHANGED <<speech, queued, taken, floor, q>>,
         cancelled' = cancelled \/ cancelled',
         \A x \in Senders : emit'[x] = emit[x],
         HandIsLastStale'
  PROVE  SpeechInv'
<1>1. \A o \in OutputSet : Low(o)' = Low(o)
  BY DEF Low
<1>2. CountersInOrder' /\ SenderIsAhead' /\ QueuesInOrder'
  BY <1>1 DEF SpeechInv, CountersInOrder, SenderIsAhead, QueuesInOrder
<1>3. NothingMissing'
  BY <1>1 DEF SpeechInv, NothingMissing
<1> QED BY <1>2, <1>3 DEF SpeechInv

LEMMA LoopsStepSpeech ==
  ASSUME SessionTypeOK, SpeechInv, LoopsStep
  PROVE  SpeechInv'
<1>0. /\ loop \in [Managers -> Loops] /\ InputSet \subseteq Managers
      /\ OutputSet \subseteq Managers /\ InputSet \cap Senders = {}
      /\ emit \in [Emitters -> Emits] /\ Senders \subseteq Emitters
      /\ stale \in [OutputSet -> Nat]
  BY SessionAssumption DEF SessionTypeOK, ControlTypeOK, DataTypeOK, Managers, Emitters
<1>1. \A pc : Loop(pc).pc = pc
  BY DEF Loop
<1>2. ASSUME NEW m \in InputSet, InputPacket(m) PROVE SpeechInv'
  <2>1. /\ loop' = [loop EXCEPT ![m] = Loop("ready")]
        /\ UNCHANGED <<cancelled, q, speech, queued, taken, floor, stale>>
        /\ \E r : emit' = emit \/ emit' = [emit EXCEPT ![m] = r]
    BY <1>2 DEF InputPacket, SetLoop, history
  <2>2. \A x \in Senders : emit'[x] = emit[x]
    BY <1>0, <2>1
  <2>3. HandIsLastStale'
    BY <1>0, <1>1, <2>1 DEF SpeechInv, HandIsLastStale
  <2> QED BY <2>1, <2>2, <2>3, QuietSpeech
<1>3. ASSUME NEW o \in OutputSet, OutputSend(o) PROVE SpeechInv'
  <2> DEFINE p == loop[o].pkt
  <2>1. /\ loop[o].pc = "hand" /\ loop' = [loop EXCEPT ![o] = Loop("io")]
        /\ stale' = IF p.kind = "speech" /\ p.n <= floor[o]
                    THEN [stale EXCEPT ![o] = @ + 1] ELSE stale
        /\ UNCHANGED <<cancelled, q, emit, speech, queued, taken, floor>>
    BY <1>3 DEF OutputSend, SetLoop
  <2>2. p.kind = "speech" /\ p.n <= floor[o] => stale[o] = 0
    BY <2>1 DEF SpeechInv, HandIsLastStale
  <2>3. stale'[o] <= 1 /\ loop'[o].pc # "hand"
    BY <1>0, <1>1, <2>1, <2>2 DEF SpeechInv, HandIsLastStale
  <2>4. \A u \in OutputSet : u # o => stale'[u] = stale[u] /\ loop'[u] = loop[u]
    BY <1>0, <2>1
  <2>5. HandIsLastStale'
    BY <2>1, <2>3, <2>4 DEF SpeechInv, HandIsLastStale
  <2> QED BY <2>1, <2>5, QuietSpeech
<1>4. ASSUME NEW m \in Managers,
             \/ LoopStart(m) \/ InputNext(m) \/ InputStops(m) \/ OutputCancelled(m)
             \/ OutputSkips(m) \/ OutputStops(m) \/ OutputSent(m)
      PROVE  SpeechInv'
  <2>1. /\ \E pc \in {"ready", "io", "ended"} : loop' = [loop EXCEPT ![m] = Loop(pc)]
        /\ UNCHANGED <<cancelled, q, emit, speech, queued, taken, floor, stale>>
    BY <1>4 DEF LoopStart, InputNext, InputStops, OutputCancelled, OutputSkips,
                OutputStops, OutputSent, SetLoop, history
  <2>2. HandIsLastStale'
    BY <1>0, <1>1, <2>1 DEF SpeechInv, HandIsLastStale
  <2> QED BY <2>1, <2>2, QuietSpeech
<1> QED BY <1>0, <1>2, <1>3, <1>4, OutputTakeSpeech DEF LoopsStep, InputStep, OutputStep

LEMMA SpeechStep ==
  ASSUME SingleSender
  PROVE  SessionTypeOK /\ ShutdownInv /\ SpeechInv /\ [Next]_vars => SpeechInv'
<1> SUFFICES ASSUME SessionTypeOK, ShutdownInv, SpeechInv, [Next]_vars PROVE SpeechInv'
  OBVIOUS
<1>1. CASE UNCHANGED vars
  <2>1. /\ UNCHANGED <<cancelled, q, emit, speech, queued, taken, floor, stale, loop>>
    BY <1>1 DEF vars
  <2>2. HandIsLastStale'
    BY <2>1 DEF SpeechInv, HandIsLastStale
  <2> QED BY <2>1, <2>2, QuietSpeech
<1>2. CASE ServeStep \/ Close \/ SessionTimeout
  <2>1. /\ UNCHANGED <<q, emit, speech, queued, taken, floor, stale>>
        /\ cancelled' = cancelled \/ cancelled'
    BY <1>2 DEF ServeStep, ServeStart, ServeEnd, CleanupLock, CleanupDone, CleanupTimeout,
                ServeDone, Close, SessionTimeout, history
  <2>2. loop' = loop \/ loop' = [m \in Managers |-> Loop("spawned")]
    BY <1>2 DEF ServeStep, ServeStart, ServeEnd, CleanupLock, CleanupDone, CleanupTimeout,
                ServeDone, Close, SessionTimeout
  <2>3. \A o \in OutputSet : loop'[o].pc = "hand" => loop' = loop
    BY <2>2 DEF Loop, Managers
  <2>4. HandIsLastStale'
    BY <2>1, <2>3 DEF SpeechInv, HandIsLastStale
  <2> QED BY <2>1, <2>4, QuietSpeech
<1>3. ASSUME NEW x \in Emitters, EmitStep(x) PROVE SpeechInv'
  BY <1>3, InputEmitSpeech, SenderEmitSpeech
<1> QED BY <1>1, <1>2, <1>3, SendToOutputSpeech, DrainSpeech, LoopsStepSpeech
        DEF Next, LoopsStep

LEMMA SpeechCorrect ==
  ASSUME SingleSender
  PROVE  Spec => [](SessionTypeOK /\ SpeechInv)
<1>1. SessionTypeOK /\ ShutdownInv /\ SpeechInv /\ [Next]_vars => SpeechInv'
  BY SpeechStep
<1> QED BY <1>1, SpeechInit, ShutdownInit, ShutdownStep, TypeCorrect, PTL DEF Spec

\* DrainLeavesOne: after a barge-in drained an output, the packet its loop had
\* already taken is the only older speech that is still sent, when one
\* goroutine sends the speech.
THEOREM DrainLeavesOneCorrect ==
  ASSUME SingleSender
  PROVE  Spec => []DrainLeavesOne
<1>1. SpeechInv => DrainLeavesOne
  BY DEF SpeechInv, HandIsLastStale, DrainLeavesOne
<1> QED BY <1>1, SpeechCorrect, PTL

\* SpeechIsComplete: until the session's context is cancelled no speech packet
\* is lost or overtaken between SendToOutput and an output's loop, when one
\* goroutine sends the speech: trySendPacket waits instead of dropping it.
THEOREM SpeechIsCompleteCorrect ==
  ASSUME SingleSender
  PROVE  Spec => []SpeechIsComplete
<1>1. SessionTypeOK /\ SpeechInv => SpeechIsComplete
  <2> SUFFICES ASSUME SessionTypeOK, SpeechInv, NEW o \in OutputSet, ~cancelled
               PROVE  /\ {q[o][i].n : i \in Speech(q[o])} = Low(o) + 1 .. queued[o]
                      /\ \A i, j \in Speech(q[o]) : i < j => q[o][i].n < q[o][j].n
    BY DEF SpeechIsComplete, Low
  <2>1. InOrder(q[o], Low(o), queued[o]) /\ Complete(q[o], Low(o), queued[o])
    BY DEF SpeechInv, QueuesInOrder, NothingMissing
  <2>2. {q[o][i].n : i \in Speech(q[o])} = Low(o) + 1 .. queued[o]
    BY <2>1, LowType, CompleteQueue
  <2> QED BY <2>1, <2>2 DEF InOrder
<1> QED BY <1>1, SpeechCorrect, PTL
=============================================================================
