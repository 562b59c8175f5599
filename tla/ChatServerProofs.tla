-------------------------- MODULE ChatServerProofs --------------------------
(***************************************************************************)
(* Proofs about ChatServer, for any number of threads and prompts:         *)
(* LLM._lazy_init loads one model, however many loads raise; a stream      *)
(* carries the text from end to end, however long it is; and calls of      *)
(* generate that do not overlap return the complete output of each prompt. *)
(***************************************************************************)
EXTENDS ChatServer, DataLemmas

-----------------------------------------------------------------------------
(* The inductive invariant.                                                *)

(* As much of the types as the argument needs.                              *)
Shape ==
    /\ DOMAIN call = Threads
    /\ \A t \in Threads : "pc" \in DOMAIN call[t]
    /\ init \in [done : BOOLEAN, lock : Threads \cup {NoThread}, loads : Nat, failures : Nat]

(* Who loads has the lock, and who has the lock loads.                      *)
LoaderHasLock == \A t \in Threads : call[t].pc = "load" <=> init.lock = t

(* Nobody loads a model that is there; there is one exactly when done.      *)
DoneMeansLoaded ==
    /\ init.done => init.lock = NoThread
    /\ init.loads = IF init.done THEN 1 ELSE 0

(* Nobody gets past the check without a model.                              *)
WorksWithModel ==
    \A t \in Threads : InCall(t) => init.done \/ call[t].pc \in {"init", "load"}

IInv == Shape /\ LoaderHasLock /\ DoneMeansLoaded /\ WorksWithModel

LEMMA InitIInv == Init => IInv
  BY GenerateAssumption
     DEF Init, GenerateInit, NoCall, IInv, Shape, LoaderHasLock, DoneMeansLoaded,
         WorksWithModel, InCall

(* A step of a thread that has its model, which stays past the check.       *)
Past(t) ==
    /\ init' = init
    /\ DOMAIN call' = DOMAIN call
    /\ \A u \in Threads \ {t} : call'[u] = call[u]
    /\ "pc" \in DOMAIN call'[t]
    /\ InCall(t)
    /\ call[t].pc \notin {"init", "load"}
    /\ call'[t].pc \notin {"init", "load"}

LEMMA PastKeeps ==
    ASSUME NEW t \in Threads, IInv, Past(t)
    PROVE  IInv'
  <1> USE DEF IInv, Past
  <1>1. Shape' /\ DoneMeansLoaded'
    BY DEF Shape, DoneMeansLoaded
  <1>2. LoaderHasLock'
    BY DEF LoaderHasLock
  <1>3. WorksWithModel'
    <2> SUFFICES ASSUME NEW u \in Threads, InCall(u)'
                 PROVE  init'.done \/ call'[u].pc \in {"init", "load"}
      BY DEF WorksWithModel
    <2>1. CASE u = t
      BY <2>1 DEF WorksWithModel
    <2>2. CASE u # t
      BY <2>2 DEF WorksWithModel, InCall
    <2> QED BY <2>1, <2>2
  <1> QED BY <1>1, <1>2, <1>3

-----------------------------------------------------------------------------
(* The actions.                                                            *)

LEMMA StartKeeps ==
    ASSUME NEW t \in Threads, IInv, generate(t)
    PROVE  IInv'
  <1>1. /\ init' = init
        /\ DOMAIN call' = DOMAIN call
        /\ \A u \in Threads \ {t} : call'[u] = call[u]
        /\ "pc" \in DOMAIN call'[t]
        /\ call'[t].pc = IF init.done THEN "enqueue" ELSE "init"
        /\ call[t].pc = "idle"
    BY DEF generate, Goto, IInv, Shape
  <1> QED BY <1>1 DEF IInv, Shape, LoaderHasLock, DoneMeansLoaded, WorksWithModel, InCall

LEMMA AcquireKeeps ==
    ASSUME NEW t \in Threads, IInv, AcquireInitLock(t)
    PROVE  IInv'
  <1>1. /\ DOMAIN call' = DOMAIN call
        /\ \A u \in Threads \ {t} : call'[u] = call[u]
        /\ "pc" \in DOMAIN call'[t]
        /\ call[t].pc = "init"
        /\ init.lock = NoThread
    BY DEF AcquireInitLock, Goto, IInv, Shape
  <1>2. CASE init.done
    <2>1. call'[t].pc = "enqueue" /\ init' = init
      BY <1>2 DEF AcquireInitLock, Goto, Recheck, IInv, Shape
    <2> QED
      BY <1>1, <1>2, <2>1
         DEF IInv, Shape, LoaderHasLock, DoneMeansLoaded, WorksWithModel, InCall
  <1>3. CASE ~init.done
    <2>1. call'[t].pc = "load" /\ init' = [init EXCEPT !.lock = t]
      BY <1>3 DEF AcquireInitLock, Goto, Recheck, IInv, Shape
    <2>2. init'.lock = t /\ init'.done = init.done /\ init'.loads = init.loads
      BY <2>1 DEF IInv, Shape
    <2>3. Shape' /\ DoneMeansLoaded'
      BY <1>1, <1>3, <2>1, <2>2 DEF IInv, Shape, DoneMeansLoaded
    <2>4. LoaderHasLock'
      BY <1>1, <2>1, <2>2, GenerateAssumption DEF IInv, LoaderHasLock
    <2>5. WorksWithModel'
      BY <1>1, <2>1, <2>2 DEF IInv, WorksWithModel, InCall
    <2> QED BY <2>3, <2>4, <2>5 DEF IInv
  <1> QED BY <1>2, <1>3

LEMMA LoadKeeps ==
    ASSUME NEW t \in Threads, IInv, Load(t) \/ LoadRaises(t)
    PROVE  IInv'
  <1>1. /\ DOMAIN call' = DOMAIN call
        /\ \A u \in Threads \ {t} : call'[u] = call[u]
        /\ "pc" \in DOMAIN call'[t]
        /\ call[t].pc = "load"
    BY DEF Load, LoadRaises, Goto, IInv, Shape
  <1>2. init.lock = t /\ ~init.done /\ init.loads = 0
    BY <1>1, GenerateAssumption DEF IInv, LoaderHasLock, DoneMeansLoaded, Shape
  <1>3. \A u \in Threads \ {t} : call'[u].pc # "load"
    BY <1>1, <1>2 DEF IInv, LoaderHasLock
  <1>4. CASE Load(t)
    <2>1. /\ call'[t].pc = "enqueue"
          /\ init'.lock = NoThread /\ init'.done = TRUE /\ init'.loads = 1
      BY <1>2, <1>4 DEF Load, Goto, IInv, Shape
    <2>2. Shape'
      <3>1. init' = [done |-> TRUE, lock |-> NoThread, loads |-> init.loads + 1,
                     failures |-> init.failures]
        BY <1>4 DEF Load, IInv, Shape
      <3>2. init.loads + 1 \in Nat /\ init.failures \in Nat
        BY DEF IInv, Shape
      <3> QED BY <1>1, <3>1, <3>2 DEF IInv, Shape
    <2>3. LoaderHasLock'
      BY <1>1, <1>3, <2>1, GenerateAssumption DEF LoaderHasLock
    <2>4. DoneMeansLoaded' /\ WorksWithModel'
      BY <2>1 DEF DoneMeansLoaded, WorksWithModel
    <2> QED BY <2>2, <2>3, <2>4 DEF IInv
  <1>5. CASE LoadRaises(t)
    <2>1. /\ call'[t].pc = "raised"
          /\ init'.lock = NoThread /\ init'.done = init.done /\ init'.loads = 0
      BY <1>2, <1>5 DEF LoadRaises, LockAfterRaise, Goto, IInv, Shape
    <2>2. Shape'
      <3>1. init' = [done |-> init.done, lock |-> NoThread, loads |-> init.loads,
                     failures |-> init.failures + 1]
        BY <1>5 DEF LoadRaises, LockAfterRaise, IInv, Shape
      <3>2. init.done \in BOOLEAN /\ init.loads \in Nat /\ init.failures + 1 \in Nat
        BY DEF IInv, Shape
      <3> QED BY <1>1, <3>1, <3>2 DEF IInv, Shape
    <2>3. LoaderHasLock'
      BY <1>1, <1>3, <2>1, GenerateAssumption DEF LoaderHasLock
    <2>4. DoneMeansLoaded' /\ WorksWithModel'
      BY <1>1, <1>2, <2>1 DEF IInv, DoneMeansLoaded, WorksWithModel, InCall
    <2> QED BY <2>2, <2>3, <2>4 DEF IInv
  <1> QED BY <1>4, <1>5

(* The statements of generate() after _lazy_init.                           *)
LEMMA LaterKeeps ==
    ASSUME NEW t \in Threads, IInv,
           \/ ReadCounter(t) \/ WriteCounter(t) \/ enqueue_request(t) \/ StartLoop(t)
           \/ TakeSnapshot(t) \/ Schedule(t) \/ Move(t) \/ Forward(t) \/ ForwardRaises(t)
           \/ ReadProcessed(t) \/ WriteProcessed(t) \/ CheckState(t) \/ SetState(t)
           \/ TransitionRaises(t) \/ StartSampling(t) \/ append_output_token(t)
           \/ CheckRemaining(t) \/ SetComplete(t) \/ EndSampling(t)
           \/ CompleteNext(t) \/ EndIteration(t) \/ BuildResults(t)
    PROVE  IInv'
  <1> USE DEF IInv, Shape, InCall, Past, Goto
  <1>1. CASE ReadCounter(t) \/ WriteCounter(t) \/ enqueue_request(t) \/ StartLoop(t)
    <2>1. Past(t)
      BY <1>1 DEF ReadCounter, WriteCounter, enqueue_request, StartLoop
    <2> QED BY <2>1, PastKeeps
  <1>2. CASE TakeSnapshot(t) \/ Move(t) \/ CompleteNext(t)
    <2>1. Past(t)
      BY <1>2 DEF TakeSnapshot, Move, CompleteNext
    <2> QED BY <2>1, PastKeeps
  <1>3. CASE Schedule(t)
    <2> DEFINE next(plan) == IF EmptyBatch(plan) THEN AfterIteration(t) ELSE "move"
               kept(plan) == IF EmptyBatch(plan) THEN <<>> ELSE plan
    <2>1. PICK plan :
              /\ init' = init
              /\ call' = [call EXCEPT ![t].pc = next(plan), ![t].snapshot = <<>>,
                                      ![t].batch = kept(plan)]
              /\ call[t].pc = "schedule"
      BY <1>3, Zenon DEF Schedule
    <2>2. next(plan) \in {"loop", "build", "move"}
      BY DEF AfterIteration
    <2> HIDE DEF next, kept
    <2>3. Past(t)
      BY <2>1, <2>2
    <2> QED BY <2>3, PastKeeps
  <1>4. CASE Forward(t) \/ ReadProcessed(t) \/ WriteProcessed(t) \/ SetState(t)
                \/ StartSampling(t) \/ append_output_token(t) \/ EndSampling(t)
    <2>1. Past(t)
      BY <1>4 DEF Forward, ReadProcessed, WriteProcessed, SetState, StartSampling,
                  append_output_token, EndSampling
    <2> QED BY <2>1, PastKeeps
  <1>5. CASE EndIteration(t)
    <2>1. Past(t)
      BY <1>5 DEF EndIteration, AfterIteration
    <2> QED BY <2>1, PastKeeps
  <1>6. CASE BuildResults(t)
    <2>1. PICK outputs :
              /\ init' = init
              /\ call' = [call EXCEPT ![t] =
                             [NoCall EXCEPT !.pc = "returned", !.results = outputs]]
              /\ call[t].pc \in {"build", "loop"}
      BY <1>6 DEF BuildResults
    <2>2. Past(t)
      BY <2>1 DEF NoCall
    <2> QED BY <2>2, PastKeeps
  <1>7. CASE ForwardRaises(t) \/ TransitionRaises(t)
    <2>1. /\ init' = init
          /\ call' = [call EXCEPT ![t] = [NoCall EXCEPT !.pc = "raised"]]
          /\ call[t].pc \in {"forward", "set_state", "set_complete"}
      BY <1>7 DEF ForwardRaises, TransitionRaises, Raise
    <2>2. Past(t)
      BY <2>1 DEF NoCall
    <2> QED BY <2>2, PastKeeps
  <1>8. CASE CheckState(t) \/ CheckRemaining(t) \/ SetComplete(t)
    <2>1. PICK c, l :
              /\ init' = init
              /\ call' = [call EXCEPT ![t] = c]
              /\ call[t].pc \in {"check_state", "check_remaining", "set_complete"}
              /\ "pc" \in DOMAIN c /\ c.pc = l
              /\ l \in {"set_state", "advance", "sample", "set_complete"}
      <3>1. /\ init' = init /\ DOMAIN call = Threads /\ "pc" \in DOMAIN call[t]
            /\ call[t].pc \in {"check_state", "check_remaining", "set_complete"}
        BY <1>8 DEF CheckState, CheckRemaining, SetComplete
      <3>2. \E c : /\ call' = [call EXCEPT ![t] = c] /\ "pc" \in DOMAIN c
                   /\ c.pc \in {"set_state", "advance", "sample", "set_complete"}
        <4>1. PICK c0 : c0 = call[t] OBVIOUS
        <4>2. \A l, x : /\ "pc" \in DOMAIN [c0 EXCEPT !.pc = l, !.target = x]
                        /\ [c0 EXCEPT !.pc = l, !.target = x].pc = l
          BY <3>1, <4>1
        <4>3. \A l, x : /\ "pc" \in DOMAIN [c0 EXCEPT !.pc = l, !.todo = x]
                        /\ [c0 EXCEPT !.pc = l, !.todo = x].pc = l
          BY <3>1, <4>1
        <4>4. \A ids : "pc" \in DOMAIN NextSampled(c0, ids) /\ NextSampled(c0, ids).pc = "sample"
          BY <3>1, <4>1 DEF NextSampled
        <4>5. CASE CheckState(t)
          <5>1. \/ call' = [call EXCEPT ![t] = [c0 EXCEPT !.pc = "set_state",
                                                         !.target = "CONTEXT_IN_PROGRESS"]]
                \/ call' = [call EXCEPT ![t] = [c0 EXCEPT !.pc = "set_state",
                                                         !.target = "GENERATION_IN_PROGRESS"]]
                \/ call' = [call EXCEPT ![t] = [c0 EXCEPT !.pc = "advance",
                                                         !.todo = Tail(c0.todo)]]
            BY <4>1, <4>5 DEF CheckState
          <5>2. PICK c1, c2, c3 :
                    /\ c1 = [c0 EXCEPT !.pc = "set_state", !.target = "CONTEXT_IN_PROGRESS"]
                    /\ c2 = [c0 EXCEPT !.pc = "set_state", !.target = "GENERATION_IN_PROGRESS"]
                    /\ c3 = [c0 EXCEPT !.pc = "advance", !.todo = Tail(c0.todo)]
            OBVIOUS
          <5>3. /\ "pc" \in DOMAIN c1 /\ c1.pc = "set_state"
                /\ "pc" \in DOMAIN c2 /\ c2.pc = "set_state"
                /\ "pc" \in DOMAIN c3 /\ c3.pc = "advance"
            BY <4>2, <4>3, <5>2
          <5>4. \/ call' = [call EXCEPT ![t] = c1]
                \/ call' = [call EXCEPT ![t] = c2]
                \/ call' = [call EXCEPT ![t] = c3]
            BY <5>1, <5>2
          <5> QED BY <5>3, <5>4
        <4>6. CASE CheckRemaining(t)
          <5>1. \/ call' = [call EXCEPT ![t] = NextSampled(c0, <<>>)]
                \/ call' = [call EXCEPT ![t] = NextSampled(c0, <<request[Current(t)].id>>)]
                \/ call' = [call EXCEPT ![t] = [c0 EXCEPT !.pc = "set_complete",
                                                         !.target = "GENERATION_COMPLETE"]]
            BY <4>1, <4>6 DEF CheckRemaining
          <5>2. PICK c1 :
                    c1 = [c0 EXCEPT !.pc = "set_complete", !.target = "GENERATION_COMPLETE"]
            OBVIOUS
          <5>3. "pc" \in DOMAIN c1 /\ c1.pc = "set_complete" BY <4>2, <5>2
          <5>4. \/ \E ids : call' = [call EXCEPT ![t] = NextSampled(c0, ids)]
                \/ call' = [call EXCEPT ![t] = c1]
            BY <5>1, <5>2
          <5> QED BY <4>4, <5>3, <5>4
        <4>7. CASE SetComplete(t)
          BY <4>1, <4>4, <4>7 DEF SetComplete
        <4> QED BY <1>8, <4>5, <4>6, <4>7
      <3> QED BY <3>1, <3>2
    <2>2. Past(t)
      BY <2>1
    <2> QED BY <2>2, PastKeeps
  <1> QED BY <1>1, <1>2, <1>3, <1>4, <1>5, <1>6, <1>7, <1>8

-----------------------------------------------------------------------------
(* The handlers of the server change nothing of generate_vars but through   *)
(* generate().                                                              *)
LEMMA StepKeeps == IInv /\ [Next]_vars => IInv'
  <1> SUFFICES ASSUME IInv, [Next]_vars PROVE IInv'
    OBVIOUS
  <1>1. CASE UNCHANGED generate_vars
    BY <1>1 DEF generate_vars, IInv, Shape, LoaderHasLock, DoneMeansLoaded, WorksWithModel,
                InCall
  <1>2. CASE UNCHANGED vars
    BY <1>1, <1>2 DEF vars
  <1>3. ASSUME NEW t \in Threads, Reject(t) \/ chat_completions(t) \/ Work(t)
        PROVE  IInv'
    <2>1. CASE Reject(t) \/ Answer(t) \/ SendContent(t) \/ SendFinish(t) \/ SendDone(t)
      BY <1>1, <2>1 DEF Reject, Answer, SendContent, SendFinish, SendDone
    <2>2. CASE chat_completions(t)
      BY <2>2, StartKeeps DEF chat_completions
    <2>3. CASE GenerateStep(t)
      BY <2>3, AcquireKeeps, LoadKeeps, LaterKeeps DEF GenerateStep
    <2> QED BY <1>3, <2>1, <2>2, <2>3 DEF Work
  <1> QED BY <1>2, <1>3 DEF Next

(* However many threads call generate(), and whichever loads raise, one     *)
(* load takes effect and nobody works before it (LLM._lazy_init).           *)
THEOREM LoadedOnce == Spec => []InitOnce
  <1>1. IInv => InitOnce
    BY DEF IInv, Shape, DoneMeansLoaded, WorksWithModel, InitOnce
  <1> QED BY <1>1, InitIInv, StepKeeps, PTL DEF Spec

-----------------------------------------------------------------------------
(* The stream.  Its events up to one that is no text.                       *)

EventKind == {"422", "500", "completion", "role", "content", "finish", "[DONE]"}
EventType == [kind : EventKind, from : Nat, to : Nat]

(* The first n events of s are the role and the text up to character end.   *)
TextUpTo(s, n, end) ==
    /\ n >= 1
    /\ s[1].kind = "role" /\ s[1].to = 0
    /\ \A i \in 2 .. n :
          s[i].kind = "content" /\ s[i].from = s[i - 1].to /\ s[i].from < s[i].to
    /\ s[n].to = end

HandlerType ==
    [phase : {"new", "generate", "content", "finish", "done", "over"},
     len : Nat, at : Nat, sent : Seq(EventType)]

(* at runs past the last character when the last piece is a short one.      *)
StreamOf(h) ==
    LET s == h.sent  n == Len(s) IN
    /\ h.phase \in {"new", "generate"} => n = 0 /\ h.at = 0
    /\ h.phase = "content" => TextUpTo(s, n, AtMost(h.at, h.len))
    /\ h.phase = "finish" => TextUpTo(s, n, h.len)
    /\ h.phase = "done" => n >= 2 /\ TextUpTo(s, n - 1, h.len) /\ s[n].kind = "finish"
    /\ h.phase = "over" /\ n > 0 /\ s[n].kind = "[DONE]" =>
          n >= 3 /\ TextUpTo(s, n - 2, h.len) /\ s[n - 1].kind = "finish"

StreamsOK ==
    /\ http \in [Threads -> HandlerType]
    /\ \A t \in Streaming : StreamOf(http[t])

(* An event that is sent leaves the earlier ones.                           *)
LEMMA SentLater ==
    ASSUME NEW s \in Seq(EventType), NEW e \in EventType
    PROVE  /\ Append(s, e) \in Seq(EventType) /\ Len(Append(s, e)) = Len(s) + 1
           /\ Len(s) \in Nat /\ Append(s, e)[Len(s) + 1] = e
           /\ \A i \in 1 .. Len(s) : Append(s, e)[i] = s[i]
           /\ \A n \in 1 .. Len(s) : \A end :
                  TextUpTo(s, n, end) => TextUpTo(Append(s, e), n, end)
<1> DEFINE t == Append(s, e)
           m == Len(s)
<1>1. /\ t \in Seq(EventType) /\ Len(t) = m + 1 /\ m \in Nat /\ t[m + 1] = e
      /\ \A i \in 1 .. m : t[i] = s[i]
  BY AppendProperties, LenProperties
<1> HIDE DEF t, m
<1>2. ASSUME NEW n \in 1 .. m, NEW end, TextUpTo(s, n, end) PROVE TextUpTo(t, n, end)
  <2>1. t[1] = s[1] /\ t[n] = s[n] /\ n >= 1 BY <1>1
  <2>2. ASSUME NEW i \in 2 .. n PROVE t[i] = s[i] /\ t[i - 1] = s[i - 1]
    <3>1. i \in 1 .. m /\ i - 1 \in 1 .. m BY <1>1
    <3> QED BY <1>1, <3>1
  <2> QED BY <1>2, <2>1, <2>2 DEF TextUpTo
<1> QED BY <1>1, <1>2 DEF t, m

(* A piece that begins where the text ends makes it longer.                 *)
LEMMA TextGrows ==
    ASSUME NEW s \in Seq(EventType), NEW at \in Nat, NEW end \in Nat, at < end,
           TextUpTo(s, Len(s), at)
    PROVE  TextUpTo(Append(s, Piece(at, end)), Len(s) + 1, end)
<1> DEFINE m == Len(s)
           e == Piece(at, end)
           t == Append(s, e)
<1>1. e \in EventType /\ e.kind = "content" /\ e.from = at /\ e.to = end
  BY DEF Piece, EventType, EventKind
<1> HIDE DEF e
<1>2. /\ m \in Nat /\ m >= 1 /\ t[m + 1] = e /\ \A i \in 1 .. m : t[i] = s[i]
  BY <1>1, SentLater DEF TextUpTo
<1> HIDE DEF t, m
<1>3. TextUpTo(s, m, at)
  BY DEF m
<1>4. t[1] = s[1] /\ t[m] = s[m]
  BY <1>2
<1>5. ASSUME NEW i \in 2 .. m + 1
      PROVE  t[i].kind = "content" /\ t[i].from = t[i - 1].to /\ t[i].from < t[i].to
  <2>1. CASE i = m + 1
    <3>1. i - 1 = m BY <1>2, <2>1
    <3> QED BY <1>1, <1>2, <1>3, <1>4, <2>1, <3>1 DEF TextUpTo
  <2>2. CASE i # m + 1
    <3>1. i \in 2 .. m /\ i \in 1 .. m /\ i - 1 \in 1 .. m BY <1>2, <2>2
    <3> QED BY <1>2, <1>3, <3>1 DEF TextUpTo
  <2> QED BY <2>1, <2>2
<1> QED BY <1>1, <1>2, <1>3, <1>4, <1>5 DEF TextUpTo, t, m, e

(* A handler with one field changed.                                        *)
LEMMA Fields ==
    ASSUME NEW h \in HandlerType, NEW phase, NEW sent
    PROVE  /\ [h EXCEPT !.phase = phase]
                  = [phase |-> phase, len |-> h.len, at |-> h.at, sent |-> h.sent]
           /\ [h EXCEPT !.sent = sent]
                  = [phase |-> h.phase, len |-> h.len, at |-> h.at, sent |-> sent]
<1>1. h = [phase |-> h.phase, len |-> h.len, at |-> h.at, sent |-> h.sent]
  BY DEF HandlerType
<1>2. PICK p, l, a, s : p = h.phase /\ l = h.len /\ a = h.at /\ s = h.sent
  OBVIOUS
<1>3. h = [phase |-> p, len |-> l, at |-> a, sent |-> s]
  BY <1>1, <1>2
<1>4. /\ [h EXCEPT !.phase = phase] = [phase |-> phase, len |-> l, at |-> a, sent |-> s]
      /\ [h EXCEPT !.sent = sent] = [phase |-> p, len |-> l, at |-> a, sent |-> sent]
  BY <1>3
<1> QED BY <1>2, <1>4

(* The handler of t moves on.                                               *)
Becomes(t, phase, len, at, sent) ==
    http' = [http EXCEPT ![t] = [phase |-> phase, len |-> len, at |-> at, sent |-> sent]]

LEMMA HandlerKeeps ==
    ASSUME StreamsOK, NEW t \in Threads,
           NEW phase \in {"new", "generate", "content", "finish", "done", "over"},
           NEW len \in Nat, NEW at \in Nat, NEW sent \in Seq(EventType),
           Becomes(t, phase, len, at, sent),
           t \in Streaming => StreamOf([phase |-> phase, len |-> len, at |-> at, sent |-> sent])
    PROVE  StreamsOK'
<1> DEFINE h == [phase |-> phase, len |-> len, at |-> at, sent |-> sent]
<1>1. h \in HandlerType BY DEF HandlerType
<1>2. http' = [http EXCEPT ![t] = h] BY DEF Becomes
<1>3. t \in Streaming => StreamOf(h) OBVIOUS
<1> HIDE DEF h
<1>4. http' \in [Threads -> HandlerType] BY <1>1, <1>2 DEF StreamsOK
<1>5. ASSUME NEW u \in Streaming PROVE StreamOf(http'[u])
  <2>1. u \in Threads BY ChatAssumption
  <2>2. CASE u = t
    <3>1. http'[u] = h BY <1>2, <2>1, <2>2 DEF StreamsOK
    <3> QED BY <1>3, <2>2, <3>1
  <2>3. CASE u # t
    <3>1. http'[u] = http[u] BY <1>2, <2>1, <2>3 DEF StreamsOK
    <3> QED BY <3>1 DEF StreamsOK
  <2> QED BY <2>2, <2>3
<1> QED BY <1>4, <1>5 DEF StreamsOK

(* What a handler sends in one event.                                       *)
LEMMA SendKeeps ==
    ASSUME StreamsOK, NEW t \in Threads, NEW e \in EventType,
           NEW phase \in {"new", "generate", "content", "finish", "done", "over"},
           Send(t, e, phase),
           t \in Streaming =>
               StreamOf([phase |-> phase, len |-> http[t].len, at |-> http[t].at,
                         sent |-> Append(http[t].sent, e)])
    PROVE  StreamsOK'
<1>1. http \in [Threads -> HandlerType] /\ http[t] \in HandlerType
  BY DEF StreamsOK
<1>2. http[t].len \in Nat /\ http[t].at \in Nat /\ http[t].sent \in Seq(EventType)
  BY <1>1 DEF HandlerType
<1>3. Append(http[t].sent, e) \in Seq(EventType) BY <1>2, SentLater
<1>4. Becomes(t, phase, http[t].len, http[t].at, Append(http[t].sent, e))
  <2> DEFINE h == http[t]
             u == Append(h.sent, e)
  <2>1. http' = [http EXCEPT ![t] = [h EXCEPT !.sent = u, !.phase = phase]]
    BY <1>1 DEF Send
  <2>2. h \in HandlerType BY <1>1
  <2> HIDE DEF h, u
  <2>3. [h EXCEPT !.sent = u, !.phase = phase]
            = [phase |-> phase, len |-> h.len, at |-> h.at, sent |-> u]
    <3>1. [h EXCEPT !.sent = u, !.phase = phase]
              = [[h EXCEPT !.sent = u] EXCEPT !.phase = phase]
      OBVIOUS
    <3>2. [h EXCEPT !.sent = u] = [phase |-> h.phase, len |-> h.len, at |-> h.at, sent |-> u]
      BY <2>2, Fields
    <3>3. [[phase |-> h.phase, len |-> h.len, at |-> h.at, sent |-> u] EXCEPT !.phase = phase]
              = [phase |-> phase, len |-> h.len, at |-> h.at, sent |-> u]
      OBVIOUS
    <3> QED BY <3>1, <3>2, <3>3
  <2>4. http' = [http EXCEPT ![t] = [phase |-> phase, len |-> h.len, at |-> h.at, sent |-> u]]
    BY <2>1, <2>3
  <2> QED BY <2>4 DEF Becomes, h, u
<1> QED BY <1>2, <1>3, <1>4, HandlerKeeps

(* Each event that is no piece of the text.                                 *)
LEMMA AroundTextKeeps ==
    ASSUME StreamsOK, NEW t \in Threads,
           Reject(t) \/ chat_completions(t) \/ Answer(t) \/ SendFinish(t) \/ SendDone(t)
    PROVE  StreamsOK'
<1> DEFINE h == http[t]
           s == h.sent
           n == Len(s)
<1>1. http \in [Threads -> HandlerType] /\ h \in HandlerType
  BY DEF StreamsOK
<1>2. /\ h.len \in Nat /\ h.at \in Nat /\ s \in Seq(EventType) /\ n \in Nat
      /\ h = [phase |-> h.phase, len |-> h.len, at |-> h.at, sent |-> h.sent]
  BY <1>1, LenProperties DEF HandlerType
<1>3. t \in Streaming => StreamOf(h)
  BY DEF StreamsOK
<1>4. ASSUME NEW k \in EventKind
      PROVE  /\ Event(k) \in EventType /\ Event(k).kind = k /\ Event(k).to = 0
             /\ Append(s, Event(k)) \in Seq(EventType)
             /\ Len(Append(s, Event(k))) = n + 1
             /\ Append(s, Event(k))[n + 1] = Event(k)
             /\ \A i \in 1 .. n : Append(s, Event(k))[i] = s[i]
             /\ \A j \in 1 .. n : \A end : TextUpTo(s, j, end) => TextUpTo(Append(s, Event(k)), j, end)
  <2> DEFINE e == Event(k)
  <2>1. e \in EventType /\ e.kind = k /\ e.to = 0 BY DEF Event, EventType
  <2> HIDE DEF e
  <2> QED BY <1>2, <2>1, SentLater DEF e
<1> HIDE DEF h, s, n
<1>5. CASE Reject(t)
  <2>1. Send(t, Event("422"), "over") /\ h.phase = "new" BY <1>5 DEF Reject, h
  <2> DEFINE u == Append(s, Event("422"))
  <2>2. /\ Event("422") \in EventType /\ Len(u) = n + 1 /\ u[n + 1].kind = "422"
    BY <1>4 DEF EventKind
  <2> HIDE DEF u
  <2>3. StreamOf([phase |-> "over", len |-> h.len, at |-> h.at, sent |-> u])
    BY <2>2 DEF StreamOf
  <2> QED BY <2>1, <2>2, <2>3, SendKeeps DEF h, s, u
<1>6. CASE chat_completions(t)
  <2>1. h.phase = "new" /\ http' = [http EXCEPT ![t].phase = "generate"]
    BY <1>6 DEF chat_completions, h
  <2>2. Becomes(t, "generate", h.len, h.at, s)
    <3>1. http' = [http EXCEPT ![t] = [h EXCEPT !.phase = "generate"]] BY <1>1, <2>1 DEF h
    <3>2. [h EXCEPT !.phase = "generate"]
              = [phase |-> "generate", len |-> h.len, at |-> h.at, sent |-> s]
      BY <1>1, Fields DEF s
    <3> QED BY <3>1, <3>2 DEF Becomes
  <2>3. t \in Streaming =>
            StreamOf([phase |-> "generate", len |-> h.len, at |-> h.at, sent |-> s])
    BY <1>3, <2>1 DEF StreamOf, s
  <2> QED BY <1>2, <2>2, <2>3, HandlerKeeps
<1>7. CASE Answer(t)
  <2>1. h.phase = "generate" BY <1>7 DEF Answer, h
  <2>2. ASSUME NEW k \in EventKind, t \notin Streaming, Send(t, Event(k), "over") PROVE StreamsOK'
    BY <1>4, <2>2, SendKeeps
  <2>3. CASE http' = [http EXCEPT ![t].phase = "over"]
    <3>1. Becomes(t, "over", h.len, h.at, s)
      <4>1. http' = [http EXCEPT ![t] = [h EXCEPT !.phase = "over"]] BY <1>1, <2>3 DEF h
      <4>2. [h EXCEPT !.phase = "over"]
                = [phase |-> "over", len |-> h.len, at |-> h.at, sent |-> s]
        BY <1>1, Fields DEF s
      <4> QED BY <4>1, <4>2 DEF Becomes
    <3>2. t \in Streaming => StreamOf([phase |-> "over", len |-> h.len, at |-> h.at, sent |-> s])
      BY <1>2, <1>3, <2>1 DEF StreamOf, s, n
    <3> QED BY <1>2, <3>1, <3>2, HandlerKeeps
  <2>4. CASE t \in Streaming /\ \E m \in TextLens :
                 http' = [http EXCEPT
                     ![t].phase = "content",
                     ![t].len = IF call[t].results[1].tokens = 0 THEN 0 ELSE m,
                     ![t].sent = Append(@, Event("role"))]
    <3>1. PICK len \in Nat : http' = [http EXCEPT ![t].phase = "content", ![t].len = len,
                                                  ![t].sent = Append(@, Event("role"))]
      <4>1. PICK m \in TextLens :
                 http' = [http EXCEPT
                     ![t].phase = "content",
                     ![t].len = IF call[t].results[1].tokens = 0 THEN 0 ELSE m,
                     ![t].sent = Append(@, Event("role"))]
        BY <2>4
      <4>2. (IF call[t].results[1].tokens = 0 THEN 0 ELSE m) \in Nat BY ChatAssumption
      <4> QED BY <4>1, <4>2
    <3> DEFINE u == Append(s, Event("role"))
    <3>2. n = 0 /\ h.at = 0 BY <1>3, <2>1, <2>4 DEF StreamOf, s, n
    <3>3. /\ u \in Seq(EventType) /\ Len(u) = 1 /\ u[1].kind = "role" /\ u[1].to = 0
      BY <1>4, <3>2 DEF EventKind
    <3>4. Becomes(t, "content", len, h.at, u)
      <4>1. http' = [http EXCEPT ![t] = [h EXCEPT !.phase = "content", !.len = len,
                                                  !.sent = u]]
        BY <1>1, <3>1 DEF h, s
      <4> HIDE DEF u
      <4>2. [h EXCEPT !.phase = "content", !.len = len, !.sent = u]
                = [phase |-> "content", len |-> len, at |-> h.at, sent |-> u]
        <5>1. [h EXCEPT !.phase = "content", !.len = len, !.sent = u]
                  = [[[h EXCEPT !.phase = "content"] EXCEPT !.len = len] EXCEPT !.sent = u]
          OBVIOUS
        <5>2. [h EXCEPT !.phase = "content"]
                  = [phase |-> "content", len |-> h.len, at |-> h.at, sent |-> h.sent]
          BY <1>1, Fields
        <5>3. [[phase |-> "content", len |-> h.len, at |-> h.at, sent |-> h.sent]
                   EXCEPT !.len = len]
                  = [phase |-> "content", len |-> len, at |-> h.at, sent |-> h.sent]
          OBVIOUS
        <5>4. [[phase |-> "content", len |-> len, at |-> h.at, sent |-> h.sent]
                   EXCEPT !.sent = u]
                  = [phase |-> "content", len |-> len, at |-> h.at, sent |-> u]
          OBVIOUS
        <5> QED BY <5>1, <5>2, <5>3, <5>4
      <4> QED BY <4>1, <4>2 DEF Becomes
    <3> HIDE DEF u
    <3>5. TextUpTo(u, 1, 0) BY <3>3 DEF TextUpTo
    <3>6. AtMost(0, len) = 0 BY DEF AtMost
    <3>7. StreamOf([phase |-> "content", len |-> len, at |-> h.at, sent |-> u])
      BY <3>2, <3>3, <3>5, <3>6 DEF StreamOf
    <3> QED BY <1>2, <3>3, <3>4, <3>7, HandlerKeeps
  <2> QED BY <1>7, <2>2, <2>3, <2>4 DEF Answer, EventKind
<1>8. CASE SendFinish(t)
  <2>1. Send(t, Event("finish"), "done") /\ h.phase = "finish" BY <1>8 DEF SendFinish, h
  <2> DEFINE u == Append(s, Event("finish"))
  <2>2. /\ Event("finish") \in EventType /\ Len(u) = n + 1 /\ u[n + 1].kind = "finish"
        /\ \A j \in 1 .. n : \A end : TextUpTo(s, j, end) => TextUpTo(u, j, end)
    BY <1>4 DEF EventKind
  <2> HIDE DEF u
  <2>3. t \in Streaming => StreamOf([phase |-> "done", len |-> h.len, at |-> h.at, sent |-> u])
    <3> SUFFICES ASSUME t \in Streaming
                 PROVE  StreamOf([phase |-> "done", len |-> h.len, at |-> h.at, sent |-> u])
      OBVIOUS
    <3>1. TextUpTo(s, n, h.len) BY <1>3, <2>1 DEF StreamOf, s, n
    <3>2. n >= 1 BY <3>1 DEF TextUpTo
    <3>3. n \in 1 .. n /\ n + 1 >= 2 /\ (n + 1) - 1 = n BY <1>2, <3>2
    <3>4. TextUpTo(u, n, h.len) BY <2>2, <3>1, <3>3
    <3> QED BY <2>2, <3>3, <3>4 DEF StreamOf
  <2> QED BY <2>1, <2>2, <2>3, SendKeeps DEF h, s, u
<1>9. CASE SendDone(t)
  <2>1. Send(t, Event("[DONE]"), "over") /\ h.phase = "done" BY <1>9 DEF SendDone, h
  <2> DEFINE u == Append(s, Event("[DONE]"))
  <2>2. /\ Event("[DONE]") \in EventType /\ Len(u) = n + 1
        /\ \A i \in 1 .. n : u[i] = s[i]
        /\ \A j \in 1 .. n : \A end : TextUpTo(s, j, end) => TextUpTo(u, j, end)
    BY <1>4 DEF EventKind
  <2> HIDE DEF u
  <2>3. t \in Streaming => StreamOf([phase |-> "over", len |-> h.len, at |-> h.at, sent |-> u])
    <3> SUFFICES ASSUME t \in Streaming
                 PROVE  StreamOf([phase |-> "over", len |-> h.len, at |-> h.at, sent |-> u])
      OBVIOUS
    <3>1. n >= 2 /\ TextUpTo(s, n - 1, h.len) /\ s[n].kind = "finish"
      BY <1>3, <2>1 DEF StreamOf, s, n
    <3>2. /\ n - 1 \in 1 .. n /\ n \in 1 .. n /\ n + 1 >= 3
          /\ (n + 1) - 2 = n - 1 /\ (n + 1) - 1 = n
      BY <1>2, <3>1
    <3>3. TextUpTo(u, n - 1, h.len) /\ u[n].kind = "finish" BY <2>2, <3>1, <3>2
    <3> QED BY <2>2, <3>2, <3>3 DEF StreamOf
  <2> QED BY <2>1, <2>2, <2>3, SendKeeps DEF h, s, u
<1> QED BY <1>5, <1>6, <1>7, <1>8, <1>9

(* A piece of the text, or the end of it.                                   *)
LEMMA ContentKeeps ==
    ASSUME StreamsOK, NEW t \in Threads, SendContent(t)
    PROVE  StreamsOK'
<1> DEFINE h == http[t]
           s == h.sent
           chunk == chunk_size(t)
           end == AtMost(h.at + chunk, h.len)
<1>1. http \in [Threads -> HandlerType] /\ h \in HandlerType
  BY DEF StreamsOK
<1>2. h.len \in Nat /\ h.at \in Nat /\ s \in Seq(EventType) /\ Len(s) \in Nat
  BY <1>1, LenProperties DEF HandlerType
<1>3. chunk \in Nat \ {0} BY <1>2 DEF chunk_size, AtLeast
<1>4. /\ h.phase = "content"
      /\ IF MoreText(t) /\ h.at < end
         THEN http' = [http EXCEPT ![t].sent = Append(@, Piece(h.at, end)),
                                   ![t].at = h.at + chunk]
         ELSE http' = [http EXCEPT ![t].phase = "finish"]
  BY DEF SendContent
<1>5. t \in Streaming => TextUpTo(s, Len(s), AtMost(h.at, h.len))
  BY <1>4 DEF StreamsOK, StreamOf
<1>6. MoreText(t) <=> h.at < AtLeast(1, h.len)
  BY DEF MoreText
<1> HIDE DEF chunk
<1>7. CASE MoreText(t) /\ h.at < end
  <2> DEFINE e == Piece(h.at, end)
             u == Append(s, e)
  <2>1. end \in Nat /\ h.at < h.len /\ h.at + chunk \in Nat BY <1>2, <1>3, <1>7 DEF AtMost
  <2>2. AtMost(h.at, h.len) = h.at BY <1>2, <2>1 DEF AtMost
  <2>3. http' = [http EXCEPT ![t] = [h EXCEPT !.sent = u, !.at = h.at + chunk]]
    <3> HIDE DEF end
    <3> QED BY <1>1, <1>4, <1>7
  <2>4. AtMost(h.at + chunk, h.len) = end OBVIOUS
  <2> HIDE DEF end
  <2>5. e \in EventType BY <1>2, <2>1 DEF Piece, EventType, EventKind
  <2>6. t \in Streaming => TextUpTo(u, Len(s) + 1, end)
    <3>1. t \in Streaming => TextUpTo(s, Len(s), h.at) BY <1>5, <2>2
    <3> HIDE DEF h, s
    <3> QED BY <1>2, <1>7, <2>1, <3>1, TextGrows
  <2>7. u \in Seq(EventType) /\ Len(u) = Len(s) + 1
    <3> HIDE DEF e, s
    <3> QED BY <1>2, <2>5, SentLater
  <2>8. Becomes(t, h.phase, h.len, h.at + chunk, u)
    <3> HIDE DEF u, h
    <3>1. [h EXCEPT !.sent = u, !.at = h.at + chunk]
              = [phase |-> h.phase, len |-> h.len, at |-> h.at + chunk, sent |-> u]
      <4>1. [h EXCEPT !.sent = u, !.at = h.at + chunk]
                = [[h EXCEPT !.sent = u] EXCEPT !.at = h.at + chunk]
        OBVIOUS
      <4>2. [h EXCEPT !.sent = u] = [phase |-> h.phase, len |-> h.len, at |-> h.at, sent |-> u]
        BY <1>1, Fields
      <4>3. [[phase |-> h.phase, len |-> h.len, at |-> h.at, sent |-> u]
                EXCEPT !.at = h.at + chunk]
                = [phase |-> h.phase, len |-> h.len, at |-> h.at + chunk, sent |-> u]
        OBVIOUS
      <4> QED BY <4>1, <4>2, <4>3
    <3> QED BY <2>3, <3>1 DEF Becomes
  <2> HIDE DEF u, h, s
  <2>9. t \in Streaming =>
            StreamOf([phase |-> "content", len |-> h.len, at |-> h.at + chunk, sent |-> u])
    BY <2>4, <2>6, <2>7 DEF StreamOf
  <2> QED BY <1>2, <1>4, <2>1, <2>7, <2>8, <2>9, HandlerKeeps
<1>8. CASE ~(MoreText(t) /\ h.at < end)
  <2>1. http' = [http EXCEPT ![t] = [h EXCEPT !.phase = "finish"]]
    <3> HIDE DEF end
    <3> QED BY <1>1, <1>4, <1>8
  <2>2. Becomes(t, "finish", h.len, h.at, s)
    <3>1. [h EXCEPT !.phase = "finish"]
              = [phase |-> "finish", len |-> h.len, at |-> h.at, sent |-> s]
      BY <1>1, Fields
    <3> QED BY <2>1, <3>1 DEF Becomes
  <2>3. AtMost(h.at, h.len) = h.len
    <3>1. ~(h.at < AtLeast(1, h.len)) \/ ~(h.at < end) BY <1>6, <1>8
    <3>2. h.at >= h.len BY <1>2, <1>3, <3>1 DEF AtLeast, AtMost
    <3> QED BY <1>2, <3>2 DEF AtMost
  <2>4. t \in Streaming => StreamOf([phase |-> "finish", len |-> h.len, at |-> h.at, sent |-> s])
    <3> HIDE DEF h, s
    <3> QED BY <1>5, <2>3 DEF StreamOf
  <2> HIDE DEF h, s
  <2> QED BY <1>2, <2>2, <2>4, HandlerKeeps
<1> QED BY <1>7, <1>8

LEMMA StreamsStart == Init => StreamsOK
<1> SUFFICES ASSUME Init PROVE StreamsOK
  OBVIOUS
<1> DEFINE h == [phase |-> "new", len |-> 0, at |-> 0, sent |-> <<>>]
<1>1. http = [t \in Threads |-> h] BY DEF Init
<1>2. <<>> \in Seq(EventType) /\ Len(<<>>) = 0 OBVIOUS
<1>3. h \in HandlerType BY <1>2 DEF HandlerType
<1>4. StreamOf(h) BY <1>2 DEF StreamOf
<1> HIDE DEF h
<1> QED BY <1>1, <1>3, <1>4, ChatAssumption DEF StreamsOK

LEMMA StreamSteps == StreamsOK /\ [Next]_vars => StreamsOK'
<1> SUFFICES ASSUME StreamsOK, [Next]_vars PROVE StreamsOK'
  OBVIOUS
<1>1. CASE http' = http BY <1>1 DEF StreamsOK
<1>2. ASSUME NEW t \in Threads, Reject(t) \/ chat_completions(t) \/ Work(t) PROVE StreamsOK'
  BY <1>1, <1>2, AroundTextKeeps, ContentKeeps DEF Work
<1> QED BY <1>1, <1>2 DEF Next, vars

(* A stream that has ended carries the role, the whole text of the output   *)
(* in order and without a gap, the finish and [DONE], for every length the  *)
(* text may have (_stream_response, whose chunk_size rounds down).          *)
THEOREM StreamsWhole == Spec => []StreamExact
<1>1. StreamsOK => StreamExact
  <2> SUFFICES ASSUME StreamsOK, NEW t \in Streaming,
                      Len(http[t].sent) > 0,
                      http[t].sent[Len(http[t].sent)].kind = "[DONE]"
               PROVE  LET s == http[t].sent  n == Len(s) IN
                      /\ n >= 3
                      /\ s[1].kind = "role"
                      /\ s[n - 1].kind = "finish"
                      /\ \A i \in 2 .. n - 2 :
                            s[i].kind = "content" /\ s[i].from = s[i - 1].to
                            /\ s[i].from < s[i].to
                      /\ s[n - 2].to = http[t].len
    BY DEF StreamExact
  <2> DEFINE h == http[t]
             s == h.sent
             n == Len(s)
  <2>1. h \in HandlerType /\ StreamOf(h) BY ChatAssumption DEF StreamsOK
  <2>2. n \in Nat /\ h.phase \in {"new", "generate", "content", "finish", "done", "over"}
    BY <2>1, LenProperties DEF HandlerType
  <2>3. n > 0 /\ s[n].kind = "[DONE]" OBVIOUS
  <2> HIDE DEF h
  <2>4. ASSUME NEW end, TextUpTo(s, n, end) PROVE FALSE
    <3> HIDE DEF s, n
    <3>1. n = 1 \/ n \in 2 .. n BY <2>2, <2>3
    <3> QED BY <2>3, <2>4, <3>1 DEF TextUpTo
  <2>5. h.phase = "over" BY <2>1, <2>2, <2>3, <2>4 DEF StreamOf
  <2>6. n >= 3 /\ TextUpTo(s, n - 2, h.len) /\ s[n - 1].kind = "finish"
    BY <2>1, <2>3, <2>5 DEF StreamOf
  <2> HIDE DEF s, n
  <2>7. /\ n >= 3
        /\ s[1].kind = "role"
        /\ s[n - 1].kind = "finish"
        /\ \A i \in 2 .. n - 2 :
              s[i].kind = "content" /\ s[i].from = s[i - 1].to /\ s[i].from < s[i].to
        /\ s[n - 2].to = h.len
    BY <2>6 DEF TextUpTo
  <2> QED BY <2>7 DEF h, s, n
<1> QED BY <1>1, StreamsStart, StreamSteps, PTL DEF Spec

-----------------------------------------------------------------------------
(* Calls that do not overlap.                                               *)

EmptyPrompts == {o \in Objects : ContextLenOf(o) = 0}
Own(t) == {t} \X DOMAIN Prompts[t]

(* Whom the scheduler may see while t runs: empty prompts stay behind.      *)
Crowd(t) == Own(t) \cup EmptyPrompts

(* The least tokens that a prompt gets when nobody decodes.                 *)
Share(t) == AtLeast(1, max_num_tokens \div Cardinality(Crowd(t)))
ChunksOf(n, t) == (n + Share(t) - 1) \div Share(t)

SumOfPrompts(t, f) ==
    SumOver(DOMAIN Prompts[t], [i \in DOMAIN Prompts[t] |-> i], Len(Prompts[t]), f)

(* The iterations that the prompts of t take one after the other.           *)
Needed(t) ==
    SumOfPrompts(t, [i \in DOMAIN Prompts[t] |->
        IF Prompts[t][i] = 0 THEN 0 ELSE ChunksOf(Prompts[t][i], t) + MaxNew[t] - 1])

(* Empty prompts, which keep their place, leave one in the batch.           *)
FewEmptyPrompts == IsFiniteSet(EmptyPrompts) /\ Cardinality(EmptyPrompts) < max_batch_size

(* A full batch fits the blocks, whoever is in it.                          *)
BatchFits ==
    \E most \in 0 .. max_blocks :
        max_batch_size * most <= max_blocks /\ \A o \in Objects : BlocksForRequest(o) <= most

CapSuffices == \A t \in Threads : Needed(t) <= max_iters(t)

-----------------------------------------------------------------------------
(* How far a request is.                                                    *)

RequestType == [id : Nat, state : RequestState, processed : Nat, chunk : Nat, out : Nat]

Sent(o) == request[o].id # 0

Fresh(o) == request[o].state = "CONTEXT_INIT" /\ request[o].processed = 0 /\ request[o].out = 0
Prefilling(o) ==
    /\ request[o].state = "CONTEXT_IN_PROGRESS" /\ request[o].out = 0
    /\ 0 < request[o].processed /\ request[o].processed < ContextLenOf(o)
Decoding(o) ==
    /\ request[o].state = "GENERATION_IN_PROGRESS"
    /\ request[o].processed = ContextLenOf(o) /\ ContextLenOf(o) > 0
    /\ 0 < request[o].out /\ request[o].out < MaxTokensOf(o)
Complete(o) ==
    /\ request[o].state = "GENERATION_COMPLETE"
    /\ request[o].processed = ContextLenOf(o) /\ ContextLenOf(o) > 0
    /\ request[o].out = MaxTokensOf(o)

(* Begun: anywhere between the first chunk and the completion.              *)
Begun(o) ==
    /\ request[o].state # "GENERATION_COMPLETE"
    /\ 0 < request[o].processed /\ request[o].processed <= ContextLenOf(o)
    /\ request[o].out <= MaxTokensOf(o)
    /\ request[o].out = 0 \/ request[o].processed = ContextLenOf(o)
Spent(o) ==
    Begun(o) /\ request[o].processed = ContextLenOf(o) /\ request[o].out = MaxTokensOf(o)

(* Between two iterations a request that has begun is one of two.           *)
Settled(o) == Prefilling(o) \/ Decoding(o)

(* The prompt is processed, the first token is to come.                     *)
Primed(o) ==
    /\ request[o].state = "GENERATION_IN_PROGRESS" /\ request[o].out = 0
    /\ request[o].processed = ContextLenOf(o) /\ ContextLenOf(o) > 0

(* A token was appended; it may be the last.                                *)
Taken(o) ==
    /\ request[o].state = "GENERATION_IN_PROGRESS"
    /\ request[o].processed = ContextLenOf(o) /\ ContextLenOf(o) > 0
    /\ 0 < request[o].out /\ request[o].out <= MaxTokensOf(o)

Left(o) == ContextLenOf(o) - request[o].processed

(* The iterations that are left for a prompt.                               *)
WorkLeft(o) ==
    IF ContextLenOf(o) = 0 THEN 0
    ELSE IF Left(o) > 0 THEN ChunksOf(Left(o), o[1]) + MaxTokensOf(o) - 1
    ELSE MaxTokensOf(o) - request[o].out

WorkOf(t) == SumOfPrompts(t, [i \in DOMAIN Prompts[t] |-> WorkLeft(<<t, i>>)])

-----------------------------------------------------------------------------
(* The inductive invariant.                                                 *)

CallFields == DOMAIN NoCall

CallShape == DOMAIN call = Threads /\ \A t \in Threads : DOMAIN call[t] = CallFields

RequestsOK ==
    /\ request \in [Objects -> RequestType]
    /\ \A o \in Objects : Fresh(o) \/ Begun(o) \/ Complete(o)

IdsOK ==
    /\ counter \in Nat
    /\ \A o \in Objects : request[o].id <= counter
    /\ \A o, q \in Objects : Sent(o) /\ request[o].id = request[q].id => o = q

(* What is left of other calls are empty prompts that wait.                 *)
QueuesOK ==
    /\ waiting \in Seq(Objects) /\ IsInjective(waiting)
    /\ active \in Seq(Objects) /\ IsInjective(active)
    /\ Range(waiting) \cap Range(active) = {}
    /\ \A o \in Range(waiting) : Sent(o) /\ Fresh(o) /\ (o \in EmptyPrompts \/ InCall(o[1]))
    /\ \A o \in Range(active) : Sent(o) /\ o \notin EmptyPrompts /\ InCall(o[1])

Alone == \A t, u \in Threads : InCall(t) /\ InCall(u) => t = u

(* A call that has not begun, and one that has ended.                       *)
QuietOK(t) ==
    /\ call[t].pc = "idle" => call[t] = NoCall /\ \A o \in Own(t) : ~Sent(o) /\ Fresh(o)
    /\ call[t].pc = "returned" => Exact(t)

(* The prompts of t that are enqueued.                                      *)
EnqueuedOK(t) ==
    LET ids == call[t].request_ids IN
    /\ ids \in Seq(Nat) /\ Len(ids) <= Len(Prompts[t])
    /\ \A i \in DOMAIN Prompts[t] :
          IF i <= Len(ids) THEN ids[i] # 0 /\ request[<<t, i>>].id = ids[i]
          ELSE ~Sent(<<t, i>>) /\ Fresh(<<t, i>>)

Before == {"init", "load", "enqueue", "write_id", "return_id"}

BeforeOK(t) ==
    /\ call[t].completed = {}
    /\ call[t].pc \in {"init", "load"} => call[t].request_ids = <<>>
    /\ call[t].pc \in {"write_id", "return_id"} => Len(call[t].request_ids) < Len(Prompts[t])
    /\ call[t].pc = "write_id" => call[t].seen = counter
    /\ call[t].pc = "return_id" => \A o \in Objects : request[o].id < counter
    /\ \A i \in 1 .. Len(call[t].request_ids) : <<t, i>> \in Range(waiting)
    /\ active = <<>>

(* The bookkeeping after the forward pass: the chunks, then the tokens.      *)
Advancing == {"advance", "write_processed", "check_state", "set_state"}
Sampling == {"sample", "check_remaining", "set_complete"}

Looping == {"loop", "schedule", "move", "forward", "complete", "build"}
               \cup Advancing \cup Sampling

OutputOf(o) == [id |-> request[o].id, of |-> o, tokens |-> MaxTokensOf(o)]
Delivered(t) == {o \in Own(t) : Complete(o) /\ o \notin Range(active)}

(* Nothing of t is lost, and what is complete and gone is counted.          *)
CountedOK(t) ==
    /\ Len(call[t].request_ids) = Len(Prompts[t])
    /\ \A o \in Own(t) : o \in Range(waiting) \/ o \in Range(active) \/ Complete(o)
    /\ call[t].completed = {OutputOf(o) : o \in Delivered(t)}

(* The batch of the iteration that runs.                                    *)
Chunked(t) == Range(call[t].batch.context_chunking)
Finished(t) == Range(call[t].batch.context_last_chunk)
Generating(t) == Range(call[t].batch.generation)
Going(t) == Chunked(t) \cup Finished(t)

BatchLists(t) ==
    LET b == call[t].batch IN
    /\ b.context_chunking \in Seq(Objects) /\ IsInjective(b.context_chunking)
    /\ b.context_last_chunk \in Seq(Objects) /\ IsInjective(b.context_last_chunk)
    /\ b.generation \in Seq(Objects) /\ IsInjective(b.generation)
    /\ Chunked(t) \cap Finished(t) = {}
    /\ \A o \in Generating(t) : Decoding(o) /\ o \in Range(active)

(* Its chunk is to be counted.                                              *)
Untouched(t, o) ==
    /\ Fresh(o) \/ Prefilling(o)
    /\ o \in Chunked(t) => 0 < request[o].chunk /\ request[o].chunk < Left(o)
    /\ o \in Finished(t) => 0 < request[o].chunk /\ request[o].chunk = Left(o)

(* The chunk is counted, and the state may be behind.                       *)
Counted(t, o) ==
    /\ request[o].out = 0
    /\ 0 < request[o].processed
    /\ o \in Chunked(t) =>
          /\ request[o].state \in {"CONTEXT_INIT", "CONTEXT_IN_PROGRESS"}
          /\ request[o].processed < ContextLenOf(o)
    /\ o \in Finished(t) =>
          /\ request[o].state # "GENERATION_COMPLETE"
          /\ request[o].processed = ContextLenOf(o)

(* The state has followed.                                                  *)
Followed(t, o) ==
    /\ o \in Chunked(t) => Prefilling(o)
    /\ o \in Finished(t) => Primed(o)

BatchOK(t) == BatchLists(t) /\ \A o \in Going(t) : Untouched(t, o)

(* It brings some request of t nearer to its end.                           *)
BatchMoves(t) ==
    \/ call[t].batch.generation # <<>>
    \/ call[t].batch.context_last_chunk # <<>>
    \/ \E o \in Chunked(t) : request[o].chunk >= Share(t)

(* What a loop over a list has still to do, from its current one on.        *)
IsRest(todo, list) ==
    /\ todo \in Seq(Objects) /\ Len(todo) <= Len(list)
    /\ \A j \in 1 .. Len(todo) : todo[j] = list[Len(list) - Len(todo) + j]

(* The requests that the running loop has not changed yet.                  *)
Rest(t) ==
    IF call[t].pc \in {"advance", "write_processed", "sample"}
    THEN Range(call[t].todo) ELSE Range(Tail(call[t].todo))

AdvanceOK(t) ==
    LET todo == call[t].todo IN
    /\ BatchLists(t) /\ Going(t) \subseteq Range(active)
    /\ IsRest(todo, ContextOf(t))
    /\ call[t].pc # "advance" => todo # <<>>
    /\ \A o \in Rest(t) : Untouched(t, o)
    /\ \A o \in Going(t) \ Range(todo) : Followed(t, o)
    /\ \A o \in Range(active) \ Going(t) : Settled(o)
    /\ call[t].pc = "write_processed" =>
          call[t].seen = request[Head(todo)].processed + request[Head(todo)].chunk
    /\ call[t].pc \in {"check_state", "set_state"} => Counted(t, Head(todo))
    /\ call[t].pc = "set_state" =>
          \/ request[Head(todo)].state = "CONTEXT_INIT" /\ call[t].target = "CONTEXT_IN_PROGRESS"
          \/ /\ request[Head(todo)].state = "CONTEXT_IN_PROGRESS" /\ Head(todo) \in Finished(t)
             /\ call[t].target = "GENERATION_IN_PROGRESS"

CompleteIds == {request[o].id : o \in {q \in Range(active) : Complete(q)}}

SampleOK(t) ==
    LET todo == call[t].todo IN
    /\ todo \in Seq(Objects) /\ IsInjective(todo) /\ Range(todo) \subseteq Range(active)
    /\ call[t].pc # "sample" => todo # <<>>
    /\ \A o \in Rest(t) : Primed(o) \/ Decoding(o)
    /\ \A o \in Range(active) \ Range(todo) : Settled(o) \/ Complete(o)
    /\ call[t].pc # "sample" => Taken(Head(todo))
    /\ call[t].pc = "set_complete" =>
          /\ request[Head(todo)].out = MaxTokensOf(Head(todo))
          /\ call[t].target = "GENERATION_COMPLETE"
    /\ call[t].completed_ids \in Seq(Nat) /\ IsInjective(call[t].completed_ids)
    /\ Range(call[t].completed_ids) = CompleteIds

(* Some request of t is still to come nearer to its end in this iteration.  *)
Moving(t) ==
    \/ call[t].pc \in {"schedule", "move", "forward"}
    \/ /\ call[t].pc \in Advancing
       /\ \/ call[t].batch.generation # <<>>
          \/ call[t].batch.context_last_chunk # <<>>
          \/ \E o \in Chunked(t) \cap Rest(t) : request[o].chunk >= Share(t)
    \/ call[t].pc \in Sampling /\ Rest(t) # {}

(* The iterations that are left are enough.                                 *)
CapOK(t) ==
    /\ call[t].iters \in Nat
    /\ WorkOf(t) <= call[t].iters + IF Moving(t) THEN 1 ELSE 0

PhaseOK(t) ==
    /\ call[t].pc = "schedule" => call[t].snapshot = waiting
    /\ call[t].pc \in {"move", "forward"} => BatchOK(t) /\ BatchMoves(t)
    /\ call[t].pc = "move" => Going(t) \subseteq Range(waiting) \cup Range(active)
    /\ call[t].pc = "forward" => Going(t) \subseteq Range(active)
    /\ call[t].pc \in {"loop", "schedule", "move"} => \A o \in Range(active) : Settled(o)
    /\ call[t].pc = "forward" => \A o \in Range(active) \ Going(t) : Settled(o)
    /\ call[t].pc \in Advancing => AdvanceOK(t)
    /\ call[t].pc \in Sampling => SampleOK(t)
    /\ call[t].pc = "complete" =>
          /\ \A o \in Range(active) : Settled(o) \/ Complete(o)
          /\ call[t].completed_ids \in Seq(Nat) /\ IsInjective(call[t].completed_ids)
          /\ Range(call[t].completed_ids) = CompleteIds
    /\ call[t].pc = "build" => \A o \in Own(t) \ EmptyPrompts : o \in Delivered(t)

RunOK(t) ==
    /\ call[t].pc \in Before \cup Looping
    /\ EnqueuedOK(t)
    /\ call[t].pc \in Before => BeforeOK(t)
    /\ call[t].pc \in Looping => CountedOK(t) /\ CapOK(t) /\ PhaseOK(t)

SequentialOK ==
    /\ CallShape
    /\ RequestsOK /\ IdsOK /\ QueuesOK
    /\ Alone
    /\ \A t \in Threads : IF InCall(t) THEN RunOK(t) ELSE QuietOK(t)

SeqInv == ~overlapped => SequentialOK
-----------------------------------------------------------------------------
(* Chunks of a size, and how many of them there are.                        *)

LEMMA MultiplesOf ==
    ASSUME NEW a \in Nat, NEW b \in Nat, a < b, NEW s \in Nat
    PROVE  a * s \in Nat /\ b * s \in Nat /\ a * s + s <= b * s
<1>1. (b - (a + 1)) * s = b * s - (a * s + s) OBVIOUS
<1>2. b - (a + 1) \in Nat OBVIOUS
<1>3. \A x, y \in Nat : x * y \in Nat OBVIOUS
<1>4. (b - (a + 1)) * s \in Nat BY <1>2, <1>3
<1>5. a * s \in Nat /\ b * s \in Nat BY <1>3
<1> QED BY <1>1, <1>4, <1>5

LEMMA QuotientOf ==
    ASSUME NEW s \in Nat \ {0}, NEW n \in Nat
    PROVE  \E q \in Nat : n \div s = q /\ q * s \in Nat /\ q * s <= n /\ n < q * s + s
<1>1. n \div s \in Nat OBVIOUS
<1>2. n % s \in 0 .. s - 1 OBVIOUS
<1>3. n = s * (n \div s) + (n % s)
  <2>1. s \in Int /\ s > 0 /\ n \in Int OBVIOUS
  <2>2. \A b \in Int, a \in Int : b > 0 => a = b * (a \div b) + (a % b) OBVIOUS
  <2> QED BY <2>1, <2>2
<1>4. PICK q \in Nat, r \in 0 .. s - 1 : q = n \div s /\ n = s * q + r BY <1>1, <1>2, <1>3
<1>5. s * q = q * s OBVIOUS
<1>6. \A x, y \in Nat : x * y \in Nat OBVIOUS
<1>7. q * s \in Nat BY <1>6
<1>8. PICK m \in Nat : m = q * s BY <1>7
<1>9. n = m + r BY <1>4, <1>5, <1>8
<1>10. m <= n /\ n < m + s BY <1>9
<1> QED BY <1>4, <1>8, <1>10

Chunks(n, s) == (n + s - 1) \div s

LEMMA ChunksShrink ==
    ASSUME NEW s \in Nat \ {0}, NEW n \in Nat \ {0}
    PROVE  /\ Chunks(n, s) \in Nat \ {0}
           /\ \A m \in Nat \ {0} : m <= n => Chunks(m, s) <= Chunks(n, s)
           /\ \A m \in Nat \ {0} : m + s <= n => Chunks(m, s) + 1 <= Chunks(n, s)
<1>1. n + s - 1 \in Nat OBVIOUS
<1>2. PICK q \in Nat : Chunks(n, s) = q /\ q * s \in Nat /\ q * s <= n + s - 1 /\ n + s - 1 < q * s + s
  BY <1>1, QuotientOf DEF Chunks
<1>3. q # 0
  <2> SUFFICES ASSUME q = 0 PROVE FALSE OBVIOUS
  <2>1. q * s = 0 OBVIOUS
  <2> QED BY <1>2, <2>1
<1>4. ASSUME NEW m \in Nat \ {0}, m <= n
      PROVE  Chunks(m, s) <= q /\ (m + s <= n => Chunks(m, s) + 1 <= q)
  <2>1. m + s - 1 \in Nat OBVIOUS
  <2>2. PICK p \in Nat : Chunks(m, s) = p /\ p * s \in Nat /\ p * s <= m + s - 1 /\ m + s - 1 < p * s + s
    BY <2>1, QuotientOf DEF Chunks
  <2>3. p <= q
    <3> SUFFICES ASSUME q < p PROVE FALSE OBVIOUS
    <3>1. q * s + s <= p * s BY MultiplesOf
    <3> QED BY <1>2, <1>4, <2>2, <3>1
  <2>4. ASSUME m + s <= n, p = q PROVE FALSE
    <3>1. p * s = q * s BY <2>4
    <3> QED BY <1>2, <2>2, <2>4, <3>1
  <2> QED BY <2>2, <2>3, <2>4
<1>5. \A m \in Nat \ {0} : m + s <= n => m <= n OBVIOUS
<1> QED BY <1>2, <1>3, <1>4, <1>5

-----------------------------------------------------------------------------
(* Sums that shrink.                                                        *)

LEMMA SumsShrink ==
    ASSUME NEW n \in Nat, NEW X, NEW s \in Seq(X), Len(s) = n,
           NEW f \in [X -> Nat], NEW g \in [X -> Nat],
           \A x \in X : g[x] <= f[x]
    PROVE  /\ SumOver(1 .. n, s, n, f) \in Nat /\ SumOver(1 .. n, s, n, g) \in Nat
           /\ SumOver(1 .. n, s, n, g) <= SumOver(1 .. n, s, n, f)
           /\ \A j \in 1 .. n : g[s[j]] < f[s[j]] =>
                  SumOver(1 .. n, s, n, g) + 1 <= SumOver(1 .. n, s, n, f)
           /\ \A j \in 1 .. n : f[s[j]] <= SumOver(1 .. n, s, n, f)
<1> DEFINE F(k) == SumOver(1 .. n, s, k, f)
           G(k) == SumOver(1 .. n, s, k, g)
<1>1. f \in [X -> Int] /\ g \in [X -> Int] OBVIOUS
<1>2. SumsUp(1 .. n, s, f) /\ SumsUp(1 .. n, s, g) BY <1>1, SumOverNext
<1>3. \A k \in 1 .. n : s[k] \in X OBVIOUS
<1>4. F(0) = 0 /\ G(0) = 0 BY <1>2 DEF SumsUp
<1>5. ASSUME NEW k \in 1 .. n
      PROVE  /\ F(k) = F(k - 1) + f[s[k]] /\ G(k) = G(k - 1) + g[s[k]]
             /\ f[s[k]] \in Nat /\ g[s[k]] \in Nat /\ g[s[k]] <= f[s[k]]
  BY <1>2, <1>3 DEF SumsUp
<1> HIDE DEF F, G
<1> DEFINE P == {k \in 0 .. n :
                    /\ F(k) \in Nat /\ G(k) \in Nat /\ G(k) <= F(k)
                    /\ \A j \in 1 .. k : /\ g[s[j]] < f[s[j]] => G(k) + 1 <= F(k)
                                         /\ f[s[j]] <= F(k)}
<1>6. 0 \in P BY <1>4
<1>7. ASSUME NEW k \in 0 + 1 .. n, k - 1 \in P PROVE k \in P
  <2>1. k \in 1 .. n /\ k \in 0 .. n OBVIOUS
  <2>2. PICK a \in Nat, b \in Nat, c \in Nat, d \in Nat :
            a = F(k - 1) /\ b = G(k - 1) /\ c = f[s[k]] /\ d = g[s[k]] /\ b <= a /\ d <= c
    BY <1>5, <1>7, <2>1
  <2>3. F(k) = a + c /\ G(k) = b + d BY <1>5, <2>1, <2>2
  <2>4. ASSUME NEW j \in 1 .. k
        PROVE  (g[s[j]] < f[s[j]] => G(k) + 1 <= F(k)) /\ f[s[j]] <= F(k)
    <3>1. CASE j = k
      <4>1. f[s[j]] = c /\ g[s[j]] = d BY <2>2, <3>1
      <4>2. (d < c => (b + d) + 1 <= a + c) /\ c <= a + c BY <2>2
      <4> QED BY <2>3, <4>1, <4>2
    <3>2. CASE j # k
      <4>1. j \in 1 .. k - 1 BY <3>2
      <4>2. (g[s[j]] < f[s[j]] => b + 1 <= a) /\ f[s[j]] <= a BY <1>7, <2>2, <4>1
      <4>3. f[s[j]] \in Nat
        <5>1. j \in 1 .. n BY <2>1
        <5> QED BY <1>5, <5>1
      <4>4. PICK x \in Nat : x = f[s[j]] /\ x <= a BY <4>2, <4>3
      <4>5. g[s[j]] < f[s[j]] => (b + d) + 1 <= a + c
        <5>1. d <= c BY <2>2
        <5>2. b + 1 <= a => (b + d) + 1 <= a + c BY <5>1
        <5> QED BY <4>2, <5>2
      <4>6. x <= a + c BY <4>4
      <4> QED BY <2>3, <4>4, <4>5, <4>6
    <3> QED BY <3>1, <3>2
  <2>5. F(k) \in Nat /\ G(k) \in Nat /\ G(k) <= F(k) BY <2>2, <2>3
  <2> QED BY <2>1, <2>4, <2>5
<1>8. n \in P
  <2> HIDE DEF P
  <2>1. 0 \in Nat OBVIOUS
  <2>2. \A k \in 0 .. n : k \in P BY <1>6, <1>7, <2>1, UpTo
  <2> QED BY <2>2
<1> QED BY <1>8 DEF F, G

(* A sum of terms that are at most m.                                       *)
LEMMA SumBelow ==
    ASSUME NEW X, NEW s \in Seq(X), NEW I, NEW f \in [X -> Nat], NEW m \in Nat,
           \A x \in X : f[x] <= m, NEW n \in 0 .. Len(s)
    PROVE  SumOver(I, s, n, f) \in Nat /\ SumOver(I, s, n, f) <= n * m
<1> DEFINE F(k) == SumOver(I, s, k, f)
<1>1. Len(s) \in Nat /\ n \in Nat /\ \A k \in 1 .. n : s[k] \in X /\ k \in 1 .. Len(s)
  BY LenProperties
<1>2. SumsUp(I, s, f)
  <2>1. f \in [X -> Int] OBVIOUS
  <2> QED BY <2>1, SumOverNext
<1>3. F(0) = 0 BY <1>2 DEF SumsUp
<1>4. ASSUME NEW k \in 1 .. n PROVE \E d \in Nat : F(k) = F(k - 1) + d /\ d <= m
  <2>1. F(k) = F(k - 1) + IF k \in I THEN f[s[k]] ELSE 0 BY <1>1, <1>2 DEF SumsUp
  <2>2. f[s[k]] \in Nat /\ f[s[k]] <= m BY <1>1
  <2> QED BY <2>1, <2>2
<1> HIDE DEF F
<1> DEFINE P == {k \in 0 .. n : F(k) \in Nat /\ F(k) <= k * m}
<1>5. 0 \in P
  <2>1. 0 * m = 0 OBVIOUS
  <2> QED BY <1>1, <1>3, <2>1
<1>6. ASSUME NEW k \in 0 + 1 .. n, k - 1 \in P PROVE k \in P
  <2>1. k \in 1 .. n /\ k \in 0 .. n /\ k - 1 \in Nat BY <1>1
  <2>2. PICK d \in Nat : F(k) = F(k - 1) + d /\ d <= m BY <1>4, <2>1
  <2>3. PICK a \in Nat : a = F(k - 1) /\ a <= (k - 1) * m BY <1>6
  <2>4. k * m = (k - 1) * m + m /\ k * m \in Int /\ (k - 1) * m \in Int BY <2>1
  <2>5. PICK x \in Int, y \in Int : x = k * m /\ y = (k - 1) * m BY <2>4
  <2> QED BY <2>1, <2>2, <2>3, <2>4, <2>5
<1>7. n \in P
  <2> HIDE DEF P
  <2>1. 0 \in Nat OBVIOUS
  <2>2. \A k \in 0 .. n : k \in P BY <1>1, <1>5, <1>6, <2>1, UpTo
  <2> QED BY <1>1, <2>2
<1> QED BY <1>7 DEF F

-----------------------------------------------------------------------------
(* Lists without duplicates.                                                *)

LEMMA ListLength ==
    ASSUME NEW X, NEW s \in Seq(X), IsInjective(s), NEW E, IsFiniteSet(E),
           NEW n \in 0 .. Len(s), \A i \in 1 .. n : s[i] \in E
    PROVE  n <= Cardinality(E)
<1>1. n \in Nat /\ DOMAIN s = 1 .. Len(s) BY LenProperties
<1> DEFINE f == [i \in 1 .. n |-> s[i]]
<1>2. f \in Injection(1 .. n, E)
  <2>1. f \in [1 .. n -> E] OBVIOUS
  <2>2. \A i, j \in 1 .. n : f[i] = f[j] => i = j
    <3>1. \A i \in 1 .. n : i \in DOMAIN s /\ f[i] = s[i] BY <1>1
    <3> QED BY <3>1 DEF IsInjective
  <2> QED BY <2>1, <2>2 DEF Injection, IsInjective
<1>3. Cardinality(1 .. n) <= Cardinality(E) BY <1>2, FS_Injection
<1>4. Cardinality(1 .. n) = n BY <1>1, FS_Interval
<1> QED BY <1>3, <1>4

LEMMA FirstOutside ==
    ASSUME NEW X, NEW s \in Seq(X), NEW E, NEW x \in Range(s), x \notin E
    PROVE  \E i \in 1 .. Len(s) : s[i] \notin E /\ \A j \in 1 .. i - 1 : s[j] \in E
<1> DEFINE T == {i \in 1 .. Len(s) : s[i] \notin E}
<1>1. T \in SUBSET Nat /\ T # {} BY ElementsOfSeq
<1>2. PICK i \in T : \A y \in T : i <= y BY <1>1, Smallest
<1>3. ASSUME NEW j \in 1 .. i - 1 PROVE s[j] \in E
  <2>1. j \in 1 .. Len(s) /\ ~(i <= j) BY <1>2, LenProperties
  <2> QED BY <1>2, <2>1
<1> QED BY <1>2, <1>3

-----------------------------------------------------------------------------
(* The scheduler: the first requests of its list are admitted, and one that *)
(* has tokens left gets its share when nobody decodes.                      *)

FitsAt(I, i, s, b) ==
    /\ Cardinality(I \cap 1 .. i - 1) < max_batch_size
    /\ 0 + SumOver(I, s, i - 1, b) + b[s[i]] <= max_blocks

Selects(I, n, s, b) == I \in SUBSET (1 .. n) /\ \A i \in 1 .. n : i \in I <=> FitsAt(I, i, s, b)

(* Only the indices before i say whether i fits.                            *)
LEMMA FitsSame ==
    ASSUME NEW I, NEW J, NEW X, NEW s \in Seq(X), NEW b \in [X -> Int],
           NEW i \in 1 .. Len(s), AgreeUpTo(I, J, i - 1)
    PROVE  FitsAt(I, i, s, b) <=> FitsAt(J, i, s, b)
<1>1. I \cap 1 .. i - 1 = J \cap 1 .. i - 1 BY DEF AgreeUpTo
<1>2. SumOver(I, s, i - 1, b) = SumOver(J, s, i - 1, b)
  <2> DEFINE k == i - 1
  <2>1. k \in 0 .. Len(s) BY LenProperties
  <2>2. AgreeUpTo(I, J, k) OBVIOUS
  <2> HIDE DEF k
  <2>3. SumOver(I, s, k, b) = SumOver(J, s, k, b) BY <2>1, <2>2, SumOverSame
  <2> QED BY <2>3 DEF k
<1> QED BY <1>1, <1>2 DEF FitsAt

LEMMA SelectsNext ==
    ASSUME NEW X, NEW s \in Seq(X), NEW b \in [X -> Int],
           NEW n \in 1 .. Len(s), NEW I, Selects(I, n - 1, s, b)
    PROVE  \E J : Selects(J, n, s, b)
<1> DEFINE J == IF FitsAt(I, n, s, b) THEN I \cup {n} ELSE I
<1>1. n \in Nat /\ Len(s) \in Nat /\ n <= Len(s) BY LenProperties
<1>2. I \in SUBSET (1 .. n - 1) /\ n \notin I BY <1>1 DEF Selects
<1>3. J \in SUBSET (1 .. n) BY <1>1, <1>2
<1>4. \A i \in 1 .. n : AgreeUpTo(I, J, i - 1) BY <1>1, <1>2 DEF AgreeUpTo
<1>5. \A i \in 1 .. n - 1 : i \in J <=> i \in I BY <1>1, <1>2
<1>6. n \in J <=> FitsAt(I, n, s, b) BY <1>2
<1> HIDE DEF J
<1>7. ASSUME NEW i \in 1 .. n PROVE i \in J <=> FitsAt(J, i, s, b)
  <2>1. i \in 1 .. Len(s) /\ AgreeUpTo(I, J, i - 1) BY <1>1, <1>4
  <2>2. FitsAt(I, i, s, b) <=> FitsAt(J, i, s, b) BY <2>1, FitsSame
  <2>3. CASE i = n BY <1>6, <2>2, <2>3
  <2>4. CASE i # n
    <3>1. i \in 1 .. n - 1 BY <1>1, <2>4
    <3> QED BY <1>5, <2>2, <3>1 DEF Selects
  <2> QED BY <2>3, <2>4
<1> QED BY <1>3, <1>7 DEF Selects

LEMMA SomeSelected ==
    ASSUME NEW X, NEW s \in Seq(X), NEW b \in [X -> Int]
    PROVE  \E I : Selects(I, Len(s), s, b)
<1> DEFINE P == {n \in 0 .. Len(s) : \E I : Selects(I, n, s, b)}
<1>1. Len(s) \in Nat BY LenProperties
<1>2. 0 \in P
  <2>1. Selects({}, 0, s, b) BY DEF Selects
  <2> QED BY <1>1, <2>1
<1>3. ASSUME NEW n \in 0 + 1 .. Len(s), n - 1 \in P PROVE n \in P
  <2>1. n \in 1 .. Len(s) /\ n \in 0 .. Len(s) BY <1>1
  <2>2. PICK I : Selects(I, n - 1, s, b) BY <1>3
  <2>3. \E J : Selects(J, n, s, b) BY <2>1, <2>2, SelectsNext
  <2> QED BY <2>1, <2>3
<1>4. \A n \in 0 .. Len(s) : n \in P
  <2> HIDE DEF P
  <2>1. 0 \in Nat OBVIOUS
  <2> QED BY <1>1, <1>2, <1>3, <2>1, UpTo
<1>5. Len(s) \in 0 .. Len(s) BY <1>1
<1> QED BY <1>4, <1>5

(* The elements of s at the positions that are kept.                        *)
Picked(X, s, S, t) ==
    /\ t \in Seq(X) /\ Range(t) \subseteq Range(s)
    /\ IsInjective(s) => IsInjective(t)
    /\ \A i \in DOMAIN s \cap S : s[i] \in Range(t)
    /\ \A x \in Range(t) : \E i \in DOMAIN s \cap S : x = s[i]

LEMMA PickedElements ==
    ASSUME NEW X, NEW s \in Seq(X), NEW S, NEW c, NEW t,
           c = Keep([i \in DOMAIN s |-> i], S),
           t = [k \in DOMAIN c |-> s[c[k]]]
    PROVE  Picked(X, s, S, t)
<1> DEFINE D == 1 .. Len(s)
           ids == [i \in DOMAIN s |-> i]
<1>1. DOMAIN s = D /\ Len(s) \in Nat /\ \A i \in D : s[i] \in X
  BY LenProperties
<1>2. ids \in Seq(D) /\ IsInjective(ids) /\ Range(ids) = D
  <2>1. ids \in [1 .. Len(s) -> D] BY <1>1
  <2>2. ids \in Seq(D) BY <1>1, <2>1, SeqDef
  <2>3. IsInjective(ids) BY DEF IsInjective
  <2>4. Range(ids) = D BY <1>1 DEF Range
  <2> QED BY <2>2, <2>3, <2>4
<1> HIDE DEF D, ids
<1>3. c \in Seq(D) /\ IsInjective(c) /\ Range(c) = D \cap S
  <2>1. c = Keep(ids, S) BY DEF ids
  <2>2. /\ Keep(ids, S) \in Seq(D) /\ Range(Keep(ids, S)) = Range(ids) \cap S
        /\ IsInjective(Keep(ids, S))
    BY ONLY <1>2, KeepElements
  <2> QED BY ONLY <1>2, <2>1, <2>2
<1> DEFINE n == Len(c)
<1>4. n \in Nat /\ DOMAIN c = 1 .. n /\ \A k \in 1 .. n : c[k] \in D
  BY <1>3, LenProperties
<1> HIDE DEF n
<1>5. t = [k \in 1 .. n |-> s[c[k]]]
  BY <1>4
<1>6. t \in Seq(X)
  <2>1. t \in [1 .. n -> X] BY <1>1, <1>4, <1>5
  <2> QED BY <1>4, <2>1, SeqDef
<1>7. Range(t) \subseteq Range(s)
  BY <1>1, <1>4, <1>5 DEF Range
<1>8. ASSUME IsInjective(s) PROVE IsInjective(t)
  <2> SUFFICES ASSUME NEW j \in 1 .. n, NEW k \in 1 .. n, t[j] = t[k] PROVE j = k
    BY <1>5 DEF IsInjective
  <2>1. s[c[j]] = s[c[k]] BY <1>5
  <2>2. c[j] = c[k] BY <1>1, <1>4, <1>8, <2>1 DEF IsInjective
  <2> QED BY <1>3, <1>4, <2>2 DEF IsInjective
<1>9. ASSUME NEW i \in DOMAIN s \cap S PROVE s[i] \in Range(t)
  <2>1. i \in Range(c) BY <1>1, <1>3
  <2>2. PICK k \in 1 .. n : c[k] = i BY <1>4, <2>1 DEF Range
  <2>3. t[k] = s[i] /\ k \in DOMAIN t BY <1>5, <2>2
  <2> QED BY <2>3 DEF Range
<1>10. ASSUME NEW x \in Range(t) PROVE \E i \in DOMAIN s \cap S : x = s[i]
  <2>0. DOMAIN t = 1 .. n /\ \A k \in 1 .. n : t[k] = s[c[k]] BY <1>5
  <2>1. PICK k \in 1 .. n : x = s[c[k]] BY <1>10, <2>0 DEF Range
  <2>2. c[k] \in Range(c) BY <1>4 DEF Range
  <2>3. c[k] \in DOMAIN s \cap S BY <1>1, <1>3, <2>2
  <2> QED BY <2>1, <2>3
<1> QED BY <1>6, <1>7, <1>8, <1>9, <1>10 DEF Picked

LEMMA CapacityAdmits ==
    ASSUME NEW X, NEW s \in Seq(X), IsInjective(s), NEW b \in [X -> Nat],
           NEW most \in Nat, max_batch_size * most <= max_blocks, \A x \in X : b[x] <= most,
           NEW list, list = schedule_capacity(s, 0, b)
    PROVE  /\ list \in Seq(X) /\ IsInjective(list) /\ Range(list) \subseteq Range(s)
           /\ \A i \in 1 .. Len(s) : i <= max_batch_size => s[i] \in Range(list)
<1> DEFINE Ok(I) == \A i \in DOMAIN s :
                        i \in I <=> /\ Cardinality(I \cap 1 .. i - 1) < max_batch_size
                                    /\ 0 + SumOver(I, s, i - 1, b) + b[s[i]] <= max_blocks
           J == CHOOSE I \in SUBSET DOMAIN s : Ok(I)
           c == Keep([i \in DOMAIN s |-> i], J)
<1>1. DOMAIN s = 1 .. Len(s) /\ Len(s) \in Nat BY LenProperties
<1>2. \A I : I \in SUBSET DOMAIN s /\ Ok(I) <=> Selects(I, Len(s), s, b)
  BY <1>1 DEF Selects, FitsAt
<1>3. b \in [X -> Int] OBVIOUS
<1>4. \E I \in SUBSET DOMAIN s : Ok(I) BY <1>2, <1>3, SomeSelected
<1>5. list = [k \in DOMAIN c |-> s[c[k]]] BY DEF schedule_capacity
<1>6. J \in SUBSET DOMAIN s /\ Ok(J)
  <2> HIDE DEF Ok
  <2> QED BY <1>4
<1>7. Selects(J, Len(s), s, b) BY <1>2, <1>6
<1> HIDE DEF J, Ok
<1>8. c = Keep([i \in DOMAIN s |-> i], J) OBVIOUS
<1> HIDE DEF c
<1>9. /\ list \in Seq(X) /\ Range(list) \subseteq Range(s) /\ IsInjective(list)
      /\ \A i \in DOMAIN s \cap J : s[i] \in Range(list)
  <2>1. s \in Seq(X) OBVIOUS
  <2>2. Picked(X, s, J, list) BY ONLY <1>5, <1>8, <2>1, PickedElements
  <2> QED BY <2>2 DEF Picked
<1>10. ASSUME NEW i \in 1 .. Len(s), i <= max_batch_size PROVE s[i] \in Range(list)
  <2>1. max_batch_size \in Nat /\ max_blocks \in Nat /\ max_batch_size # 0 BY GenerateAssumption
  <2> DEFINE k == i - 1
  <2>2. k \in Nat /\ k \in 0 .. Len(s) /\ k + 1 <= max_batch_size /\ k < max_batch_size
    BY <1>1, <1>10, <2>1
  <2> HIDE DEF k
  <2>3. Cardinality(J \cap 1 .. k) <= k /\ Cardinality(J \cap 1 .. k) \in Nat
    <3>1. IsFiniteSet(1 .. k) /\ Cardinality(1 .. k) = k BY <2>2, FS_Interval
    <3>2. J \cap 1 .. k \in SUBSET (1 .. k) OBVIOUS
    <3>3. IsFiniteSet(J \cap 1 .. k) /\ Cardinality(J \cap 1 .. k) <= Cardinality(1 .. k)
      BY ONLY <3>1, <3>2, FS_Subset
    <3> QED BY <3>1, <3>3, FS_CardinalityType
  <2>4. SumOver(J, s, k, b) \in Nat /\ SumOver(J, s, k, b) <= k * most BY <2>2, SumBelow
  <2>5. s[i] \in X /\ b[s[i]] \in Nat /\ b[s[i]] <= most OBVIOUS
  <2>6. k * most \in Nat /\ max_batch_size * most \in Nat /\ k * most + most <= max_batch_size * most
    BY <2>1, <2>2, MultiplesOf
  <2>7. 0 + SumOver(J, s, k, b) + b[s[i]] <= max_blocks
    <3>1. PICK x \in Nat, y \in Nat, z \in Nat, w \in Nat :
              x = SumOver(J, s, k, b) /\ y = b[s[i]] /\ z = k * most /\ w = max_batch_size * most
      BY <2>4, <2>5, <2>6
    <3>2. x <= z /\ y <= most /\ z + most <= w /\ w <= max_blocks BY <2>4, <2>5, <2>6, <3>1
    <3>3. 0 + x + y <= max_blocks BY <2>1, <3>2
    <3> QED BY <3>1, <3>3
  <2>8. Cardinality(J \cap 1 .. k) < max_batch_size BY <2>1, <2>2, <2>3
  <2>9. FitsAt(J, i, s, b) BY <2>7, <2>8 DEF FitsAt, k
  <2> QED BY <1>1, <1>7, <1>9, <2>9 DEF Selects
<1> QED BY <1>9, <1>10

(* A plan splits the admitted requests by what is left of their prompts.    *)
PlanOf(plan, X, list, gen, left) ==
    /\ plan.context_chunking \in Seq(X) /\ IsInjective(plan.context_chunking)
    /\ plan.context_last_chunk \in Seq(X) /\ IsInjective(plan.context_last_chunk)
    /\ plan.generation = gen
    /\ Range(plan.context_chunking) \cap Range(plan.context_last_chunk) = {}
    /\ Range(plan.context_chunking) \subseteq Range(list)
    /\ Range(plan.context_last_chunk) \subseteq Range(list)
    /\ \A r \in Range(plan.context_chunking) :
           plan.tokens[r] \in Nat \ {0} /\ plan.tokens[r] < left[r]
    /\ \A r \in Range(plan.context_last_chunk) :
           plan.tokens[r] \in Nat \ {0} /\ plan.tokens[r] = left[r]
    /\ gen = <<>> /\ (\E r \in Range(list) : left[r] > 0) =>
          \/ plan.context_last_chunk # <<>>
          \/ \E r \in Range(plan.context_chunking) :
                 plan.tokens[r] >= AtLeast(1, max_num_tokens \div Len(list))

(* The whole budget is at least anybody's share of it.                      *)
LEMMA BudgetCovers ==
    ASSUME NEW n \in Nat \ {0}
    PROVE  /\ max_num_tokens \in Nat \ {0}
           /\ AtLeast(1, max_num_tokens \div n) \in Nat \ {0}
           /\ max_num_tokens >= AtLeast(1, max_num_tokens \div n)
<1>1. PICK m \in Nat \ {0} : m = max_num_tokens BY GenerateAssumption
<1>2. PICK q \in Nat : m \div n = q /\ q * n \in Nat /\ q * n <= m BY QuotientOf
<1>3. q <= q * n
  <2>1. 0 * q = 0 /\ 1 * q = q /\ n * q = q * n OBVIOUS
  <2>2. CASE n = 1 BY <2>1, <2>2
  <2>3. CASE n # 1
    <3>1. 1 < n BY <2>3
    <3>2. 1 * q + q <= n * q BY <3>1, MultiplesOf
    <3> QED BY <1>2, <2>1, <3>2
  <2> QED BY <2>2, <2>3
<1>4. q <= m BY <1>2, <1>3
<1> QED BY <1>1, <1>2, <1>4 DEF AtLeast

(* First come first served: the first that needs tokens has all of them.    *)
LEMMA FirstServed ==
    ASSUME NEW X, NEW list \in Seq(X), IsInjective(list), NEW left \in [X -> Nat],
           NEW x \in Range(list), left[x] > 0
    PROVE  \E r \in Range(list) :
               /\ left[r] > 0
               /\ ChunkOf("FCFS", list, CHOOSE i \in DOMAIN list : list[i] = r,
                          max_num_tokens, left) = AtMost(max_num_tokens, left[r])
<1> DEFINE E == {y \in X : left[y] = 0}
<1>0. max_num_tokens \in Nat \ {0} BY GenerateAssumption
<1>1. x \notin E OBVIOUS
<1>2. PICK i \in 1 .. Len(list) : list[i] \notin E /\ \A j \in 1 .. i - 1 : list[j] \in E
  BY <1>1, FirstOutside
<1>3. Len(list) \in Nat /\ DOMAIN list = 1 .. Len(list) /\ \A j \in 1 .. Len(list) : list[j] \in X
  BY LenProperties
<1>4. list[i] \in X /\ left[list[i]] \in Nat /\ left[list[i]] > 0 BY <1>2, <1>3
<1>5. (CHOOSE k \in DOMAIN list : list[k] = list[i]) = i
  BY <1>3 DEF IsInjective
<1>6. SumOver(1 .. i - 1, list, i - 1, left) = 0
  <2>1. PICK n \in Nat : n = i - 1 /\ n \in 0 .. Len(list) BY <1>3
  <2> DEFINE F(k) == SumOver(1 .. n, list, k, left)
             S == {k \in 0 .. n : F(k) = 0}
  <2>2. SumsUp(1 .. n, list, left)
    <3>1. left \in [X -> Int] OBVIOUS
    <3> QED BY <3>1, SumOverNext
  <2>3. F(0) = 0 /\ \A k \in 1 .. Len(list) :
                        F(k) = F(k - 1) + IF k \in 1 .. n THEN left[list[k]] ELSE 0
    BY <2>2 DEF SumsUp
  <2>4. \A k \in 1 .. n : F(k) = F(k - 1) + 0
    <3>1. \A k \in 1 .. n : k \in 1 .. Len(list) /\ left[list[k]] = 0 BY <1>2, <2>1
    <3> QED BY <2>3, <3>1
  <2> HIDE DEF F
  <2>5. 0 \in S BY <2>3
  <2>6. ASSUME NEW k \in 0 + 1 .. n, k - 1 \in S PROVE k \in S
    <3>1. k \in 1 .. n /\ k \in 0 .. n BY <2>1
    <3> QED BY <2>4, <2>6, <3>1
  <2> HIDE DEF S
  <2>7. 0 \in Nat OBVIOUS
  <2>8. \A k \in 0 .. n : k \in S BY <2>5, <2>6, <2>7, UpTo
  <2>9. n \in S BY <2>8
  <2> QED BY <2>1, <2>9 DEF S, F
<1>7. ChunkOf("FCFS", list, i, max_num_tokens, left) = AtMost(max_num_tokens, left[list[i]])
  <2>1. PICK m \in Nat \ {0}, y \in Nat : m = max_num_tokens /\ y = left[list[i]] BY <1>0, <1>4
  <2>2. ChunkOf("FCFS", list, i, m, left) = AtLeast(0, AtMost(m - 0, y))
    BY <1>6, <2>1 DEF ChunkOf
  <2>3. AtLeast(0, AtMost(m - 0, y)) = AtMost(m, y) BY DEF AtLeast, AtMost
  <2> QED BY <2>1, <2>2, <2>3
<1>8. list[i] \in Range(list) BY <1>3 DEF Range
<1> QED BY <1>4, <1>5, <1>7, <1>8

LEMMA ChunkIsInt ==
    ASSUME NEW X, NEW list \in Seq(X), NEW left \in [X -> Nat], NEW budget \in Int,
           NEW chunking, NEW i \in DOMAIN list
    PROVE  ChunkOf(chunking, list, i, budget, left) \in Int
<1>1. i \in 1 .. Len(list) /\ Len(list) \in Nat \ {0} /\ left[list[i]] \in Nat BY LenProperties
<1>2. PICK y \in Nat : y = left[list[i]] BY <1>1
<1>3. CASE budget <= 0 BY <1>3 DEF ChunkOf
<1>4. CASE budget > 0 /\ chunking = "FCFS"
  <2>1. SumOver(1 .. i - 1, list, i - 1, left) \in Int
    <3>1. i - 1 \in 0 .. Len(list) /\ left \in [X -> Int] BY <1>1
    <3> QED BY <3>1, SumSteps
  <2>2. PICK z \in Int : z = SumOver(1 .. i - 1, list, i - 1, left) BY <2>1
  <2>3. ChunkOf(chunking, list, i, budget, left) = AtLeast(0, AtMost(budget - z, y))
    BY <1>2, <1>4, <2>2 DEF ChunkOf
  <2>4. AtLeast(0, AtMost(budget - z, y)) \in Int BY DEF AtLeast, AtMost
  <2> QED BY <2>3, <2>4
<1>5. CASE budget > 0 /\ chunking # "FCFS"
  <2>1. PICK d \in Int : d = budget \div Len(list) BY <1>1
  <2>2. ChunkOf(chunking, list, i, budget, left) = AtMost(AtLeast(1, d), y)
    BY <1>2, <1>5, <2>1 DEF ChunkOf
  <2>3. AtMost(AtLeast(1, d), y) \in Int BY DEF AtLeast, AtMost
  <2> QED BY <2>2, <2>3
<1> QED BY <1>3, <1>4, <1>5

(* Somebody who needs tokens has its share at least.                        *)
LEMMA ShareIsChunked ==
    ASSUME NEW X, NEW list \in Seq(X), IsInjective(list), NEW left \in [X -> Nat],
           NEW chunking \in {"EQUAL_PROGRESS", "FCFS"},
           NEW x \in Range(list), left[x] > 0
    PROVE  \E r \in Range(list) : \E k \in Nat \ {0} :
               /\ k = ChunkOf(chunking, list, CHOOSE i \in DOMAIN list : list[i] = r,
                              max_num_tokens, left)
               /\ k = left[r] \/ (k < left[r] /\ k >= AtLeast(1, max_num_tokens \div Len(list)))
<1>1. Len(list) \in Nat \ {0} BY ElementsOfSeq, LenProperties
<1>2. PICK m \in Nat \ {0}, s \in Nat \ {0} :
          m = max_num_tokens /\ s = AtLeast(1, max_num_tokens \div Len(list)) /\ m >= s
  BY <1>1, BudgetCovers
<1>3. \A r \in Range(list) : left[r] \in Nat BY ElementsOfSeq
<1>4. CASE chunking = "FCFS"
  <2>1. PICK r \in Range(list) :
            /\ left[r] > 0
            /\ ChunkOf(chunking, list, CHOOSE i \in DOMAIN list : list[i] = r,
                       max_num_tokens, left) = AtMost(m, left[r])
    <3>1. \E r \in Range(list) :
              /\ left[r] > 0
              /\ ChunkOf("FCFS", list, CHOOSE i \in DOMAIN list : list[i] = r,
                         max_num_tokens, left) = AtMost(max_num_tokens, left[r])
      BY FirstServed
    <3> QED BY <1>2, <1>4, <3>1
  <2>2. PICK y \in Nat \ {0} : y = left[r] BY <1>3, <2>1
  <2>3. PICK k \in Nat \ {0} : k = AtMost(m, y) BY DEF AtMost
  <2>4. k = y \/ (k < y /\ k >= s) BY <1>2, <2>3 DEF AtMost
  <2> QED BY <1>2, <2>1, <2>2, <2>3, <2>4
<1>5. CASE chunking = "EQUAL_PROGRESS"
  <2>1. PICK i \in DOMAIN list : i = (CHOOSE j \in DOMAIN list : list[j] = x) /\ list[i] = x
    BY DEF Range
  <2>2. PICK y \in Nat \ {0} : y = left[x] BY <1>3
  <2>3. ChunkOf(chunking, list, i, max_num_tokens, left) = AtMost(s, y)
    BY <1>2, <1>5, <2>1, <2>2 DEF ChunkOf
  <2>4. PICK k \in Nat \ {0} : k = AtMost(s, y) BY DEF AtMost
  <2>5. k = y \/ (k < y /\ k >= s) BY <2>4 DEF AtMost
  <2> QED BY <1>2, <2>1, <2>2, <2>3, <2>4, <2>5
<1> QED BY <1>4, <1>5

LEMMA PlanParts ==
    ASSUME NEW X, NEW list \in Seq(X), IsInjective(list),
           NEW Y, NEW gen \in Seq(Y), NEW left \in [X -> Nat],
           NEW chunking \in {"EQUAL_PROGRESS", "FCFS"},
           NEW plan, plan = schedule_microbatch(chunking, list, gen, left)
    PROVE  PlanOf(plan, X, list, gen, left)
<1> DEFINE budget == max_num_tokens - Len(gen)
           given(r) == ChunkOf(chunking, list, CHOOSE i \in DOMAIN list : list[i] = r,
                               budget, left)
           Part == {r \in Range(list) : given(r) > 0 /\ given(r) < left[r]}
           Full == {r \in Range(list) : given(r) > 0 /\ given(r) = left[r]}
<1>0. max_num_tokens \in Nat \ {0} BY GenerateAssumption
<1>1. plan = [context_chunking |-> Keep(list, Part), context_last_chunk |-> Keep(list, Full),
              generation |-> gen, tokens |-> [r \in Range(list) |-> given(r)]]
  BY DEF schedule_microbatch
<1>2. budget \in Int BY <1>0, LenProperties
<1>3. Range(list) \subseteq X BY ElementsOfSeq
<1>4. ASSUME NEW r \in Range(list) PROVE given(r) \in Int
  <2>1. \E i \in DOMAIN list : list[i] = r BY DEF Range
  <2>2. (CHOOSE j \in DOMAIN list : list[j] = r) \in DOMAIN list BY <2>1
  <2> HIDE DEF budget
  <2> QED BY <1>2, <2>2, ChunkIsInt
<1>7. ASSUME gen = <<>>, NEW x \in Range(list), left[x] > 0
      PROVE  \/ \E r \in Full : TRUE
             \/ \E r \in Part : given(r) >= AtLeast(1, max_num_tokens \div Len(list))
  <2>1. budget = max_num_tokens
    <3>1. Len(gen) = 0 BY <1>7
    <3> QED BY <1>0, <3>1
  <2>2. PICK r \in Range(list), k \in Nat \ {0} :
            /\ k = given(r)
            /\ k = left[r] \/ (k < left[r] /\ k >= AtLeast(1, max_num_tokens \div Len(list)))
    BY <1>7, <2>1, ShareIsChunked
  <2> HIDE DEF given
  <2>3. given(r) > 0 BY <2>2
  <2>4. CASE k = left[r]
    <3>1. r \in Full BY <2>2, <2>3, <2>4
    <3> QED BY <3>1
  <2>5. CASE k < left[r] /\ k >= AtLeast(1, max_num_tokens \div Len(list))
    <3>1. r \in Part BY <2>2, <2>3, <2>5
    <3> QED BY <2>2, <2>5, <3>1
  <2> QED BY <2>2, <2>4, <2>5
<1> HIDE DEF given
<1>5. Part \cap Full = {}
  <2>1. ASSUME NEW r \in Range(list), given(r) < left[r], given(r) = left[r] PROVE FALSE
    <3>1. left[r] \in Int BY <1>3
    <3> QED BY <1>4, <2>1, <3>1
  <2> QED BY <2>1
<1>6. /\ \A r \in Part : r \in Range(list) /\ given(r) \in Nat \ {0} /\ given(r) < left[r]
      /\ \A r \in Full : r \in Range(list) /\ given(r) \in Nat \ {0} /\ given(r) = left[r]
  BY <1>4
<1> HIDE DEF Part, Full
<1>9. /\ Keep(list, Part) \in Seq(X) /\ IsInjective(Keep(list, Part))
      /\ Range(Keep(list, Part)) = Range(list) \cap Part
  BY KeepElements
<1>10. /\ Keep(list, Full) \in Seq(X) /\ IsInjective(Keep(list, Full))
       /\ Range(Keep(list, Full)) = Range(list) \cap Full
  BY KeepElements
<1>11. /\ plan.context_chunking = Keep(list, Part) /\ plan.context_last_chunk = Keep(list, Full)
       /\ plan.generation = gen /\ \A r \in Range(list) : plan.tokens[r] = given(r)
  BY <1>1
<1>12. /\ Range(plan.context_chunking) = Range(list) \cap Part
       /\ Range(plan.context_last_chunk) = Range(list) \cap Full
  BY <1>9, <1>10, <1>11
<1>13. /\ \A r \in Range(plan.context_chunking) :
              plan.tokens[r] \in Nat \ {0} /\ plan.tokens[r] < left[r]
       /\ \A r \in Range(plan.context_last_chunk) :
              plan.tokens[r] \in Nat \ {0} /\ plan.tokens[r] = left[r]
  BY <1>6, <1>11, <1>12
<1>14. Range(plan.context_chunking) \cap Range(plan.context_last_chunk) = {}
  BY <1>5, <1>12
<1>15. ASSUME gen = <<>>, NEW x \in Range(list), left[x] > 0
       PROVE  \/ plan.context_last_chunk # <<>>
              \/ \E r \in Range(plan.context_chunking) :
                     plan.tokens[r] >= AtLeast(1, max_num_tokens \div Len(list))
  <2>1. CASE \E r \in Full : TRUE
    <3>1. PICK r : r \in Range(plan.context_last_chunk) BY <1>6, <1>12, <2>1
    <3> QED BY <3>1, EmptyRange
  <2>2. CASE \E r \in Part : given(r) >= AtLeast(1, max_num_tokens \div Len(list))
    BY <1>6, <1>11, <1>12, <2>2
  <2> QED BY <1>7, <1>15, <2>1, <2>2
<1> QED BY <1>9, <1>10, <1>11, <1>12, <1>13, <1>14, <1>15 DEF PlanOf

-----------------------------------------------------------------------------
(* The prompts, and the work that is left.                                  *)

LEMMA ObjectFacts ==
    /\ \A t \in Threads : /\ Prompts[t] \in Seq(Nat) /\ Len(Prompts[t]) \in Nat
                          /\ DOMAIN Prompts[t] = 1 .. Len(Prompts[t])
                          /\ MaxNew[t] \in Nat \ {0}
    /\ \A t \in Threads : \A i \in DOMAIN Prompts[t] :
           /\ <<t, i>> \in Objects /\ <<t, i>> \in Own(t)
           /\ ContextLenOf(<<t, i>>) = Prompts[t][i] /\ MaxTokensOf(<<t, i>>) = MaxNew[t]
    /\ \A o \in Objects :
           /\ o[1] \in Threads /\ o[2] \in DOMAIN Prompts[o[1]] /\ o = <<o[1], o[2]>>
           /\ o \in Own(o[1])
           /\ ContextLenOf(o) \in Nat /\ MaxTokensOf(o) \in Nat \ {0}
    /\ \A t \in Threads : \A o \in Own(t) : o \in Objects /\ o[1] = t
    /\ \A t, u \in Threads : t # u => Own(t) \cap Own(u) = {}
<1>1. \A t \in Threads : /\ Prompts[t] \in Seq(Nat) /\ Len(Prompts[t]) \in Nat
                         /\ DOMAIN Prompts[t] = 1 .. Len(Prompts[t])
                         /\ MaxNew[t] \in Nat \ {0}
  BY GenerateAssumption, LenProperties
<1>2. \A t \in Threads : \A i \in DOMAIN Prompts[t] : Prompts[t][i] \in Nat
  BY <1>1
<1>3. \A t \in Threads : \A i \in DOMAIN Prompts[t] :
          /\ <<t, i>> \in Objects /\ <<t, i>> \in Own(t)
          /\ ContextLenOf(<<t, i>>) = Prompts[t][i] /\ MaxTokensOf(<<t, i>>) = MaxNew[t]
  BY DEF Objects, Own, ContextLenOf, MaxTokensOf
<1>4. ASSUME NEW o \in Objects
      PROVE  /\ o[1] \in Threads /\ o[2] \in DOMAIN Prompts[o[1]] /\ o = <<o[1], o[2]>>
  <2>1. PICK t \in Threads : o \in {t} \X DOMAIN Prompts[t] BY DEF Objects
  <2> QED BY <2>1
<1>5. ASSUME NEW o \in Objects
      PROVE  o \in Own(o[1]) /\ ContextLenOf(o) \in Nat /\ MaxTokensOf(o) \in Nat \ {0}
  BY <1>1, <1>2, <1>4 DEF Own, ContextLenOf, MaxTokensOf
<1>6. \A t \in Threads : \A o \in Own(t) : o \in Objects /\ o[1] = t
  BY DEF Own, Objects
<1>7. \A t, u \in Threads : t # u => Own(t) \cap Own(u) = {} BY DEF Own
<1> QED BY <1>1, <1>3, <1>4, <1>5, <1>6, <1>7

LEMMA OwnFinite ==
    ASSUME NEW t \in Threads
    PROVE  IsFiniteSet(Own(t)) /\ Cardinality(Own(t)) = Len(Prompts[t])
<1>1. Len(Prompts[t]) \in Nat /\ DOMAIN Prompts[t] = 1 .. Len(Prompts[t]) BY ObjectFacts
<1>2. IsFiniteSet(1 .. Len(Prompts[t])) /\ Cardinality(1 .. Len(Prompts[t])) = Len(Prompts[t])
  <2>1. PICK n \in Nat : n = Len(Prompts[t]) BY <1>1
  <2>2. IsFiniteSet(1 .. n) /\ Cardinality(1 .. n) = n BY FS_Interval
  <2> QED BY <2>1, <2>2
<1>3. IsFiniteSet({t}) /\ Cardinality({t}) = 1 BY FS_Singleton
<1>4. /\ IsFiniteSet({t} \X (1 .. Len(Prompts[t])))
      /\ Cardinality({t} \X (1 .. Len(Prompts[t]))) = Cardinality({t}) * Cardinality(1 .. Len(Prompts[t]))
  BY <1>2, <1>3, FS_Product
<1>5. 1 * Len(Prompts[t]) = Len(Prompts[t]) BY <1>1
<1> QED BY <1>1, <1>2, <1>3, <1>4, <1>5 DEF Own

LEMMA ShareFacts ==
    ASSUME FewEmptyPrompts, NEW t \in Threads, Own(t) # {}
    PROVE  /\ IsFiniteSet(Crowd(t)) /\ Cardinality(Crowd(t)) \in Nat
           /\ Share(t) \in Nat \ {0}
           /\ \A n \in Nat \ {0} : n <= Cardinality(Crowd(t)) =>
                  AtLeast(1, max_num_tokens \div n) \in Nat
                      /\ AtLeast(1, max_num_tokens \div n) >= Share(t)
<1>1. IsFiniteSet(Crowd(t)) /\ Cardinality(Crowd(t)) \in Nat
  BY OwnFinite, FS_Union, FS_CardinalityType DEF FewEmptyPrompts, Crowd
<1>2. max_num_tokens \in Nat \ {0} BY GenerateAssumption
<1>3. PICK c \in Nat, m \in Nat : c = Cardinality(Crowd(t)) /\ m = max_num_tokens BY <1>1, <1>2
<1>4. ASSUME NEW n \in Nat \ {0}, n <= c
      PROVE  AtLeast(1, m \div n) \in Nat /\ AtLeast(1, m \div n) >= AtLeast(1, m \div c)
  <2>1. PICK p \in Nat : m \div n = p /\ p * n \in Nat /\ p * n <= m /\ m < p * n + n
    BY QuotientOf
  <2>2. c \in Nat \ {0} BY <1>4
  <2>3. PICK q \in Nat : m \div c = q /\ q * c \in Nat /\ q * c <= m /\ m < q * c + c
    BY <2>2, QuotientOf
  <2>4. q <= p
    <3> SUFFICES ASSUME p < q PROVE FALSE OBVIOUS
    <3>1. p * n \in Nat /\ q * n \in Nat /\ p * n + n <= q * n BY MultiplesOf
    <3>2. q * n <= q * c
      <4>1. CASE n = c
        <5>1. q * n = q * c BY <4>1
        <5> QED BY <3>1, <5>1
      <4>2. CASE n # c
        <5>1. n < c BY <1>4, <4>2
        <5>2. n * q \in Nat /\ c * q \in Nat /\ n * q + q <= c * q BY <5>1, MultiplesOf
        <5>3. n * q = q * n /\ c * q = q * c OBVIOUS
        <5> QED BY <5>2, <5>3
      <4> QED BY <4>1, <4>2
    <3> QED BY <2>1, <2>3, <3>1, <3>2
  <2> QED BY <2>1, <2>3, <2>4 DEF AtLeast
<1>5. AtLeast(1, m \div c) \in Nat \ {0}
  <2>1. c # 0
    <3> SUFFICES ASSUME Cardinality(Crowd(t)) = 0 PROVE FALSE BY <1>3
    <3>1. Crowd(t) = {} BY <1>1, FS_EmptySet
    <3> QED BY <3>1 DEF Crowd
  <2>2. PICK q \in Nat : m \div c = q /\ q * c \in Nat /\ q * c <= m /\ m < q * c + c
    BY <2>1, QuotientOf
  <2> QED BY <2>2 DEF AtLeast
<1> QED BY <1>1, <1>3, <1>4, <1>5 DEF Share

(* What is left of a prompt, by how far it is.                              *)
LEMMA WorkFacts ==
    ASSUME FewEmptyPrompts, RequestsOK, NEW o \in Objects
    PROVE  /\ Left(o) \in Nat /\ WorkLeft(o) \in Nat
           /\ WorkLeft(o) = 0 <=> o \in EmptyPrompts \/ Complete(o) \/ Spent(o)
           /\ Fresh(o) \/ Prefilling(o) => (Left(o) > 0 <=> o \notin EmptyPrompts)
           /\ Begun(o) \/ Complete(o) => o \notin EmptyPrompts
           /\ Prefilling(o) \/ Decoding(o) => Begun(o) /\ ~Spent(o)
<1>1. /\ o[1] \in Threads /\ o \in Own(o[1]) /\ o = <<o[1], o[2]>>
      /\ ContextLenOf(o) \in Nat /\ MaxTokensOf(o) \in Nat \ {0}
  BY ObjectFacts
<1>2. Share(o[1]) \in Nat \ {0} BY <1>1, ShareFacts
<1>3. PICK p \in Nat, c \in Nat, u \in Nat, m \in Nat \ {0}, s \in Nat \ {0} :
          /\ p = request[o].processed /\ u = request[o].out
          /\ c = ContextLenOf(o) /\ m = MaxTokensOf(o) /\ s = Share(o[1])
  BY <1>1, <1>2 DEF RequestsOK, RequestType
<1>4. o \in EmptyPrompts <=> c = 0 BY <1>3 DEF EmptyPrompts
<1>5. Fresh(o) \/ Begun(o) \/ Complete(o) BY DEF RequestsOK
<1>6. Left(o) = c - p BY <1>3 DEF Left
<1>7. \A n \in Nat \ {0} : ChunksOf(n, o[1]) \in Nat \ {0}
  BY <1>2, ChunksShrink DEF ChunksOf, Chunks
<1>8. Prefilling(o) \/ Decoding(o) => Begun(o) /\ ~Spent(o)
  BY <1>3 DEF Prefilling, Decoding, Begun, Spent
<1>9. ASSUME Fresh(o) \/ Prefilling(o) PROVE p <= c /\ (p = c => c = 0)
  BY <1>3, <1>9 DEF Fresh, Prefilling
<1>10. Fresh(o) \/ Prefilling(o) => (Left(o) > 0 <=> o \notin EmptyPrompts)
  BY <1>3, <1>4, <1>6, <1>9
<1>11. CASE Fresh(o)
  <2>1. p = 0 /\ ~Complete(o) /\ ~Begun(o) /\ ~Spent(o)
    BY <1>3, <1>11 DEF Complete, Begun, Spent, Fresh
  <2>2. CASE c = 0 BY <1>3, <1>4, <1>6, <1>8, <1>10, <2>1, <2>2 DEF WorkLeft
  <2>3. CASE c # 0
    <3>1. Left(o) \in Nat \ {0} BY <1>6, <2>1, <2>3
    <3>2. PICK k \in Nat \ {0} : k = ChunksOf(Left(o), o[1]) BY <1>7, <3>1
    <3>3. WorkLeft(o) = k + m - 1 BY <1>3, <2>3, <3>1, <3>2 DEF WorkLeft
    <3>4. WorkLeft(o) \in Nat /\ WorkLeft(o) # 0 BY <3>3
    <3> QED BY <1>4, <1>8, <1>10, <2>1, <2>3, <3>1, <3>4
  <2> QED BY <2>2, <2>3
<1>12. CASE Begun(o)
  <2>1. 0 < p /\ p <= c /\ u <= m /\ (u = 0 \/ p = c) /\ c # 0 /\ ~Complete(o)
    BY <1>3, <1>12 DEF Begun, Complete
  <2>2. Spent(o) <=> p = c /\ u = m BY <1>3, <1>12 DEF Spent
  <2>3. Left(o) \in Nat BY <1>6, <2>1
  <2>4. CASE p = c
    <3>1. Left(o) = 0 BY <1>6, <2>4
    <3>2. WorkLeft(o) = m - u BY <1>3, <2>1, <3>1 DEF WorkLeft
    <3>3. m - u \in Nat /\ (m - u = 0 <=> u = m) BY <2>1
    <3> QED BY <1>4, <1>8, <1>10, <2>1, <2>2, <2>3, <2>4, <3>2, <3>3
  <2>5. CASE p # c
    <3>1. Left(o) \in Nat \ {0} BY <1>6, <2>1, <2>5
    <3>2. PICK k \in Nat \ {0} : k = ChunksOf(Left(o), o[1]) BY <1>7, <3>1
    <3>3. WorkLeft(o) = k + m - 1 BY <1>3, <2>1, <3>1, <3>2 DEF WorkLeft
    <3>4. WorkLeft(o) \in Nat /\ WorkLeft(o) # 0 BY <3>3
    <3> QED BY <1>4, <1>8, <1>10, <2>1, <2>2, <2>5, <3>1, <3>4
  <2> QED BY <2>4, <2>5
<1>13. CASE Complete(o)
  <2>1. p = c /\ c # 0 /\ u = m BY <1>3, <1>13 DEF Complete
  <2>2. Left(o) = 0 BY <1>6, <2>1
  <2>3. WorkLeft(o) = 0 BY <1>3, <2>1, <2>2 DEF WorkLeft
  <2> QED BY <1>4, <1>8, <1>10, <1>13, <2>1, <2>2, <2>3
<1> QED BY <1>5, <1>11, <1>12, <1>13

(* Sums over the prompts of a call.                                         *)
LEMMA PromptSums ==
    ASSUME NEW t \in Threads,
           NEW f \in [DOMAIN Prompts[t] -> Nat], NEW g \in [DOMAIN Prompts[t] -> Nat],
           \A i \in DOMAIN Prompts[t] : g[i] <= f[i]
    PROVE  /\ SumOfPrompts(t, f) \in Nat /\ SumOfPrompts(t, g) \in Nat
           /\ SumOfPrompts(t, g) <= SumOfPrompts(t, f)
           /\ \A i \in DOMAIN Prompts[t] :
                  g[i] < f[i] => SumOfPrompts(t, g) + 1 <= SumOfPrompts(t, f)
           /\ \A i \in DOMAIN Prompts[t] : f[i] <= SumOfPrompts(t, f)
           /\ (\A i \in DOMAIN Prompts[t] : f[i] = 0) => SumOfPrompts(t, f) = 0
<1> DEFINE n == Len(Prompts[t])
           s == [i \in DOMAIN Prompts[t] |-> i]
<1>1. n \in Nat /\ DOMAIN Prompts[t] = 1 .. n BY ObjectFacts
<1>2. \A h : SumOfPrompts(t, h) = SumOver(1 .. n, s, n, h) BY <1>1 DEF SumOfPrompts
<1>3. s \in [1 .. n -> 1 .. n] /\ \A i \in 1 .. n : s[i] = i BY <1>1
<1> HIDE DEF n, s
<1>4. s \in Seq(1 .. n) /\ Len(s) = n BY <1>1, <1>3, LenProperties, SeqDef
<1>5. f \in [1 .. n -> Nat] /\ g \in [1 .. n -> Nat] BY <1>1
<1>6. /\ SumOver(1 .. n, s, n, f) \in Nat /\ SumOver(1 .. n, s, n, g) \in Nat
      /\ SumOver(1 .. n, s, n, g) <= SumOver(1 .. n, s, n, f)
      /\ \A j \in 1 .. n : g[s[j]] < f[s[j]] =>
             SumOver(1 .. n, s, n, g) + 1 <= SumOver(1 .. n, s, n, f)
      /\ \A j \in 1 .. n : f[s[j]] <= SumOver(1 .. n, s, n, f)
  BY <1>1, <1>4, <1>5, SumsShrink
<1>7. ASSUME \A i \in DOMAIN Prompts[t] : f[i] = 0 PROVE SumOver(1 .. n, s, n, f) = 0
  <2>1. \A i \in 1 .. n : f[i] <= 0
    <3>1. \A i \in 1 .. n : f[i] = 0 BY <1>1, <1>7
    <3> QED BY <3>1
  <2>2. n \in 0 .. Len(s) BY <1>1, <1>4
  <2>3. SumOver(1 .. n, s, n, f) <= n * 0 BY <1>4, <1>5, <2>1, <2>2, SumBelow
  <2>4. n * 0 = 0 BY <1>1
  <2> QED BY <1>6, <2>3, <2>4
<1> QED BY <1>1, <1>2, <1>3, <1>6, <1>7

(* What happens to the prompts happens to the whole.                        *)
LEMMA WorkIsNat ==
    ASSUME FewEmptyPrompts, RequestsOK, NEW t \in Threads
    PROVE  /\ WorkOf(t) \in Nat
           /\ WorkOf(t) = 0 <=> \A o \in Own(t) : o \in EmptyPrompts \/ Complete(o) \/ Spent(o)
<1> DEFINE f == [i \in DOMAIN Prompts[t] |-> WorkLeft(<<t, i>>)]
<1>1. \A i \in DOMAIN Prompts[t] : <<t, i>> \in Objects BY ObjectFacts
<1>2. f \in [DOMAIN Prompts[t] -> Nat] BY <1>1, WorkFacts
<1>3. \A i \in DOMAIN Prompts[t] : f[i] = WorkLeft(<<t, i>>) OBVIOUS
<1>4. WorkOf(t) = SumOfPrompts(t, f) BY DEF WorkOf
<1> HIDE DEF f
<1>5. \A i \in DOMAIN Prompts[t] : f[i] <= f[i] BY <1>2
<1>6. /\ SumOfPrompts(t, f) \in Nat
      /\ \A i \in DOMAIN Prompts[t] : f[i] <= SumOfPrompts(t, f)
      /\ (\A i \in DOMAIN Prompts[t] : f[i] = 0) => SumOfPrompts(t, f) = 0
  BY <1>2, <1>5, PromptSums
<1>7. \A i \in DOMAIN Prompts[t] :
          WorkLeft(<<t, i>>) = 0
              <=> <<t, i>> \in EmptyPrompts \/ Complete(<<t, i>>) \/ Spent(<<t, i>>)
  BY <1>1, WorkFacts
<1>8. (\A o \in Own(t) : o \in EmptyPrompts \/ Complete(o) \/ Spent(o))
          <=> \A i \in DOMAIN Prompts[t] :
                 <<t, i>> \in EmptyPrompts \/ Complete(<<t, i>>) \/ Spent(<<t, i>>)
  <2>1. \A o \in Own(t) : \E i \in DOMAIN Prompts[t] : o = <<t, i>> BY DEF Own
  <2>2. \A i \in DOMAIN Prompts[t] : <<t, i>> \in Own(t) BY DEF Own
  <2> QED BY <2>1, <2>2
<1>9. SumOfPrompts(t, f) = 0 => \A i \in DOMAIN Prompts[t] : f[i] = 0 BY <1>2, <1>6
<1> QED BY <1>3, <1>4, <1>6, <1>7, <1>8, <1>9

(* The same, in the next state.                                             *)
AllWork ==
    /\ \A o \in Objects : Left(o) \in Nat /\ WorkLeft(o) \in Nat
    /\ \A t \in Threads : WorkOf(t) \in Nat

LEMMA WorkNext ==
    ASSUME FewEmptyPrompts
    PROVE  RequestsOK' => AllWork'
<1>1. RequestsOK => AllWork BY WorkFacts, WorkIsNat DEF AllWork
<1> QED BY <1>1, PTL

LEMMA WorkChange ==
    ASSUME FewEmptyPrompts, NEW t \in Threads, RequestsOK, RequestsOK',
           \A o \in Own(t) : WorkLeft(o)' <= WorkLeft(o)
    PROVE  /\ WorkOf(t)' <= WorkOf(t)
           /\ (\E o \in Own(t) : WorkLeft(o)' + 1 <= WorkLeft(o)) => WorkOf(t)' + 1 <= WorkOf(t)
<1> DEFINE f == [i \in DOMAIN Prompts[t] |-> WorkLeft(<<t, i>>)]
           g == [i \in DOMAIN Prompts[t] |-> WorkLeft(<<t, i>>)']
<1>1. \A i \in DOMAIN Prompts[t] : <<t, i>> \in Objects /\ <<t, i>> \in Own(t) BY ObjectFacts
<1>2. AllWork' BY WorkNext
<1>3. \A i \in DOMAIN Prompts[t] : WorkLeft(<<t, i>>)' \in Nat
  BY <1>1, <1>2 DEF AllWork
<1>4. \A i \in DOMAIN Prompts[t] : WorkLeft(<<t, i>>) \in Nat
  BY <1>1, WorkFacts
<1>5. f \in [DOMAIN Prompts[t] -> Nat] /\ g \in [DOMAIN Prompts[t] -> Nat] BY <1>3, <1>4
<1>6. \A i \in DOMAIN Prompts[t] : f[i] = WorkLeft(<<t, i>>) /\ g[i] = WorkLeft(<<t, i>>)'
  OBVIOUS
<1>7. WorkOf(t) = SumOfPrompts(t, f) /\ WorkOf(t)' = SumOfPrompts(t, g)
  BY DEF WorkOf
<1> HIDE DEF f, g
<1>8. \A i \in DOMAIN Prompts[t] : g[i] <= f[i] BY <1>1, <1>6
<1>9. /\ SumOfPrompts(t, g) <= SumOfPrompts(t, f)
      /\ \A i \in DOMAIN Prompts[t] :
             g[i] < f[i] => SumOfPrompts(t, g) + 1 <= SumOfPrompts(t, f)
  BY <1>5, <1>8, PromptSums
<1>10. ASSUME NEW o \in Own(t), WorkLeft(o)' + 1 <= WorkLeft(o)
       PROVE  WorkOf(t)' + 1 <= WorkOf(t)
  <2>1. PICK i \in DOMAIN Prompts[t] : o = <<t, i>> BY DEF Own
  <2>2. g[i] + 1 <= f[i] BY <1>6, <1>10, <2>1
  <2>3. g[i] \in Nat /\ f[i] \in Nat BY <1>5
  <2>4. g[i] < f[i] BY <2>2, <2>3
  <2> QED BY <1>7, <1>9, <2>4
<1> QED BY <1>7, <1>9, <1>10

-----------------------------------------------------------------------------
(* A step of the thread whose call runs.                                    *)

Frame(t) ==
    /\ DOMAIN call' = Threads /\ DOMAIN call'[t] = CallFields
    /\ \A u \in Threads \ {t} : call'[u] = call[u]

OnlyMine(t) == \A o \in Objects \ Own(t) : request'[o] = request[o]

LEMMA Owners ==
    ASSUME SequentialOK, NEW t \in Threads, InCall(t)
    PROVE  /\ RunOK(t) /\ \A u \in Threads \ {t} : ~InCall(u)
           /\ \A o \in Range(active) : o \in Objects /\ o \in Own(t) /\ o \notin EmptyPrompts
           /\ \A o \in Range(waiting) : o \in Objects /\ (o \in EmptyPrompts \/ o \in Own(t))
           /\ \A o \in Objects : o[1] \in Threads /\ (o[1] = t <=> o \in Own(t))
<1>1. RunOK(t) /\ \A u \in Threads \ {t} : ~InCall(u) BY DEF SequentialOK, Alone
<1>2. Range(waiting) \subseteq Objects /\ Range(active) \subseteq Objects
  BY ElementsOfSeq DEF SequentialOK, QueuesOK
<1>3. \A o \in Objects : o[1] \in Threads /\ o \in Own(o[1]) BY ObjectFacts
<1>4. \A o \in Objects : o \in Own(t) => o[1] = t BY ObjectFacts
<1>5. \A o \in Objects : InCall(o[1]) => o \in Own(t) BY <1>1, <1>3
<1> QED BY <1>1, <1>2, <1>3, <1>4, <1>5 DEF SequentialOK, QueuesOK

LEMMA FrameKeeps ==
    ASSUME SequentialOK, NEW t \in Threads, InCall(t), Frame(t), OnlyMine(t),
           RequestsOK', IdsOK', QueuesOK',
           IF InCall(t)' THEN RunOK(t)' ELSE QuietOK(t)'
    PROVE  SequentialOK'
<1>1. \A u \in Threads \ {t} : ~InCall(u) BY Owners
<1>2. CallShape' BY DEF CallShape, SequentialOK, Frame
<1>3. \A u \in Threads \ {t} : call'[u] = call[u] /\ ~InCall(u)' BY <1>1 DEF InCall, Frame
<1>4. Alone' BY <1>3 DEF Alone
<1>5. ASSUME NEW u \in Threads \ {t} PROVE QuietOK(u)'
  <2>1. QuietOK(u) BY <1>1 DEF SequentialOK
  <2>2. \A o \in Own(u) : request'[o] = request[o]
    <3>1. Own(u) \cap Own(t) = {} BY ObjectFacts
    <3>2. Own(u) \subseteq Objects BY ObjectFacts
    <3> QED BY <3>1, <3>2 DEF OnlyMine
  <2>3. call'[u] = call[u] BY <1>3
  <2> QED BY <2>1, <2>2, <2>3 DEF QuietOK, Sent, Fresh, Exact
<1>6. \A u \in Threads : IF InCall(u)' THEN RunOK(u)' ELSE QuietOK(u)'
  <2> SUFFICES ASSUME NEW u \in Threads PROVE IF InCall(u)' THEN RunOK(u)' ELSE QuietOK(u)'
    OBVIOUS
  <2>1. CASE u = t BY <2>1
  <2>2. CASE u # t BY <1>3, <1>5, <2>2
  <2> QED BY <2>1, <2>2
<1> QED BY <1>2, <1>4, <1>6 DEF SequentialOK

(* The requests and the queues stay as they are.                            *)
LEMMA SameQueues ==
    ASSUME SequentialOK, NEW t \in Threads, InCall(t), Frame(t),
           UNCHANGED <<waiting, active, request>>,
           InCall(t)' \/ (active = <<>> /\ Range(waiting) \subseteq EmptyPrompts)
    PROVE  OnlyMine(t) /\ RequestsOK' /\ QueuesOK'
<1>1. OnlyMine(t) BY DEF OnlyMine
<1>2. RequestsOK' BY DEF SequentialOK, RequestsOK, Fresh, Begun, Complete
<1>3. /\ \A o \in Range(active) : o \in Own(t) /\ o[1] = t
      /\ \A o \in Range(waiting) : o \in EmptyPrompts \/ o[1] = t
  BY Owners
<1>4. \A o : Sent(o)' = Sent(o) /\ Fresh(o)' = Fresh(o) BY DEF Sent, Fresh
<1>5. \A o \in Range(active) : InCall(o[1])'
  <2>1. CASE InCall(t)' BY <1>3, <2>1
  <2>2. CASE active = <<>> BY <2>2, EmptyRange
  <2> QED BY <2>1, <2>2
<1>6. \A o \in Range(waiting) : o \in EmptyPrompts \/ InCall(o[1])'
  BY <1>3
<1> QED BY <1>1, <1>2, <1>4, <1>5, <1>6 DEF SequentialOK, QueuesOK

LEMMA GotoMoves ==
    ASSUME SequentialOK, NEW t \in Threads, NEW l, Goto(t, l)
    PROVE  /\ Frame(t)
           /\ call'[t].pc = l
           /\ call'[t].seen = call[t].seen
           /\ call'[t].request_ids = call[t].request_ids
           /\ call'[t].iters = call[t].iters
           /\ call'[t].completed = call[t].completed
           /\ call'[t].snapshot = call[t].snapshot
           /\ call'[t].batch = call[t].batch
           /\ call'[t].todo = call[t].todo
           /\ call'[t].target = call[t].target
           /\ call'[t].completed_ids = call[t].completed_ids
           /\ call'[t].results = call[t].results
<1>1. DOMAIN call = Threads /\ DOMAIN call[t] = CallFields BY DEF SequentialOK, CallShape
<1>2. CallFields = {"pc", "seen", "request_ids", "iters", "completed", "snapshot", "batch",
                    "todo", "target", "completed_ids", "results"}
  BY DEF CallFields, NoCall
<1>3. call'[t] = [call[t] EXCEPT !.pc = l] BY <1>1 DEF Goto
<1>4. \A u \in Threads \ {t} : call'[u] = call[u] BY <1>1 DEF Goto
<1>5. DOMAIN call' = Threads BY <1>1 DEF Goto
<1>6. DOMAIN call'[t] = CallFields BY <1>1, <1>3
<1> QED BY <1>1, <1>2, <1>3, <1>4, <1>5, <1>6 DEF Frame

-----------------------------------------------------------------------------
(* The actions before the loop.                                             *)

LEMMA EmptyList == ASSUME NEW X, NEW s \in Seq(X), \A x \in Range(s) : FALSE PROVE s = <<>>
<1>1. Len(s) \in Nat /\ \A i \in 1 .. Len(s) : s[i] \in Range(s) BY LenProperties, ElementsOfSeq
<1>2. ~(1 <= Len(s)) BY <1>1
<1> QED BY <1>1, <1>2, EmptySeq

LEMMA generateKeeps ==
    ASSUME SequentialOK, NEW t \in Threads, generate(t), ~overlapped'
    PROVE  SequentialOK'
<1>1. \A u \in Threads : ~InCall(u) BY DEF generate
<1>2. UNCHANGED <<counter, waiting, active, request>> /\ call[t].pc = "idle"
  BY DEF generate, queue_vars
<1>3. Frame(t) /\ call'[t].pc \in {"enqueue", "init"} BY GotoMoves DEF generate
<1>4. call'[t] = [NoCall EXCEPT !.pc = call'[t].pc]
  <2>1. call[t] = NoCall BY <1>1, <1>2 DEF SequentialOK, QuietOK
  <2>2. DOMAIN call = Threads BY DEF SequentialOK, CallShape
  <2>3. PICK l : call' = [call EXCEPT ![t].pc = l] BY DEF generate, Goto
  <2>4. call'[t] = [NoCall EXCEPT !.pc = l] BY <2>1, <2>2, <2>3
  <2>5. call'[t].pc = l BY <2>4 DEF NoCall
  <2> QED BY <2>4, <2>5
<1>5. \A o \in Own(t) : ~Sent(o) /\ Fresh(o) BY <1>1, <1>2 DEF SequentialOK, QuietOK
<1>6. active = <<>>
  <2>1. active \in Seq(Objects) /\ \A o \in Range(active) : o \in Objects /\ InCall(o[1])
    BY ElementsOfSeq DEF SequentialOK, QueuesOK
  <2>2. \A o \in Range(active) : FALSE BY <1>1, <2>1, ObjectFacts
  <2> QED BY <2>1, <2>2, EmptyList
<1>7. \A o \in Range(waiting) : o \in EmptyPrompts
  <2>1. waiting \in Seq(Objects) BY DEF SequentialOK, QueuesOK
  <2>2. \A o \in Range(waiting) : o \in Objects /\ (o \in EmptyPrompts \/ InCall(o[1]))
    BY <2>1, ElementsOfSeq DEF SequentialOK, QueuesOK
  <2> QED BY <1>1, <2>2, ObjectFacts
<1>8. CallShape' BY <1>3 DEF CallShape, SequentialOK, Frame
<1>9. RequestsOK' BY <1>2 DEF SequentialOK, RequestsOK, Fresh, Begun, Complete
<1>10. IdsOK' BY <1>2 DEF SequentialOK, IdsOK, Sent
<1>11. QueuesOK' BY <1>2, <1>6, <1>7, EmptyRange DEF SequentialOK, QueuesOK, Sent, Fresh
<1>12. \A u \in Threads \ {t} : call'[u] = call[u] /\ ~InCall(u)' BY <1>1, <1>3 DEF InCall, Frame
<1>13. Alone' BY <1>12 DEF Alone
<1>14. \A u \in Threads \ {t} : QuietOK(u)'
  BY <1>1, <1>2, <1>12 DEF SequentialOK, QuietOK, Exact, Sent, Fresh
<1>15. InCall(t)' BY <1>3 DEF InCall
<1>16. RunOK(t)'
  <2>1. call'[t].pc \in {"enqueue", "init"} /\ call'[t].request_ids = <<>> /\ call'[t].completed = {}
    BY <1>3, <1>4 DEF NoCall
  <2>2. EnqueuedOK(t)'
    <3>1. <<>> \in Seq(Nat) /\ Len(<<>>) = 0 OBVIOUS
    <3>2. Len(Prompts[t]) \in Nat /\ DOMAIN Prompts[t] = 1 .. Len(Prompts[t]) BY ObjectFacts
    <3>3. \A i \in DOMAIN Prompts[t] : ~(i <= 0) /\ <<t, i>> \in Own(t) BY <3>2, ObjectFacts
    <3>4. \A i \in DOMAIN Prompts[t] : ~Sent(<<t, i>>)' /\ Fresh(<<t, i>>)'
      BY <1>2, <1>5, <3>3 DEF Sent, Fresh
    <3> QED BY <2>1, <3>1, <3>2, <3>3, <3>4 DEF EnqueuedOK
  <2>3. BeforeOK(t)'
    <3>1. \A i \in 1 .. Len(<<>>) : FALSE OBVIOUS
    <3> QED BY <1>2, <1>6, <2>1, <3>1 DEF BeforeOK
  <2> QED BY <2>1, <2>2, <2>3 DEF RunOK, Before, Looping, Advancing, Sampling
<1> QED BY <1>8, <1>9, <1>10, <1>11, <1>12, <1>13, <1>14, <1>15, <1>16 DEF SequentialOK

LEMMA EnqueuedStays ==
    ASSUME NEW t \in Threads, EnqueuedOK(t), UNCHANGED request,
           call'[t].request_ids = call[t].request_ids
    PROVE  EnqueuedOK(t)'
BY DEF EnqueuedOK, Sent, Fresh

LEMMA initKeeps ==
    ASSUME SequentialOK, NEW t \in Threads, AcquireInitLock(t) \/ Load(t) \/ LoadRaises(t)
    PROVE  SequentialOK'
<1>1. call[t].pc \in {"init", "load"} /\ UNCHANGED queue_vars
  BY DEF AcquireInitLock, Load, LoadRaises
<1>2. PICK l \in {"enqueue", "load", "raised"} : Goto(t, l)
  BY DEF AcquireInitLock, Load, LoadRaises
<1>3. InCall(t) BY <1>1 DEF InCall
<1>4. /\ Frame(t) /\ call'[t].pc = l /\ call'[t].completed = call[t].completed
      /\ call'[t].request_ids = call[t].request_ids
  BY <1>2, GotoMoves
<1>5. RunOK(t) BY <1>3, Owners
<1>6. BeforeOK(t) /\ call[t].request_ids = <<>> /\ active = <<>>
  BY <1>1, <1>5 DEF RunOK, Before, BeforeOK
<1>7. Range(waiting) \subseteq EmptyPrompts
  <2>1. \A o \in Range(waiting) : o \in EmptyPrompts \/ o \in Own(t) BY <1>3, Owners
  <2>2. Len(<<>>) = 0 OBVIOUS
  <2>3. \A i \in DOMAIN Prompts[t] : ~Sent(<<t, i>>)
    <3>1. \A i \in DOMAIN Prompts[t] : ~(i <= 0) BY ObjectFacts
    <3> QED BY <1>5, <1>6, <2>2, <3>1 DEF RunOK, EnqueuedOK
  <2>4. \A o \in Own(t) : ~Sent(o) BY <2>3 DEF Own
  <2> QED BY <2>1, <2>4 DEF SequentialOK, QueuesOK
<1>8. UNCHANGED <<counter, waiting, active, request>> BY <1>1 DEF queue_vars
<1>9. OnlyMine(t) /\ RequestsOK' /\ QueuesOK' BY <1>3, <1>4, <1>6, <1>7, <1>8, SameQueues
<1>10. IdsOK' BY <1>8 DEF SequentialOK, IdsOK, Sent
<1>11. IF InCall(t)' THEN RunOK(t)' ELSE QuietOK(t)'
  <2>1. CASE l = "raised" BY <1>4, <2>1 DEF InCall, QuietOK
  <2>2. CASE l # "raised"
    <3>1. EnqueuedOK(t)' BY <1>4, <1>5, <1>8, EnqueuedStays DEF RunOK
    <3>2. BeforeOK(t)' BY <1>4, <1>6, <1>8, <2>2 DEF BeforeOK
    <3> QED BY <1>4, <2>2, <3>1, <3>2 DEF InCall, RunOK, Before, Looping, Advancing, Sampling
  <2> QED BY <2>1, <2>2
<1> QED BY <1>3, <1>4, <1>9, <1>10, <1>11, FrameKeeps

LEMMA ReadCounterKeeps ==
    ASSUME SequentialOK, NEW t \in Threads, ReadCounter(t)
    PROVE  SequentialOK'
<1>1. /\ call[t].pc = "enqueue" /\ Len(call[t].request_ids) < Len(Prompts[t])
      /\ UNCHANGED <<counter, waiting, active, request>>
      /\ call' = [call EXCEPT ![t].pc = "write_id", ![t].seen = counter]
  BY DEF ReadCounter, queue_vars
<1>2. DOMAIN call = Threads /\ DOMAIN call[t] = CallFields BY DEF SequentialOK, CallShape
<1>3. call'[t] = [call[t] EXCEPT !.pc = "write_id", !.seen = counter] BY <1>1, <1>2
<1>4. /\ call'[t].pc = "write_id" /\ call'[t].seen = counter
      /\ call'[t].completed = call[t].completed
      /\ call'[t].request_ids = call[t].request_ids
  BY <1>2, <1>3 DEF CallFields, NoCall
<1>5. Frame(t) BY <1>1, <1>2 DEF Frame
<1>6. InCall(t) /\ InCall(t)' BY <1>1, <1>4 DEF InCall
<1>7. OnlyMine(t) /\ RequestsOK' /\ QueuesOK' BY <1>1, <1>5, <1>6, SameQueues
<1>8. IdsOK' BY <1>1 DEF SequentialOK, IdsOK, Sent
<1>9. RunOK(t)'
  <2>1. RunOK(t) BY <1>6, Owners
  <2>2. EnqueuedOK(t)' BY <1>1, <1>4, <2>1, EnqueuedStays DEF RunOK
  <2>3. BeforeOK(t)' BY <1>1, <1>4, <2>1 DEF RunOK, BeforeOK, Before
  <2> QED BY <1>4, <2>2, <2>3 DEF RunOK, Before, Looping, Advancing, Sampling
<1> QED BY <1>5, <1>6, <1>7, <1>8, <1>9, FrameKeeps

LEMMA WriteCounterKeeps ==
    ASSUME SequentialOK, NEW t \in Threads, WriteCounter(t)
    PROVE  SequentialOK'
<1>1. /\ call[t].pc = "write_id"
      /\ UNCHANGED <<waiting, active, request>> /\ counter' = call[t].seen + 1
      /\ call' = [call EXCEPT ![t].pc = "return_id", ![t].seen = 0]
  BY DEF WriteCounter
<1>2. /\ Frame(t) /\ call'[t].pc = "return_id" /\ call'[t].completed = call[t].completed
      /\ call'[t].request_ids = call[t].request_ids
  <2>1. DOMAIN call = Threads /\ DOMAIN call[t] = CallFields BY DEF SequentialOK, CallShape
  <2>2. call'[t] = [call[t] EXCEPT !.pc = "return_id", !.seen = 0] BY <1>1, <2>1
  <2> QED BY <1>1, <2>1, <2>2 DEF Frame, CallFields, NoCall
<1>3. InCall(t) /\ InCall(t)' BY <1>1, <1>2 DEF InCall
<1>4. RunOK(t) BY <1>3, Owners
<1>5. counter' = counter + 1 BY <1>1, <1>4 DEF RunOK, BeforeOK, Before
<1>6. OnlyMine(t) /\ RequestsOK' /\ QueuesOK' BY <1>1, <1>2, <1>3, SameQueues
<1>7. \A o \in Objects : request[o].id \in Nat /\ request[o].id <= counter /\ counter \in Nat
  BY DEF SequentialOK, RequestsOK, RequestType, IdsOK
<1>8. \A o \in Objects : request[o].id < counter + 1 /\ request[o].id <= counter + 1 BY <1>7
<1>9. IdsOK'
  <2>1. counter' \in Nat BY <1>5 DEF SequentialOK, IdsOK
  <2> QED BY <1>1, <1>5, <1>8, <2>1 DEF SequentialOK, IdsOK, Sent
<1>10. RunOK(t)'
  <2>1. EnqueuedOK(t)' BY <1>1, <1>2, <1>4, EnqueuedStays DEF RunOK
  <2>2. BeforeOK(t)' BY <1>1, <1>2, <1>4, <1>5, <1>8 DEF RunOK, BeforeOK, Before
  <2> QED BY <1>2, <2>1, <2>2 DEF RunOK, Before, Looping, Advancing, Sampling
<1> QED BY <1>2, <1>3, <1>6, <1>9, <1>10, FrameKeeps

LEMMA enqueue_requestKeeps ==
    ASSUME SequentialOK, NEW t \in Threads, enqueue_request(t)
    PROVE  SequentialOK'
<1>0. PICK n, o : n = Len(call[t].request_ids) /\ o = <<t, n + 1>> OBVIOUS
<1>1. /\ call[t].pc = "return_id" /\ UNCHANGED <<counter, active>>
      /\ request' = [request EXCEPT ![o].id = counter] /\ waiting' = Append(waiting, o)
      /\ call' = [call EXCEPT ![t].pc = "enqueue", ![t].request_ids = Append(@, counter)]
  BY <1>0 DEF enqueue_request
<1>2. DOMAIN call = Threads /\ DOMAIN call[t] = CallFields BY DEF SequentialOK, CallShape
<1>3. InCall(t) BY <1>1 DEF InCall
<1>4. RunOK(t) BY <1>3, Owners
<1>5. call'[t] = [call[t] EXCEPT !.pc = "enqueue", !.request_ids = Append(call[t].request_ids, counter)]
  BY <1>1, <1>2
<1>6. /\ call'[t].pc = "enqueue" /\ call'[t].completed = call[t].completed
      /\ call'[t].request_ids = Append(call[t].request_ids, counter)
  BY <1>2, <1>5 DEF CallFields, NoCall
<1>7. Frame(t) BY <1>1, <1>2 DEF Frame
<1>8. InCall(t)' BY <1>6 DEF InCall
<1>9. BeforeOK(t) /\ EnqueuedOK(t) BY <1>1, <1>4 DEF RunOK, Before
<1>10. /\ n \in Nat /\ n < Len(Prompts[t]) /\ call[t].request_ids \in Seq(Nat) /\ active = <<>>
       /\ \A q \in Objects : request[q].id < counter
  BY <1>0, <1>1, <1>9, LenProperties DEF BeforeOK, EnqueuedOK
<1>11. counter \in Nat BY DEF SequentialOK, IdsOK
<1>12. n + 1 \in DOMAIN Prompts[t] /\ ~(n + 1 <= n) BY <1>10, ObjectFacts
<1>13. o \in Objects /\ o \in Own(t) BY <1>0, <1>12, ObjectFacts
<1>14. ~Sent(o) /\ Fresh(o) BY <1>0, <1>9, <1>12 DEF EnqueuedOK
<1>15. request \in [Objects -> RequestType] BY DEF SequentialOK, RequestsOK
<1>16. counter # 0 /\ counter > 0
  <2>1. request[o].id \in Nat BY <1>13, <1>15 DEF RequestType
  <2> QED BY <1>10, <1>11, <1>13, <2>1
<1>17. \A q \in Objects :
           /\ q # o => request'[q] = request[q]
           /\ request'[q].state = request[q].state /\ request'[q].processed = request[q].processed
           /\ request'[q].out = request[q].out
           /\ request'[q].id = IF q = o THEN counter ELSE request[q].id
  BY <1>1, <1>13, <1>15 DEF RequestType
<1>18. request' \in [Objects -> RequestType]
  BY <1>1, <1>11, <1>13, <1>15 DEF RequestType
<1>19. \A q \in Objects : /\ Fresh(q)' = Fresh(q) /\ Prefilling(q)' = Prefilling(q)
                          /\ Begun(q)' = Begun(q) /\ Complete(q)' = Complete(q)
                          /\ Sent(q)' = (Sent(q) \/ q = o)
  BY <1>16, <1>17 DEF Fresh, Prefilling, Begun, Complete, Sent
<1>20. RequestsOK' BY <1>18, <1>19 DEF SequentialOK, RequestsOK
<1>21. IdsOK'
  <2>1. \A q \in Objects : request'[q].id <= counter
    BY <1>10, <1>11, <1>15, <1>17 DEF RequestType
  <2>2. ASSUME NEW q \in Objects, NEW r \in Objects, Sent(q)', request'[q].id = request'[r].id
        PROVE  q = r
    <3>1. request[q].id \in Nat /\ request[r].id \in Nat
          /\ request[q].id < counter /\ request[r].id < counter
      BY <1>10, <1>15 DEF RequestType
    <3>2. CASE q = o \/ r = o BY <1>11, <1>17, <2>2, <3>1, <3>2
    <3>3. CASE q # o /\ r # o BY <1>17, <1>19, <2>2, <3>3 DEF SequentialOK, IdsOK
    <3> QED BY <3>2, <3>3
  <2> QED BY <1>1, <1>11, <2>1, <2>2 DEF IdsOK
<1>22. QueuesOK'
  <2>1. waiting \in Seq(Objects) /\ IsInjective(waiting) /\ Range(waiting) \subseteq Objects
    BY ElementsOfSeq DEF SequentialOK, QueuesOK
  <2>2. o \notin Range(waiting) BY <1>14 DEF SequentialOK, QueuesOK
  <2>3. /\ waiting' \in Seq(Objects) /\ IsInjective(waiting')
        /\ Range(waiting') = Range(waiting) \cup {o}
    BY <1>1, <1>13, <2>1, <2>2, AppendElements, AppendProperties
  <2>4. active' = <<>> /\ active' \in Seq(Objects) /\ IsInjective(active') /\ Range(active') = {}
    BY <1>1, <1>10, EmptyRange
  <2>5. \A q \in Range(waiting) :
            Sent(q)' /\ Fresh(q)' /\ (q \in EmptyPrompts \/ InCall(q[1])')
    <3>1. \A q \in Range(waiting) : q \in EmptyPrompts \/ q[1] = t BY <1>3, <2>1, Owners
    <3> QED BY <1>8, <1>19, <2>1, <3>1 DEF SequentialOK, QueuesOK
  <2>6. Sent(o)' /\ Fresh(o)' /\ InCall(o[1])'
    <3>1. o[1] = t BY <1>13, ObjectFacts
    <3> QED BY <1>8, <1>13, <1>14, <1>19, <3>1
  <2> QED BY <2>3, <2>4, <2>5, <2>6 DEF QueuesOK
<1>23. OnlyMine(t) BY <1>13, <1>17 DEF OnlyMine
<1>24. RunOK(t)'
  <2>1. /\ call'[t].request_ids \in Seq(Nat) /\ Len(call'[t].request_ids) = n + 1
        /\ \A i \in 1 .. n : call'[t].request_ids[i] = call[t].request_ids[i]
        /\ call'[t].request_ids[n + 1] = counter
    BY <1>0, <1>6, <1>10, <1>11, AppendProperties
  <2>2. EnqueuedOK(t)'
    <3>1. ASSUME NEW i \in DOMAIN Prompts[t]
          PROVE  IF i <= n + 1
                 THEN /\ call'[t].request_ids[i] # 0
                      /\ request'[<<t, i>>].id = call'[t].request_ids[i]
                 ELSE ~Sent(<<t, i>>)' /\ Fresh(<<t, i>>)'
      <4>1. i \in Nat /\ i > 0 /\ <<t, i>> \in Objects BY ObjectFacts
      <4>2. CASE i <= n
        <5>1. i \in 1 .. n /\ i # n + 1 /\ <<t, i>> # o BY <1>0, <1>10, <4>1, <4>2
        <5>2. call[t].request_ids[i] # 0 /\ request[<<t, i>>].id = call[t].request_ids[i]
          BY <1>0, <1>9, <4>2 DEF EnqueuedOK
        <5>3. request'[<<t, i>>].id = request[<<t, i>>].id BY <1>17, <4>1, <5>1
        <5>4. call'[t].request_ids[i] = call[t].request_ids[i] BY <2>1, <5>1
        <5>5. i <= n + 1 BY <1>10, <4>1, <4>2
        <5> QED BY <5>2, <5>3, <5>4, <5>5
      <4>3. CASE i = n + 1
        <5>1. <<t, i>> = o /\ i <= n + 1 BY <1>0, <4>1, <4>3
        <5> QED BY <1>13, <1>16, <1>17, <2>1, <4>3, <5>1
      <4>4. CASE i > n + 1
        <5>1. <<t, i>> # o /\ ~(i <= n + 1) /\ ~(i <= n) BY <1>0, <1>10, <4>1, <4>4
        <5> QED BY <1>0, <1>9, <1>19, <4>1, <5>1 DEF EnqueuedOK
      <4> QED BY <1>10, <4>1, <4>2, <4>3, <4>4
    <3>2. n + 1 <= Len(Prompts[t])
      <4>1. Len(Prompts[t]) \in Nat BY ObjectFacts
      <4> QED BY <1>10, <4>1
    <3> QED BY <2>1, <3>1, <3>2 DEF EnqueuedOK
  <2>3. BeforeOK(t)'
    <3>1. ASSUME NEW i \in 1 .. n + 1 PROVE <<t, i>> \in Range(waiting')
      <4>1. waiting \in Seq(Objects) BY DEF SequentialOK, QueuesOK
      <4>2. Range(waiting') = Range(waiting) \cup {o} BY <1>1, <1>13, <4>1, AppendElements
      <4>3. CASE i = n + 1 BY <1>0, <4>2, <4>3
      <4>4. CASE i # n + 1
        <5>1. i \in 1 .. n BY <1>10, <4>4
        <5> QED BY <1>0, <1>9, <4>2, <5>1 DEF BeforeOK
      <4> QED BY <4>3, <4>4
    <3>2. active' = <<>> /\ call'[t].completed = {} BY <1>1, <1>6, <1>9, <1>10 DEF BeforeOK
    <3> QED BY <1>6, <2>1, <3>1, <3>2 DEF BeforeOK
  <2> QED BY <1>6, <2>2, <2>3 DEF RunOK, Before, Looping, Advancing, Sampling
<1> QED BY <1>3, <1>7, <1>8, <1>20, <1>21, <1>22, <1>23, <1>24, FrameKeeps

(* The cap is at least what the prompts take when nothing has begun.        *)
LEMMA CapIsNat == ASSUME NEW t \in Threads PROVE max_iters(t) \in Nat
<1> DEFINE d == [i \in DOMAIN Prompts[t] |-> (Prompts[t][i] + max_num_tokens - 1) \div max_num_tokens]
<1>1. /\ Prompts[t] \in Seq(Nat) /\ DOMAIN Prompts[t] = 1 .. Len(Prompts[t])
      /\ Len(Prompts[t]) \in Nat /\ MaxNew[t] \in Nat
      /\ \A i \in DOMAIN Prompts[t] : Prompts[t][i] \in Nat
  BY ObjectFacts
<1>2. max_num_tokens \in Nat \ {0} /\ Slack \in Nat BY GenerateAssumption
<1>3. \A m \in Nat, s \in Nat \ {0} : (m + s - 1) \div s \in Nat
  <2> SUFFICES ASSUME NEW m \in Nat, NEW s \in Nat \ {0} PROVE (m + s - 1) \div s \in Nat
    OBVIOUS
  <2>1. m + s - 1 \in Nat OBVIOUS
  <2> QED BY <2>1, QuotientOf
<1>4. d \in [DOMAIN Prompts[t] -> Nat] BY <1>1, <1>2, <1>3
<1>5. max_context_iters(t) = SumOfPrompts(t, d) BY DEF max_context_iters, SumOfPrompts
<1> HIDE DEF d
<1>6. \A i \in DOMAIN Prompts[t] : d[i] <= d[i] BY <1>4
<1>7. SumOfPrompts(t, d) \in Nat BY <1>4, <1>6, PromptSums
<1>8. \A x, y \in Nat : x * y \in Nat OBVIOUS
<1>9. MaxNew[t] * Len(Prompts[t]) \in Nat BY <1>1, <1>8
<1> QED BY <1>2, <1>5, <1>7, <1>9 DEF max_iters

LEMMA FreshWork ==
    ASSUME NEW t \in Threads, RequestsOK, \A o \in Own(t) : Fresh(o)
    PROVE  WorkOf(t) = Needed(t)
<1>1. \A i \in DOMAIN Prompts[t] :
          WorkLeft(<<t, i>>) = IF Prompts[t][i] = 0 THEN 0
                               ELSE ChunksOf(Prompts[t][i], t) + MaxNew[t] - 1
  <2> SUFFICES ASSUME NEW i \in DOMAIN Prompts[t]
               PROVE  WorkLeft(<<t, i>>) = IF Prompts[t][i] = 0 THEN 0
                               ELSE ChunksOf(Prompts[t][i], t) + MaxNew[t] - 1
    OBVIOUS
  <2> DEFINE o == <<t, i>>
  <2>1. /\ ContextLenOf(o) = Prompts[t][i] /\ MaxTokensOf(o) = MaxNew[t] /\ o \in Own(t)
        /\ ContextLenOf(o) \in Nat
    BY ObjectFacts
  <2>2. request[o].processed = 0 BY <2>1 DEF Fresh
  <2>3. Left(o) = Prompts[t][i] BY <2>1, <2>2 DEF Left
  <2>4. o[1] = t OBVIOUS
  <2> HIDE DEF o
  <2>5. Prompts[t][i] # 0 => Prompts[t][i] > 0 BY <2>1
  <2>6. WorkLeft(o) = IF Prompts[t][i] = 0 THEN 0 ELSE ChunksOf(Prompts[t][i], t) + MaxNew[t] - 1
    BY <2>1, <2>3, <2>4, <2>5 DEF WorkLeft
  <2> QED BY <2>6 DEF o
<1> QED BY <1>1 DEF WorkOf, Needed

LEMMA StartLoopKeeps ==
    ASSUME CapSuffices, SequentialOK, NEW t \in Threads, StartLoop(t)
    PROVE  SequentialOK'
<1>1. /\ call[t].pc = "enqueue" /\ Len(call[t].request_ids) = Len(Prompts[t])
      /\ UNCHANGED <<counter, waiting, active, request>>
      /\ call' = [call EXCEPT ![t].pc = "loop", ![t].iters = max_iters(t)]
  BY DEF StartLoop, queue_vars
<1>2. DOMAIN call = Threads /\ DOMAIN call[t] = CallFields BY DEF SequentialOK, CallShape
<1>3. call'[t] = [call[t] EXCEPT !.pc = "loop", !.iters = max_iters(t)] BY <1>1, <1>2
<1>4. /\ call'[t].pc = "loop" /\ call'[t].iters = max_iters(t)
      /\ call'[t].completed = call[t].completed
      /\ call'[t].request_ids = call[t].request_ids
  BY <1>2, <1>3 DEF CallFields, NoCall
<1>5. Frame(t) BY <1>1, <1>2 DEF Frame
<1>6. InCall(t) /\ InCall(t)' BY <1>1, <1>4 DEF InCall
<1>7. OnlyMine(t) /\ RequestsOK' /\ QueuesOK' BY <1>1, <1>5, <1>6, SameQueues
<1>8. IdsOK' BY <1>1 DEF SequentialOK, IdsOK, Sent
<1>9. RunOK(t) /\ BeforeOK(t) BY <1>1, <1>6, Owners DEF RunOK, Before
<1>10. \A o \in Own(t) : o \in Range(waiting) /\ Fresh(o) /\ ~Complete(o)
  <2>1. \A o \in Own(t) : \E i \in 1 .. Len(Prompts[t]) : o = <<t, i>>
    BY ObjectFacts DEF Own
  <2>2. \A o \in Own(t) : o \in Range(waiting) BY <1>1, <1>9, <2>1 DEF BeforeOK
  <2>3. \A o \in Own(t) : Fresh(o) BY <2>2 DEF SequentialOK, QueuesOK
  <2> QED BY <2>2, <2>3 DEF Fresh, Complete
<1>11. EnqueuedOK(t)' BY <1>1, <1>4, <1>9, EnqueuedStays DEF RunOK
<1>12. CountedOK(t)'
  <2>1. Delivered(t)' = {} BY <1>1, <1>10 DEF Delivered, Complete
  <2>2. call'[t].completed = {} BY <1>4, <1>9 DEF BeforeOK
  <2> QED BY <1>1, <1>4, <1>10, <2>1, <2>2 DEF CountedOK
<1>13. CapOK(t)'
  <2>1. WorkOf(t) = Needed(t) BY <1>10, FreshWork DEF SequentialOK
  <2>2. WorkOf(t)' = WorkOf(t) BY <1>1 DEF WorkOf, WorkLeft, Left
  <2>3. Needed(t) <= max_iters(t) /\ max_iters(t) \in Nat BY CapIsNat DEF CapSuffices
  <2>4. PICK m \in Nat : m = max_iters(t) BY <2>3
  <2>5. m + 0 = m BY <2>4
  <2>6. ~Moving(t)' BY <1>4 DEF Moving, Advancing, Sampling
  <2> QED BY <1>4, <2>1, <2>2, <2>3, <2>4, <2>5, <2>6 DEF CapOK
<1>14. PhaseOK(t)'
  <2>1. active' = <<>> BY <1>1, <1>9 DEF BeforeOK
  <2> QED BY <1>4, <2>1, EmptyRange DEF PhaseOK, Advancing, Sampling
<1>15. RunOK(t)' BY <1>4, <1>11, <1>12, <1>13, <1>14 DEF RunOK, Before, Looping
<1> QED BY <1>5, <1>6, <1>7, <1>8, <1>15, FrameKeeps

-----------------------------------------------------------------------------
(* Around an iteration: nothing moves but the call itself.                  *)

(* What the loop knows about the prompts stays.                             *)
LEMMA CountedStays ==
    ASSUME NEW t \in Threads, RunOK(t), CountedOK(t), UNCHANGED <<waiting, active, request>>,
           call'[t].request_ids = call[t].request_ids, call'[t].completed = call[t].completed
    PROVE  EnqueuedOK(t)' /\ CountedOK(t)' /\ WorkOf(t)' = WorkOf(t)
<1>1. EnqueuedOK(t)' BY EnqueuedStays DEF RunOK
<1>2. \A o \in Own(t) : Complete(o)' = Complete(o) BY DEF Complete
<1>3. Delivered(t)' = Delivered(t) BY <1>2 DEF Delivered
<1>4. \A o : OutputOf(o)' = OutputOf(o) BY DEF OutputOf
<1>5. CountedOK(t)' BY <1>2, <1>3, <1>4 DEF CountedOK
<1>6. WorkOf(t)' = WorkOf(t) BY DEF WorkOf, WorkLeft, Left
<1> QED BY <1>1, <1>5, <1>6

LEMMA TakeSnapshotKeeps ==
    ASSUME SequentialOK, NEW t \in Threads, TakeSnapshot(t)
    PROVE  SequentialOK'
<1>1. /\ call[t].pc = "loop" /\ call[t].iters > 0
      /\ UNCHANGED <<counter, waiting, active, request>>
      /\ call' = [call EXCEPT ![t].pc = "schedule", ![t].iters = @ - 1, ![t].snapshot = waiting]
  BY DEF TakeSnapshot, queue_vars
<1>2. DOMAIN call = Threads /\ DOMAIN call[t] = CallFields BY DEF SequentialOK, CallShape
<1>3. call'[t] = [call[t] EXCEPT !.pc = "schedule", !.iters = call[t].iters - 1, !.snapshot = waiting]
  BY <1>1, <1>2
<1>4. /\ call'[t].pc = "schedule" /\ call'[t].iters = call[t].iters - 1
      /\ call'[t].snapshot = waiting
      /\ call'[t].completed = call[t].completed
      /\ call'[t].request_ids = call[t].request_ids
  BY <1>2, <1>3 DEF CallFields, NoCall
<1>5. Frame(t) BY <1>1, <1>2 DEF Frame
<1>6. InCall(t) /\ InCall(t)' BY <1>1, <1>4 DEF InCall
<1>7. OnlyMine(t) /\ RequestsOK' /\ QueuesOK' BY <1>1, <1>5, <1>6, SameQueues
<1>8. IdsOK' BY <1>1 DEF SequentialOK, IdsOK, Sent
<1>9. RunOK(t) /\ CountedOK(t) /\ CapOK(t) /\ PhaseOK(t)
  BY <1>1, <1>6, Owners DEF RunOK, Looping
<1>10. EnqueuedOK(t)' /\ CountedOK(t)' /\ WorkOf(t)' = WorkOf(t) BY <1>1, <1>4, <1>9, CountedStays
<1>11. CapOK(t)'
  <2>0. ~Moving(t) /\ Moving(t)' BY <1>1, <1>4 DEF Moving, Advancing, Sampling
  <2>1. call[t].iters \in Nat /\ WorkOf(t) <= call[t].iters + 0 BY <1>9, <2>0 DEF CapOK
  <2>2. PICK k \in Nat : k = call[t].iters /\ k > 0 BY <1>1, <2>1
  <2>3. k - 1 \in Nat /\ (k - 1) + 1 = k /\ k + 0 = k BY <2>2
  <2> QED BY <1>4, <1>10, <2>0, <2>1, <2>2, <2>3 DEF CapOK
<1>12. PhaseOK(t)'
  <2>1. \A o \in Range(active) : Settled(o) BY <1>1, <1>9 DEF PhaseOK
  <2> QED BY <1>1, <1>4, <2>1 DEF PhaseOK, Settled, Prefilling, Decoding, Advancing, Sampling
<1>13. RunOK(t)' BY <1>4, <1>10, <1>11, <1>12 DEF RunOK, Before, Looping
<1> QED BY <1>5, <1>6, <1>7, <1>8, <1>13, FrameKeeps

(* A call that has counted enough has counted every prompt.                 *)
LEMMA EnoughIsAll ==
    ASSUME NEW t \in Threads, CountedOK(t), Enough(t)
    PROVE  Own(t) \subseteq Delivered(t)
<1>1. Cardinality(call[t].completed) >= Len(Prompts[t]) BY DEF CountedOK, Enough
<1>2. call[t].completed = {OutputOf(o) : o \in Delivered(t)} BY DEF CountedOK
<1>3. IsFiniteSet(Own(t)) /\ Cardinality(Own(t)) = Len(Prompts[t]) BY OwnFinite
<1>4. Delivered(t) \in SUBSET Own(t) BY DEF Delivered
<1>5. IsFiniteSet(Delivered(t)) /\ Cardinality(Delivered(t)) <= Cardinality(Own(t))
      /\ (Cardinality(Own(t)) = Cardinality(Delivered(t)) => Own(t) = Delivered(t))
  BY <1>3, <1>4, FS_Subset
<1> DEFINE D == Delivered(t)
           f == [o \in D |-> OutputOf(o)]
           C == {OutputOf(o) : o \in D}
<1>6. f \in Surjection(D, C) BY DEF Surjection
<1> HIDE DEF D, f, C
<1>7. Cardinality(C) <= Cardinality(D) BY <1>5, <1>6, FS_Surjection DEF D
<1>8. PICK a \in Nat, b \in Nat, c \in Nat :
          a = Cardinality(C) /\ b = Cardinality(D) /\ c = Cardinality(Own(t))
  <2>1. IsFiniteSet(C) BY <1>5, <1>6, FS_Surjection DEF D
  <2> QED BY <1>3, <1>5, <2>1, FS_CardinalityType DEF D
<1>9. b = c BY <1>1, <1>2, <1>3, <1>5, <1>7, <1>8 DEF C, D
<1> QED BY <1>5, <1>8, <1>9 DEF D

LEMMA EndIterationKeeps ==
    ASSUME SequentialOK, NEW t \in Threads, EndIteration(t)
    PROVE  SequentialOK'
<1>1. /\ call[t].pc = "complete" /\ call[t].completed_ids = <<>>
      /\ UNCHANGED <<counter, waiting, active, request>>
      /\ Goto(t, AfterIteration(t))
  BY DEF EndIteration, queue_vars
<1>2. /\ Frame(t) /\ call'[t].pc = AfterIteration(t) /\ call'[t].completed = call[t].completed
      /\ call'[t].request_ids = call[t].request_ids /\ call'[t].iters = call[t].iters
  BY <1>1, GotoMoves
<1>3. call'[t].pc \in {"build", "loop"} /\ (call'[t].pc = "build" => Enough(t))
  BY <1>2 DEF AfterIteration
<1>6. InCall(t) /\ InCall(t)' BY <1>1, <1>3 DEF InCall
<1>7. OnlyMine(t) /\ RequestsOK' /\ QueuesOK' BY <1>1, <1>2, <1>6, SameQueues
<1>8. IdsOK' BY <1>1 DEF SequentialOK, IdsOK, Sent
<1>9. RunOK(t) /\ CountedOK(t) /\ CapOK(t) /\ PhaseOK(t)
  BY <1>1, <1>6, Owners DEF RunOK, Looping
<1>10. EnqueuedOK(t)' /\ CountedOK(t)' /\ WorkOf(t)' = WorkOf(t) BY <1>1, <1>2, <1>9, CountedStays
<1>11. CapOK(t)'
  <2>1. ~Moving(t) /\ ~Moving(t)' BY <1>1, <1>3 DEF Moving, Advancing, Sampling
  <2> QED BY <1>1, <1>2, <1>9, <1>10, <2>1 DEF CapOK
<1>12. PhaseOK(t)'
  <2>3. \A o \in Range(active) : Settled(o)
    <3>1. CompleteIds = {} BY <1>1, <1>9, EmptyRange DEF PhaseOK
    <3>2. \A o \in Range(active) : ~Complete(o) BY <3>1 DEF CompleteIds
    <3> QED BY <1>1, <1>9, <3>2 DEF PhaseOK
  <2>4. call'[t].pc = "build" => Own(t) \subseteq Delivered(t)' 
    <3>1. Delivered(t)' = Delivered(t) BY <1>1 DEF Delivered, Complete
    <3> QED BY <1>3, <1>9, <3>1, EnoughIsAll
  <2> QED
    BY <1>1, <1>3, <2>3, <2>4 DEF PhaseOK, Settled, Prefilling, Decoding, Advancing, Sampling
<1>13. RunOK(t)' BY <1>3, <1>10, <1>11, <1>12 DEF RunOK, Before, Looping
<1> QED BY <1>2, <1>6, <1>7, <1>8, <1>13, FrameKeeps

LEMMA CompleteNextKeeps ==
    ASSUME SequentialOK, NEW t \in Threads, CompleteNext(t)
    PROVE  SequentialOK'
<1>1. PICK id, ids : id = Head(call[t].completed_ids) /\ ids = call[t].completed_ids OBVIOUS
<1>2. PICK mine, Same : Same = {o \in Objects : request[o].id = id} /\ mine = Keep(active, Same)
  OBVIOUS
<1>3. /\ call[t].pc = "complete" /\ ids # <<>>
      /\ UNCHANGED <<counter, waiting, request>>
      /\ active' = Keep(active, {o \in Objects : request[o].id # id})
      /\ call' = [call EXCEPT
             ![t].completed_ids = Tail(@),
             ![t].completed = IF mine = <<>> THEN @
                              ELSE {c \in call[t].completed : c.id # id}
                                       \cup {[id |-> id, of |-> Head(mine),
                                              tokens |-> request[Head(mine)].out]}]
  BY <1>1, <1>2 DEF CompleteNext
<1>4. InCall(t) BY <1>3 DEF InCall
<1>5. RunOK(t) /\ CountedOK(t) /\ CapOK(t) /\ PhaseOK(t) BY <1>3, <1>4, Owners DEF RunOK, Looping
<1>6. /\ \A o \in Range(active) : /\ o \in Objects /\ (Settled(o) \/ Complete(o))
                                   /\ o \in Own(t) /\ Sent(o)
      /\ ids \in Seq(Nat) /\ IsInjective(ids)
      /\ Range(ids) = {request[o].id : o \in {q \in Range(active) : Complete(q)}}
  BY <1>1, <1>3, <1>4, <1>5, Owners DEF PhaseOK, CompleteIds, SequentialOK, QueuesOK
<1>7. /\ Tail(ids) \in Seq(Nat) /\ IsInjective(Tail(ids)) /\ id \notin Range(Tail(ids))
      /\ Range(ids) = Range(Tail(ids)) \cup {id} /\ id \in Range(ids)
  BY <1>1, <1>3, <1>6, TailElements, HeadTailProperties
<1>8. PICK o \in Range(active) : Complete(o) /\ request[o].id = id BY <1>6, <1>7
<1>9. \A q \in Objects : request[q].id = id => q = o
  BY <1>6, <1>8 DEF SequentialOK, IdsOK
<1>10. Same = {o} BY <1>2, <1>6, <1>8, <1>9
<1>11. active \in Seq(Objects) /\ IsInjective(active) BY DEF SequentialOK, QueuesOK
<1>12. mine # <<>> /\ Head(mine) = o
  <2>1. mine \in Seq(Objects) /\ Range(mine) = {o}
    BY <1>2, <1>8, <1>10, <1>11, KeepElements
  <2>2. mine # <<>> BY <2>1, EmptyRange
  <2>3. Head(mine) \in Range(mine) BY <2>1, <2>2, TailElements
  <2> QED BY <2>1, <2>2, <2>3
<1>13. /\ active' \in Seq(Objects) /\ IsInjective(active')
       /\ Range(active') = Range(active) \ {o}
  <2> DEFINE T == {q \in Objects : request[q].id # id}
  <2>1. active' = Keep(active, T) BY <1>3
  <2>2. \A q \in Range(active) : q \in T <=> q # o BY <1>6, <1>8, <1>9
  <2> HIDE DEF T
  <2>3. Keep(active, T) \in Seq(Objects) /\ IsInjective(Keep(active, T))
        /\ Range(Keep(active, T)) = Range(active) \cap T
    BY <1>11, KeepElements
  <2> QED BY <2>1, <2>2, <2>3
<1>14. DOMAIN call = Threads /\ DOMAIN call[t] = CallFields BY DEF SequentialOK, CallShape
<1>15. call'[t] = [call[t] EXCEPT
           !.completed_ids = Tail(ids),
           !.completed = {c \in call[t].completed : c.id # id}
                             \cup {[id |-> id, of |-> o, tokens |-> request[o].out]}]
  BY <1>1, <1>3, <1>12, <1>14
<1>16. /\ call'[t].pc = "complete" /\ call'[t].completed_ids = Tail(ids)
       /\ call'[t].iters = call[t].iters /\ call'[t].request_ids = call[t].request_ids
       /\ call'[t].completed = {c \in call[t].completed : c.id # id}
                                   \cup {[id |-> id, of |-> o, tokens |-> request[o].out]}
  BY <1>3, <1>14, <1>15 DEF CallFields, NoCall
<1>17. Frame(t) BY <1>3, <1>14 DEF Frame
<1>18. InCall(t)' BY <1>16 DEF InCall
<1>19. OnlyMine(t) BY <1>3 DEF OnlyMine
<1>20. \A q : /\ Sent(q)' = Sent(q) /\ Fresh(q)' = Fresh(q) /\ Begun(q)' = Begun(q)
              /\ Settled(q)' = Settled(q) /\ Complete(q)' = Complete(q)
              /\ OutputOf(q)' = OutputOf(q)
  BY <1>3 DEF Sent, Fresh, Begun, Settled, Prefilling, Decoding, Complete, OutputOf
<1>21. RequestsOK' BY <1>3, <1>20 DEF SequentialOK, RequestsOK
<1>22. IdsOK' BY <1>3 DEF SequentialOK, IdsOK, Sent
<1>23. QueuesOK'
  <2>1. \A q \in Range(waiting) : q \in EmptyPrompts \/ InCall(q[1])'
    BY <1>4, <1>18, Owners
  <2>2. \A q \in Range(active) : InCall(q[1])' BY <1>4, <1>18, Owners
  <2> QED BY <1>3, <1>13, <1>20, <2>1, <2>2 DEF SequentialOK, QueuesOK
<1>24. RunOK(t)'
  <2>1. EnqueuedOK(t)' BY <1>3, <1>5, <1>16, EnqueuedStays DEF RunOK
  <2>2. Delivered(t)' = Delivered(t) \cup {o} /\ o \notin Delivered(t)
    BY <1>6, <1>8, <1>13, <1>20 DEF Delivered
  <2>3. call'[t].completed = {OutputOf(q) : q \in Delivered(t) \cup {o}}
    <3>1. call[t].completed = {OutputOf(q) : q \in Delivered(t)} BY <1>5 DEF CountedOK
    <3>2. \A q \in Delivered(t) : OutputOf(q).id # id
      <4>1. \A q \in Delivered(t) : q \in Objects BY ObjectFacts DEF Delivered
      <4> QED BY <1>9, <2>2, <4>1 DEF OutputOf
    <3>3. {c \in call[t].completed : c.id # id} = call[t].completed BY <3>1, <3>2
    <3>4. [id |-> id, of |-> o, tokens |-> request[o].out] = OutputOf(o)
      BY <1>8 DEF OutputOf, Complete
    <3> QED BY <1>16, <3>1, <3>3, <3>4
  <2>4. CountedOK(t)'
    <3>1. \A q \in Own(t) : q \in Range(waiting') \/ q \in Range(active') \/ Complete(q)'
      BY <1>3, <1>5, <1>8, <1>13, <1>20 DEF CountedOK
    <3>2. call'[t].completed = {OutputOf(q)' : q \in Delivered(t)'} BY <1>20, <2>2, <2>3
    <3> QED BY <1>5, <1>16, <3>1, <3>2 DEF CountedOK
  <2>5. CapOK(t)'
    <3>1. WorkOf(t)' = WorkOf(t) BY <1>3 DEF WorkOf, WorkLeft, Left
    <3>2. ~Moving(t) /\ ~Moving(t)' BY <1>3, <1>16 DEF Moving, Advancing, Sampling
    <3> QED BY <1>5, <1>16, <3>1, <3>2 DEF CapOK
  <2>6. PhaseOK(t)'
    <3>1. \A q \in Range(active') : Settled(q)' \/ Complete(q)' BY <1>6, <1>13, <1>20
    <3>2. Range(Tail(ids)) = {request[q].id : q \in {r \in Range(active') : Complete(r)}}
      <4> DEFINE A == {q \in Range(active) : Complete(q)}
                 B == {q \in Range(active') : Complete(q)}
      <4>1. A = B \cup {o} /\ o \notin B BY <1>8, <1>13
      <4>2. \A q \in A : q \in Objects BY <1>6
      <4>3. Range(ids) = {request[q].id : q \in A} BY <1>6
      <4> HIDE DEF A, B
      <4>4. \A q \in B : request[q].id # id BY <1>9, <4>1, <4>2
      <4>5. {request[q].id : q \in A} = {request[q].id : q \in B} \cup {id} BY <1>8, <4>1
      <4>6. id \notin {request[q].id : q \in B} BY <4>4
      <4>7. Range(Tail(ids)) = {request[q].id : q \in B} BY <1>7, <4>3, <4>5, <4>6
      <4> QED BY <4>7 DEF B
    <3>3. {request'[q].id : q \in {r \in Range(active') : Complete(r)'}}
              = {request[q].id : q \in {r \in Range(active') : Complete(r)}}
      BY <1>3, <1>20
    <3> QED BY <1>7, <1>16, <3>1, <3>2, <3>3 DEF PhaseOK, CompleteIds, Advancing, Sampling
  <2> QED BY <1>16, <2>1, <2>4, <2>5, <2>6 DEF RunOK, Before, Looping
<1> QED BY <1>4, <1>17, <1>18, <1>19, <1>21, <1>22, <1>23, <1>24, FrameKeeps

(* The call that returns has counted the whole output of each prompt.       *)
LEMMA AllDelivered ==
    ASSUME FewEmptyPrompts, SequentialOK, NEW t \in Threads,
           call[t].pc = "build" \/ (call[t].pc = "loop" /\ call[t].iters = 0)
    PROVE  Own(t) \ EmptyPrompts \subseteq Delivered(t)
<1>1. InCall(t) BY DEF InCall
<1>2. CountedOK(t) /\ CapOK(t) /\ PhaseOK(t) BY <1>1, Owners DEF RunOK, Looping
<1>3. CASE call[t].pc = "build" BY <1>2, <1>3 DEF PhaseOK
<1>4. CASE call[t].pc = "loop" /\ call[t].iters = 0
  <2>0. ~Moving(t) BY <1>4 DEF Moving, Advancing, Sampling
  <2>1. WorkOf(t) \in Nat /\ WorkOf(t) <= 0 + 0
    BY <1>2, <1>4, <2>0, WorkIsNat DEF CapOK, SequentialOK
  <2>2. WorkOf(t) = 0 BY <2>1
  <2>3. \A o \in Own(t) : o \in EmptyPrompts \/ Complete(o) \/ Spent(o)
    BY <2>2, WorkIsNat DEF SequentialOK
  <2>4. \A o \in Range(active) : o \in Objects /\ Settled(o)
    BY <1>1, <1>2, <1>4, Owners DEF PhaseOK
  <2>5. \A o \in Range(active) : ~Complete(o) /\ ~Spent(o)
    BY <2>4, WorkFacts DEF SequentialOK, Settled, Prefilling, Decoding, Complete
  <2>6. \A o \in Range(waiting) : ~Spent(o)
    BY DEF SequentialOK, QueuesOK, Fresh, Spent, Begun
  <2>7. \A o \in Own(t) : ~Spent(o) BY <1>2, <2>5, <2>6 DEF CountedOK, Complete, Spent, Begun
  <2> QED BY <2>3, <2>5, <2>7 DEF Delivered
<1> QED BY <1>3, <1>4

LEMMA BuildResultsKeeps ==
    ASSUME FewEmptyPrompts, SequentialOK, NEW t \in Threads, BuildResults(t)
    PROVE  SequentialOK'
<1>1. PICK ids, results :
          ids = call[t].request_ids /\ results = [i \in DOMAIN ids |-> ResultOf(t, ids[i])]
  OBVIOUS
<1>2. /\ call[t].pc = "build" \/ (call[t].pc = "loop" /\ call[t].iters = 0)
      /\ UNCHANGED <<counter, waiting, active, request>>
      /\ call' = [call EXCEPT ![t] = [NoCall EXCEPT !.pc = "returned", !.results = results]]
  BY <1>1 DEF BuildResults, queue_vars
<1>3. InCall(t) BY <1>2 DEF InCall
<1>4. RunOK(t) /\ CountedOK(t) /\ EnqueuedOK(t) BY <1>2, <1>3, Owners DEF RunOK, Looping
<1>5. DOMAIN call = Threads BY DEF SequentialOK, CallShape
<1>6. call'[t] = [NoCall EXCEPT !.pc = "returned", !.results = results] BY <1>2, <1>5
<1>7. call'[t].pc = "returned" /\ call'[t].results = results BY <1>6 DEF NoCall
<1>8. Frame(t)
  <2>1. DOMAIN call'[t] = DOMAIN NoCall BY <1>6
  <2> QED BY <1>2, <1>5, <2>1 DEF Frame, CallFields
<1>9. Own(t) \ EmptyPrompts \subseteq Delivered(t) BY <1>2, AllDelivered
<1>10. active = <<>>
  <2>1. \A o \in Range(active) : o \in Own(t) /\ o \notin EmptyPrompts /\ o \notin Delivered(t)
    BY <1>3, Owners DEF Delivered
  <2>2. \A o \in Range(active) : FALSE BY <1>9, <2>1
  <2> QED BY <2>2, EmptyList DEF SequentialOK, QueuesOK
<1>11. Range(waiting) \subseteq EmptyPrompts
  <2>1. \A o \in Range(waiting) : (o \in EmptyPrompts \/ o \in Own(t)) /\ Fresh(o)
    BY <1>3, Owners DEF SequentialOK, QueuesOK
  <2>2. \A o \in Delivered(t) : ~Fresh(o) BY DEF Delivered, Complete, Fresh
  <2> QED BY <1>9, <2>1, <2>2
<1>12. OnlyMine(t) /\ RequestsOK' /\ QueuesOK' BY <1>2, <1>3, <1>8, <1>10, <1>11, SameQueues
<1>13. IdsOK' BY <1>2 DEF SequentialOK, IdsOK, Sent
<1>14. Exact(t)'
  <2> SUFFICES ASSUME NEW i \in DOMAIN Prompts[t]
               PROVE  results[i] = IF Prompts[t][i] = 0 THEN EmptyOutput
                                   ELSE [of |-> <<t, i>>, tokens |-> MaxNew[t]]
    BY <1>7 DEF Exact
  <2>1. ids \in Seq(Nat) /\ Len(ids) = Len(Prompts[t]) /\ i \in DOMAIN ids
    <3>1. ids \in Seq(Nat) /\ Len(ids) = Len(Prompts[t])
      BY <1>1, <1>4 DEF EnqueuedOK, CountedOK
    <3> QED BY <3>1, ObjectFacts, LenProperties
  <2>2. i <= Len(ids) BY <2>1, LenProperties
  <2>3. ids[i] # 0 /\ request[<<t, i>>].id = ids[i] BY <1>1, <1>4, <2>2 DEF EnqueuedOK
  <2>4. PICK o \in Objects : o = <<t, i>> /\ ContextLenOf(o) = Prompts[t][i]
                                /\ MaxTokensOf(o) = MaxNew[t] /\ o \in Own(t)
    BY ObjectFacts
  <2>5. \A q \in Objects : request[q].id = ids[i] => q = o
    BY <2>3, <2>4 DEF SequentialOK, IdsOK, Sent
  <2>6. call[t].completed = {OutputOf(q) : q \in Delivered(t)} BY <1>4 DEF CountedOK
  <2>7. \A q \in Delivered(t) : q \in Objects BY ObjectFacts DEF Delivered
  <2>8. results[i] = ResultOf(t, ids[i]) BY <1>1, <2>1
  <2>9. CASE o \in EmptyPrompts
    <3>1. o \notin Delivered(t) BY <2>9 DEF Delivered, Complete, EmptyPrompts
    <3>2. \A q \in Delivered(t) : OutputOf(q).id # ids[i] BY <2>5, <2>7, <3>1 DEF OutputOf
    <3>3. \A c \in call[t].completed : c.id # ids[i] BY <2>6, <3>2
    <3>4. Prompts[t][i] = 0 BY <2>4, <2>9 DEF EmptyPrompts
    <3> QED BY <2>8, <3>3, <3>4 DEF ResultOf
  <2>10. CASE o \notin EmptyPrompts
    <3>1. o \in Delivered(t) BY <1>9, <2>4, <2>10
    <3>2. OutputOf(o) \in call[t].completed /\ OutputOf(o).id = ids[i]
      BY <2>3, <2>4, <2>6, <3>1 DEF OutputOf
    <3>3. \A c \in call[t].completed : c.id = ids[i] => c = OutputOf(o)
      <4>1. \A q \in Delivered(t) : OutputOf(q).id = ids[i] => q = o
        BY <2>5, <2>7 DEF OutputOf
      <4> QED BY <2>6, <4>1
    <3>4. (CHOOSE c \in call[t].completed : c.id = ids[i]) = OutputOf(o) BY <3>2, <3>3
    <3>5. OutputOf(o).of = o /\ OutputOf(o).tokens = MaxTokensOf(o) BY DEF OutputOf
    <3>6. results[i] = [of |-> o, tokens |-> MaxTokensOf(o)]
      BY <2>8, <3>2, <3>4, <3>5 DEF ResultOf
    <3>7. Prompts[t][i] # 0 BY <2>4, <2>10 DEF EmptyPrompts
    <3> QED BY <2>4, <3>6, <3>7
  <2> QED BY <2>9, <2>10
<1>15. ~InCall(t)' /\ QuietOK(t)' BY <1>7, <1>14 DEF InCall, QuietOK
<1> QED BY <1>3, <1>8, <1>12, <1>13, <1>15, FrameKeeps

-----------------------------------------------------------------------------
(* The schedule.                                                            *)

LEMMA EmptyConcat ==
    ASSUME NEW X, NEW s \in Seq(X), NEW u \in Seq(X)
    PROVE  s \o u \in Seq(X) /\ (s \o u = <<>> <=> s = <<>> /\ u = <<>>)
<1>1. s \o u \in Seq(X) /\ Len(s \o u) = Len(s) + Len(u) BY ConcatProperties
<1>2. Len(s) \in Nat /\ Len(u) \in Nat BY LenProperties
<1>3. (s \o u = <<>> <=> Len(s \o u) = 0) /\ (s = <<>> <=> Len(s) = 0) /\ (u = <<>> <=> Len(u) = 0)
  BY <1>1, EmptySeq
<1> QED BY <1>1, <1>2, <1>3

LEMMA BlocksAreNat == \A o \in Objects : BlocksForRequest(o) \in Nat
<1> SUFFICES ASSUME NEW o \in Objects PROVE BlocksForRequest(o) \in Nat
  OBVIOUS
<1>1. block_size \in Nat \ {0} BY GenerateAssumption
<1>2. ContextLenOf(o) \in Nat /\ MaxTokensOf(o) \in Nat \ {0} BY ObjectFacts
<1>3. PICK n \in Nat, k \in Nat : /\ n = ContextLenOf(o) + MaxTokensOf(o) + block_size - 1
                                  /\ k = ContextLenOf(o) + block_size - 1
  <2>1. /\ ContextLenOf(o) + MaxTokensOf(o) + block_size - 1 \in Nat
        /\ ContextLenOf(o) + block_size - 1 \in Nat
    BY <1>1, <1>2
  <2> QED BY <2>1
<1>4. PICK d \in Nat, e \in Nat : d = n \div block_size /\ e = k \div block_size
  BY <1>1, QuotientOf
<1>5. BlocksForRequest(o) = d \/ BlocksForRequest(o) = AtLeast(1, e)
  BY <1>3, <1>4 DEF BlocksForRequest
<1> QED BY <1>5 DEF AtLeast

(* The plan of the turns, carried over to the requests: in a list without   *)
(* duplicates every request has one turn.                                   *)
LEMMA MappedList ==
    ASSUME NEW X, NEW list \in Seq(X), IsInjective(list),
           NEW s \in Seq(DOMAIN list), NEW u, u = [k \in DOMAIN s |-> list[s[k]]]
    PROVE  /\ u \in Seq(X) /\ Range(u) = {list[i] : i \in Range(s)}
           /\ IsInjective(s) => IsInjective(u)
           /\ u = <<>> <=> s = <<>>
<1>1. PICK n \in Nat : n = Len(s) /\ DOMAIN s = 1 .. n /\ \A k \in 1 .. n : s[k] \in DOMAIN list
  BY LenProperties
<1>2. \A i \in DOMAIN list : list[i] \in X BY LenProperties
<1>3. u \in [1 .. n -> X] /\ DOMAIN u = 1 .. n /\ \A k \in 1 .. n : u[k] = list[s[k]] BY <1>1, <1>2
<1>4. u \in Seq(X) /\ Len(u) = n BY <1>1, <1>3, SeqDef, LenProperties
<1>5. Range(u) = {list[i] : i \in Range(s)} BY <1>1, <1>3 DEF Range
<1>6. IsInjective(s) => IsInjective(u)
  <2> SUFFICES ASSUME IsInjective(s), NEW j \in 1 .. n, NEW k \in 1 .. n, u[j] = u[k] PROVE j = k
    BY <1>3 DEF IsInjective
  <2>1. s[j] = s[k] BY <1>1, <1>3 DEF IsInjective
  <2> QED BY <1>1, <2>1 DEF IsInjective
<1>7. u = <<>> <=> s = <<>> BY <1>1, <1>4, EmptySeq
<1> QED BY <1>4, <1>5, <1>6, <1>7

LEMMA TurnsPlan ==
    ASSUME NEW list \in Seq(Objects), IsInjective(list), NEW gen \in Seq(Objects),
           NEW left \in [Objects -> Nat],
           \A o \in Objects : left[o] = AtLeast(0, ContextLenOf(o) - request[o].processed),
           NEW plan, plan = PlanTurns(list, gen)
    PROVE  /\ PlanOf(plan, Objects, list, gen, left)
           /\ DOMAIN plan.tokens = Range(plan.context_chunking) \cup Range(plan.context_last_chunk)
<1> DEFINE D == DOMAIN list
           ids == [i \in DOMAIN list |-> i]
           lefts == [i \in DOMAIN list |->
                        AtLeast(0, ContextLenOf(list[i]) - request[list[i]].processed)]
           turns == schedule_microbatch(chunking_policy, ids, gen, lefts)
           c == turns.context_chunking
           l == turns.context_last_chunk
           At(s) == [k \in DOMAIN s |-> list[s[k]]]
           Planned(o) == {i \in Range(c \o l) : list[i] = o}
           last(o) == CHOOSE i \in Planned(o) : \A j \in Planned(o) : j <= i
           ac == At(c)
           al == At(l)
           both == At(c \o l)
           tokens == [o \in Range(both) |-> turns.tokens[last(o)]]
<1>1. /\ plan.context_chunking = ac /\ plan.context_last_chunk = al /\ plan.generation = gen
      /\ plan.tokens = tokens
  <2>1. plan = [context_chunking |-> ac, context_last_chunk |-> al, generation |-> gen,
                tokens |-> tokens]
    BY DEF PlanTurns
  <2> HIDE DEF ac, al, tokens
  <2> QED BY <2>1
<1>2. D = 1 .. Len(list) /\ Len(list) \in Nat /\ \A i \in D : list[i] \in Objects
  BY LenProperties
<1>3. ids \in Seq(D) /\ IsInjective(ids) /\ Range(ids) = D /\ Len(ids) = Len(list)
  <2>1. ids \in [1 .. Len(list) -> D] BY <1>2
  <2>2. ids \in Seq(D) BY <1>2, <2>1, SeqDef
  <2>3. Len(ids) = Len(list) BY <1>2, <2>1, <2>2, LenProperties
  <2>4. IsInjective(ids) BY DEF IsInjective
  <2>5. Range(ids) = D BY DEF Range
  <2> QED BY <2>2, <2>3, <2>4, <2>5
<1>4. lefts \in [D -> Nat] /\ \A i \in D : lefts[i] = left[list[i]]
  <2>1. \A i \in D : lefts[i] = left[list[i]] BY <1>2
  <2>2. \A i \in D : left[list[i]] \in Nat BY <1>2
  <2> QED BY <2>1, <2>2
<1>5. chunking_policy \in {"EQUAL_PROGRESS", "FCFS"} BY GenerateAssumption
<1> HIDE DEF ids, lefts
<1>6. turns = schedule_microbatch(chunking_policy, ids, gen, lefts) OBVIOUS
<1> HIDE DEF turns
<1>7. PlanOf(turns, D, ids, gen, lefts) BY <1>3, <1>4, <1>5, <1>6, PlanParts
<1>8. /\ c \in Seq(D) /\ IsInjective(c) /\ l \in Seq(D) /\ IsInjective(l)
      /\ turns.generation = gen /\ Range(c) \cap Range(l) = {}
      /\ Range(c) \subseteq D /\ Range(l) \subseteq D
      /\ \A i \in Range(c) : turns.tokens[i] \in Nat \ {0} /\ turns.tokens[i] < left[list[i]]
      /\ \A i \in Range(l) : turns.tokens[i] \in Nat \ {0} /\ turns.tokens[i] = left[list[i]]
  BY <1>3, <1>4, <1>7 DEF PlanOf
<1>9. gen = <<>> /\ (\E i \in D : left[list[i]] > 0) =>
          \/ l # <<>>
          \/ \E i \in Range(c) : turns.tokens[i] >= AtLeast(1, max_num_tokens \div Len(list))
  <2>1. gen = <<>> /\ (\E i \in D : lefts[i] > 0) =>
            \/ l # <<>>
            \/ \E i \in Range(c) : turns.tokens[i] >= AtLeast(1, max_num_tokens \div Len(list))
    BY <1>3, <1>7 DEF PlanOf
  <2> QED BY <1>4, <2>1
<1> HIDE DEF c, l
<1>10. c \o l \in Seq(D) /\ Range(c \o l) = Range(c) \cup Range(l)
  BY <1>8, ConcatElements, ConcatProperties
<1>11. \A u : \A s \in Seq(D) : u = [k \in DOMAIN s |-> list[s[k]]] =>
           /\ u \in Seq(Objects) /\ Range(u) = {list[i] : i \in Range(s)}
           /\ IsInjective(s) => IsInjective(u)
           /\ u = <<>> <=> s = <<>>
  <2> SUFFICES ASSUME NEW u, NEW s \in Seq(DOMAIN list), u = [k \in DOMAIN s |-> list[s[k]]]
               PROVE  /\ u \in Seq(Objects) /\ Range(u) = {list[i] : i \in Range(s)}
                      /\ IsInjective(s) => IsInjective(u)
                      /\ u = <<>> <=> s = <<>>
    OBVIOUS
  <2>1. list \in Seq(Objects) /\ IsInjective(list) OBVIOUS
  <2> QED BY ONLY <2>1, u = [k \in DOMAIN s |-> list[s[k]]], MappedList
<1>12. /\ ac = [k \in DOMAIN c |-> list[c[k]]] /\ al = [k \in DOMAIN l |-> list[l[k]]]
       /\ both = [k \in DOMAIN (c \o l) |-> list[(c \o l)[k]]]
  OBVIOUS
<1>13. /\ DOMAIN tokens = Range(both) /\ \A o \in Range(both) : tokens[o] = turns.tokens[last(o)]
  <2> HIDE DEF both, last
  <2> QED OBVIOUS
<1> HIDE DEF ac, al, both, tokens, D
<1>17. /\ ac \in Seq(Objects) /\ IsInjective(ac) /\ Range(ac) = {list[i] : i \in Range(c)}
       /\ al \in Seq(Objects) /\ IsInjective(al) /\ Range(al) = {list[i] : i \in Range(l)}
       /\ al = <<>> <=> l = <<>>
  BY ONLY <1>8, <1>11, <1>12
<1>15. Range(both) = {list[i] : i \in Range(c \o l)}
  BY ONLY <1>10, <1>11, <1>12
<1>14. ASSUME NEW i \in Range(c \o l) PROVE tokens[list[i]] = turns.tokens[i]
  <2>1. i \in D BY <1>8, <1>10
  <2>2. Planned(list[i]) = {i} BY <1>8, <1>10, <2>1 DEF IsInjective, D
  <2>3. i <= i BY <1>2, <2>1
  <2>4. last(list[i]) = i BY <2>2, <2>3
  <2> HIDE DEF last
  <2> QED BY <1>13, <1>15, <2>4
<1> HIDE DEF last, Planned
<1>16. DOMAIN tokens = Range(ac) \cup Range(al) BY <1>10, <1>13, <1>15, <1>17
<1>18. Range(ac) \cap Range(al) = {}
  <2> SUFFICES ASSUME NEW i \in Range(c), NEW j \in Range(l), list[i] = list[j] PROVE FALSE
    BY <1>17
  <2>1. i = j BY <1>8 DEF IsInjective, D
  <2> QED BY <1>8, <2>1
<1>19. Range(list) = {list[i] : i \in D} BY DEF Range, D
<1>20. Range(ac) \subseteq Range(list) /\ Range(al) \subseteq Range(list) BY <1>8, <1>17, <1>19
<1>21. \A r \in Range(ac) : tokens[r] \in Nat \ {0} /\ tokens[r] < left[r]
  <2> SUFFICES ASSUME NEW i \in Range(c)
               PROVE  tokens[list[i]] \in Nat \ {0} /\ tokens[list[i]] < left[list[i]]
    BY <1>17
  <2>1. tokens[list[i]] = turns.tokens[i] BY <1>10, <1>14
  <2> QED BY <1>8, <2>1
<1>22. \A r \in Range(al) : tokens[r] \in Nat \ {0} /\ tokens[r] = left[r]
  <2> SUFFICES ASSUME NEW i \in Range(l)
               PROVE  tokens[list[i]] \in Nat \ {0} /\ tokens[list[i]] = left[list[i]]
    BY <1>17
  <2>1. tokens[list[i]] = turns.tokens[i] BY <1>10, <1>14
  <2> QED BY <1>8, <2>1
<1>23. gen = <<>> /\ (\E r \in Range(list) : left[r] > 0) =>
           \/ al # <<>>
           \/ \E r \in Range(ac) : tokens[r] >= AtLeast(1, max_num_tokens \div Len(list))
  <2> SUFFICES ASSUME gen = <<>>, NEW r \in Range(list), left[r] > 0
               PROVE  \/ al # <<>>
                      \/ \E q \in Range(ac) :
                             tokens[q] >= AtLeast(1, max_num_tokens \div Len(list))
    OBVIOUS
  <2>1. \E i \in D : left[list[i]] > 0 BY <1>19
  <2>2. CASE l # <<>> BY <1>17, <2>2
  <2>3. CASE \E i \in Range(c) : turns.tokens[i] >= AtLeast(1, max_num_tokens \div Len(list))
    <3>1. PICK i \in Range(c) : turns.tokens[i] >= AtLeast(1, max_num_tokens \div Len(list))
      BY <2>3
    <3>2. tokens[list[i]] = turns.tokens[i] /\ list[i] \in Range(ac) BY <1>10, <1>14, <1>17
    <3> QED BY <3>1, <3>2
  <2> QED BY <1>9, <2>1, <2>2, <2>3
<1> QED BY <1>1, <1>16, <1>17, <1>18, <1>20, <1>21, <1>22, <1>23 DEF PlanOf

(* What a call of the scheduler sees and what it answers.                   *)
Scheduled(t, s, list, gen, plan) ==
    /\ s \in Seq(Objects) /\ IsInjective(s)
    /\ \A o \in Range(s) : o \in Crowd(t) /\ (o \in Range(waiting) \/ o \in Range(active))
                              /\ (Fresh(o) \/ Prefilling(o))
    /\ \A o \in Own(t) \ EmptyPrompts : o \in Range(s) \/ o \in Range(gen) \/ Complete(o)
    /\ list \in Seq(Objects) /\ IsInjective(list) /\ Range(list) \subseteq Range(s)
    /\ \A i \in 1 .. Len(s) : i <= max_batch_size => s[i] \in Range(list)
    /\ gen \in Seq(Objects) /\ IsInjective(gen)
    /\ \A o \in Range(gen) : o \in Range(active) /\ Decoding(o)
    /\ PlanOf(plan, Objects, list, gen, [o \in Objects |-> Left(o)])
    /\ DOMAIN plan.tokens = Range(plan.context_chunking) \cup Range(plan.context_last_chunk)

ScheduleStep(t, plan) ==
    /\ request' = [o \in Objects |->
          IF o \in DOMAIN plan.tokens
          THEN [request[o] EXCEPT !.chunk = plan.tokens[o]]
          ELSE request[o]]
    /\ call' = [call EXCEPT
          ![t].pc = IF EmptyBatch(plan) THEN AfterIteration(t) ELSE "move",
          ![t].snapshot = <<>>,
          ![t].batch = IF EmptyBatch(plan) THEN <<>> ELSE plan]

LEMMA ScheduleSees ==
    ASSUME FewEmptyPrompts, BatchFits, SequentialOK, NEW t \in Threads, Schedule(t)
    PROVE  \E s, list, gen, plan : Scheduled(t, s, list, gen, plan) /\ ScheduleStep(t, plan)
<1> DEFINE Pre == {o \in Objects : InPrefill(o)}
           Gen == {o \in Objects : InGeneration(o)}
           s == call[t].snapshot \o Keep(active, Pre)
           b == [o \in Objects |-> BlocksForRequest(o)]
           list == schedule_capacity(s, 0, b)
           gen == Keep(active, Gen)
           plan == PlanTurns(list, gen)
<1>1. call[t].pc = "schedule" BY DEF Schedule
<1>2. InCall(t) BY <1>1 DEF InCall
<1>3. ScheduleStep(t, plan)
  <2>1. \E l \in {list} : \E p \in {PlanTurns(l, gen)} : ScheduleStep(t, p)
    BY Zenon DEF Schedule, ScheduleStep
  <2> HIDE DEF list, gen
  <2> QED BY ONLY <2>1
<1>4. CountedOK(t) /\ PhaseOK(t) BY <1>1, <1>2, Owners DEF RunOK, Looping
<1>5. call[t].snapshot = waiting /\ \A o \in Range(active) : Prefilling(o) \/ Decoding(o)
  BY <1>1, <1>4 DEF PhaseOK, Settled
<1>6. /\ waiting \in Seq(Objects) /\ IsInjective(waiting)
      /\ active \in Seq(Objects) /\ IsInjective(active)
      /\ Range(waiting) \cap Range(active) = {}
      /\ \A o \in Range(waiting) : Fresh(o)
  BY DEF SequentialOK, QueuesOK
<1>7. \A o \in Range(active) : /\ o \in Objects /\ o \in Own(t)
                               /\ (o \in Pre <=> Prefilling(o)) /\ (o \in Gen <=> Decoding(o))
  BY <1>2, <1>5, Owners DEF InPrefill, InGeneration, Prefilling, Decoding
<1> HIDE DEF Pre, Gen
<1>8. /\ Keep(active, Pre) \in Seq(Objects) /\ IsInjective(Keep(active, Pre))
      /\ Range(Keep(active, Pre)) = Range(active) \cap Pre
  BY <1>6, KeepElements
<1>9. gen \in Seq(Objects) /\ IsInjective(gen) /\ Range(gen) = Range(active) \cap Gen
  BY <1>6, KeepElements
<1>10. /\ s \in Seq(Objects) /\ IsInjective(s)
       /\ Range(s) = Range(waiting) \cup (Range(active) \cap Pre)
  <2>1. Range(waiting) \cap Range(Keep(active, Pre)) = {} BY <1>6, <1>8
  <2> QED BY <1>5, <1>6, <1>8, <2>1, ConcatElements, ConcatProperties
<1>11. b \in [Objects -> Nat] /\ \A o \in Objects : b[o] = BlocksForRequest(o) BY BlocksAreNat
<1>12. PICK left \in [Objects -> Nat] :
           /\ left = [o \in Objects |-> Left(o)]
           /\ \A o \in Objects : left[o] = AtLeast(0, ContextLenOf(o) - request[o].processed)
  <2>1. \A o \in Objects : Left(o) \in Nat BY WorkFacts DEF SequentialOK
  <2>2. \A o \in Objects : Left(o) = AtLeast(0, ContextLenOf(o) - request[o].processed)
    BY <2>1 DEF Left, AtLeast
  <2>3. PICK f : f = [o \in Objects |-> Left(o)] OBVIOUS
  <2>4. f \in [Objects -> Nat] /\ \A o \in Objects : f[o] = Left(o) BY <2>1, <2>3
  <2> QED BY <2>2, <2>3, <2>4
<1> HIDE DEF s, b, gen
<1>14. PICK most \in 0 .. max_blocks :
           max_batch_size * most <= max_blocks /\ \A o \in Objects : BlocksForRequest(o) <= most
  BY DEF BatchFits
<1>15. most \in Nat /\ \A o \in Objects : b[o] <= most BY <1>11, <1>14, GenerateAssumption
<1>16. list = schedule_capacity(s, 0, b) OBVIOUS
<1>17. plan = PlanTurns(list, gen) OBVIOUS
<1> HIDE DEF list, plan
<1>18. /\ list \in Seq(Objects) /\ IsInjective(list) /\ Range(list) \subseteq Range(s)
       /\ \A i \in 1 .. Len(s) : i <= max_batch_size => s[i] \in Range(list)
  BY <1>10, <1>11, <1>14, <1>15, <1>16, CapacityAdmits
<1>19. /\ PlanOf(plan, Objects, list, gen, left)
       /\ DOMAIN plan.tokens = Range(plan.context_chunking) \cup Range(plan.context_last_chunk)
  BY <1>9, <1>12, <1>17, <1>18, TurnsPlan
<1>20. \A o \in Range(s) : /\ o \in Crowd(t) /\ (o \in Range(waiting) \/ o \in Range(active))
                           /\ (Fresh(o) \/ Prefilling(o))
  BY <1>2, <1>6, <1>7, <1>10, Owners DEF Crowd
<1>21. \A o \in Own(t) \ EmptyPrompts : o \in Range(s) \/ o \in Range(gen) \/ Complete(o)
  BY <1>4, <1>5, <1>7, <1>9, <1>10 DEF CountedOK
<1>22. \A o \in Range(gen) : o \in Range(active) /\ Decoding(o) BY <1>7, <1>9
<1>23. Scheduled(t, s, list, gen, plan)
  BY <1>9, <1>10, <1>12, <1>18, <1>19, <1>20, <1>21, <1>22 DEF Scheduled
<1> QED BY <1>3, <1>23

(* An empty batch: there is nothing left to do.                             *)
LEMMA EmptyMeansDone ==
    ASSUME FewEmptyPrompts, SequentialOK, NEW t \in Threads,
           NEW s, NEW list, NEW gen, NEW plan, Scheduled(t, s, list, gen, plan),
           gen = <<>>, plan.context_chunking = <<>>, plan.context_last_chunk = <<>>
    PROVE  WorkOf(t) = 0
<1> DEFINE left == [o \in Objects |-> Left(o)]
<1>1. /\ s \in Seq(Objects) /\ IsInjective(s)
      /\ \A o \in Range(s) : Fresh(o) \/ Prefilling(o)
      /\ \A o \in Own(t) \ EmptyPrompts : o \in Range(s) \/ o \in Range(gen) \/ Complete(o)
      /\ Range(list) \subseteq Range(s)
      /\ \A i \in 1 .. Len(s) : i <= max_batch_size => s[i] \in Range(list)
      /\ PlanOf(plan, Objects, list, gen, left)
  BY DEF Scheduled
<1>2. \A r \in Range(list) : ~(left[r] > 0) BY <1>1, EmptyRange DEF PlanOf
<1>3. \A r \in Range(s) : r \in Objects BY <1>1, ElementsOfSeq
<1>4. \A r \in Range(s) \ EmptyPrompts : left[r] > 0
  <2>1. \A r \in Objects : left[r] = Left(r) OBVIOUS
  <2>2. \A r \in Range(s) \ EmptyPrompts : Left(r) > 0
    BY <1>1, <1>3, WorkFacts DEF SequentialOK
  <2> QED BY <1>3, <2>1, <2>2
<1> HIDE DEF left
<1>5. ASSUME NEW x \in Range(s), x \notin EmptyPrompts PROVE FALSE
  <2>1. PICK i \in 1 .. Len(s) : s[i] \notin EmptyPrompts
                                     /\ \A j \in 1 .. i - 1 : s[j] \in EmptyPrompts
    BY <1>1, <1>5, FirstOutside
  <2>2. PICK k \in Nat : k = i - 1 /\ k \in 0 .. Len(s) /\ i = k + 1
    <3>1. i - 1 \in Nat /\ i - 1 \in 0 .. Len(s) /\ i = (i - 1) + 1 BY <1>1, LenProperties
    <3> QED BY <3>1
  <2>3. IsFiniteSet(EmptyPrompts) /\ Cardinality(EmptyPrompts) < max_batch_size
        /\ Cardinality(EmptyPrompts) \in Nat /\ max_batch_size \in Nat
    BY FS_CardinalityType, GenerateAssumption DEF FewEmptyPrompts
  <2>4. k <= Cardinality(EmptyPrompts) BY <1>1, <2>1, <2>2, <2>3, ListLength
  <2>5. i <= max_batch_size BY <2>2, <2>3, <2>4
  <2>6. s[i] \in Range(list) /\ s[i] \in Range(s) BY <1>1, <2>1, <2>5, ElementsOfSeq
  <2> QED BY <1>2, <1>4, <2>1, <2>6
<1>6. \A o \in Own(t) : o \in EmptyPrompts \/ Complete(o) BY <1>1, <1>5, EmptyRange
<1> QED BY <1>6, WorkIsNat DEF SequentialOK

(* When nobody decodes and no prompt is finished, one is given its share.   *)
LEMMA ShareIsGiven ==
    ASSUME FewEmptyPrompts, SequentialOK, NEW t \in Threads,
           NEW s, NEW list, NEW gen, NEW plan, Scheduled(t, s, list, gen, plan),
           gen = <<>>, plan.context_last_chunk = <<>>, plan.context_chunking # <<>>
    PROVE  \E o \in Range(plan.context_chunking) : plan.tokens[o] >= Share(t)
<1> DEFINE left == [q \in Objects |-> Left(q)]
<1>1. /\ s \in Seq(Objects) /\ \A q \in Range(s) : q \in Crowd(t)
      /\ \A q \in Range(s) : Fresh(q) \/ Prefilling(q)
      /\ list \in Seq(Objects) /\ IsInjective(list) /\ Range(list) \subseteq Range(s)
      /\ PlanOf(plan, Objects, list, gen, left)
  BY DEF Scheduled
<1>2. \A q \in Objects : left[q] = Left(q) /\ Left(q) \in Nat
  BY WorkFacts DEF SequentialOK
<1> HIDE DEF left
<1>3. PICK q : q \in Range(plan.context_chunking) BY <1>1, EmptyList DEF PlanOf
<1>4. q \in Range(list) /\ plan.tokens[q] \in Nat \ {0} /\ plan.tokens[q] < left[q]
  BY <1>1, <1>3 DEF PlanOf
<1>5. q \in Objects /\ q \in Crowd(t) BY <1>1, <1>4, ElementsOfSeq
<1>6. left[q] > 0 BY <1>2, <1>4, <1>5
<1>7. PICK o \in Range(plan.context_chunking) :
          plan.tokens[o] >= AtLeast(1, max_num_tokens \div Len(list))
  BY <1>1, <1>4, <1>6 DEF PlanOf
<1>8. plan.tokens[o] \in Nat BY <1>1 DEF PlanOf
<1>9. Own(t) # {}
  <2>1. q \notin EmptyPrompts BY <1>1, <1>2, <1>4, <1>5, <1>6, WorkFacts DEF SequentialOK
  <2> QED BY <1>5, <2>1 DEF Crowd
<1>10. Len(list) \in Nat \ {0} /\ Len(list) <= Cardinality(Crowd(t))
  <2>1. Len(list) \in Nat /\ Len(list) \in 0 .. Len(list) BY <1>1, LenProperties
  <2>2. \A i \in 1 .. Len(list) : list[i] \in Crowd(t) BY <1>1, ElementsOfSeq
  <2>3. IsFiniteSet(Crowd(t)) BY <1>9, ShareFacts
  <2>4. Len(list) <= Cardinality(Crowd(t)) BY <1>1, <2>1, <2>2, <2>3, ListLength
  <2>5. \E i \in 1 .. Len(list) : q = list[i] BY <1>1, <1>4, ElementsOfSeq
  <2>6. Len(list) # 0 BY <2>1, <2>5
  <2> QED BY <2>1, <2>4, <2>6
<1>11. AtLeast(1, max_num_tokens \div Len(list)) \in Nat
       /\ AtLeast(1, max_num_tokens \div Len(list)) >= Share(t) /\ Share(t) \in Nat
  BY <1>9, <1>10, ShareFacts
<1> QED BY <1>7, <1>8, <1>11

LEMMA ScheduleKeeps ==
    ASSUME FewEmptyPrompts, BatchFits, SequentialOK, NEW t \in Threads, Schedule(t)
    PROVE  SequentialOK'
<1>1. PICK s, list, gen, plan : Scheduled(t, s, list, gen, plan) /\ ScheduleStep(t, plan)
  BY ScheduleSees
<1> DEFINE left == [o \in Objects |-> Left(o)]
           C == plan.context_chunking
           L == plan.context_last_chunk
<1>2. call[t].pc = "schedule" /\ UNCHANGED <<counter, waiting, active>> BY DEF Schedule
<1>3. InCall(t) BY <1>2 DEF InCall
<1>4. RunOK(t) /\ CountedOK(t) /\ CapOK(t) /\ PhaseOK(t) BY <1>2, <1>3, Owners DEF RunOK, Looping
<1>5. /\ C \in Seq(Objects) /\ IsInjective(C) /\ L \in Seq(Objects) /\ IsInjective(L)
      /\ plan.generation = gen /\ Range(C) \cap Range(L) = {}
      /\ Range(C) \subseteq Range(list) /\ Range(L) \subseteq Range(list)
      /\ \A r \in Range(C) : plan.tokens[r] \in Nat \ {0} /\ plan.tokens[r] < left[r]
      /\ \A r \in Range(L) : plan.tokens[r] \in Nat \ {0} /\ plan.tokens[r] = left[r]
      /\ DOMAIN plan.tokens = Range(C) \cup Range(L)
  BY <1>1 DEF Scheduled, PlanOf
<1>6. /\ \A o \in Range(list) : o \in Range(s)
      /\ \A o \in Range(s) : /\ o \in Objects /\ o \in Crowd(t)
                             /\ (o \in Range(waiting) \/ o \in Range(active))
                             /\ (Fresh(o) \/ Prefilling(o))
      /\ gen \in Seq(Objects) /\ IsInjective(gen)
      /\ \A o \in Range(gen) : o \in Range(active) /\ Decoding(o)
  BY <1>1, ElementsOfSeq DEF Scheduled
<1>7. \A o \in Objects : left[o] = Left(o) /\ Left(o) \in Nat
  BY WorkFacts DEF SequentialOK
<1> HIDE DEF left, C, L
<1>8. C \o L \in Seq(Objects) /\ Range(C \o L) = Range(C) \cup Range(L)
  BY <1>5, ConcatElements, ConcatProperties
<1>9. \A o \in Range(C \o L) : o \in Objects /\ o \in Own(t)
  <2>1. \A o \in Range(C \o L) : o \in Objects /\ o \in Crowd(t) /\ (Fresh(o) \/ Prefilling(o))
                                     /\ left[o] > 0
    <3>1. \A o \in Range(C) \cup Range(L) : o \in Range(s) /\ o \in Objects BY <1>5, <1>6
    <3>2. \A o \in Range(C) \cup Range(L) : left[o] > 0
      <4>1. \A o \in Range(C) \cup Range(L) : left[o] \in Nat BY <1>7, <3>1
      <4> QED BY <1>5, <4>1
    <3> QED BY <1>6, <1>8, <3>1, <3>2
  <2>2. \A o \in Range(C \o L) : o \notin EmptyPrompts
    BY <1>7, <2>1, WorkFacts DEF SequentialOK
  <2> QED BY <2>1, <2>2 DEF Crowd
<1>10. request \in [Objects -> RequestType] BY DEF SequentialOK, RequestsOK
<1>11. \A o \in Range(C \o L) : plan.tokens[o] \in Nat BY <1>5, <1>8
<1>12. request' = [o \in Objects |-> IF o \in Range(C \o L)
                                     THEN [request[o] EXCEPT !.chunk = plan.tokens[o]]
                                     ELSE request[o]]
  BY <1>1, <1>5, <1>8 DEF ScheduleStep
<1>13. request' \in [Objects -> RequestType] BY <1>10, <1>11, <1>12 DEF RequestType
<1>14. \A o \in Objects :
           /\ request'[o].state = request[o].state /\ request'[o].processed = request[o].processed
           /\ request'[o].out = request[o].out /\ request'[o].id = request[o].id
           /\ o \in Range(C \o L) => request'[o].chunk = plan.tokens[o]
           /\ o \notin Range(C \o L) => request'[o] = request[o]
  BY <1>10, <1>12 DEF RequestType
<1>15. OnlyMine(t) BY <1>9, <1>14 DEF OnlyMine
<1>16. \A o \in Objects : /\ Sent(o)' = Sent(o) /\ Fresh(o)' = Fresh(o)
                          /\ Prefilling(o)' = Prefilling(o) /\ Decoding(o)' = Decoding(o)
                          /\ Complete(o)' = Complete(o) /\ Left(o)' = Left(o)
                          /\ Begun(o)' = Begun(o) /\ Settled(o)' = Settled(o)
                          /\ WorkLeft(o)' = WorkLeft(o) /\ OutputOf(o)' = OutputOf(o)
  BY <1>14 DEF Sent, Fresh, Prefilling, Decoding, Complete, Left, Begun, Settled, WorkLeft, OutputOf
<1>17. RequestsOK' BY <1>13, <1>16 DEF SequentialOK, RequestsOK
<1>18. IdsOK' BY <1>2, <1>14, <1>16 DEF SequentialOK, IdsOK
<1>19. DOMAIN call = Threads /\ DOMAIN call[t] = CallFields BY DEF SequentialOK, CallShape
<1>20. PICK l, b : /\ l = IF EmptyBatch(plan) THEN AfterIteration(t) ELSE "move"
                   /\ b = IF EmptyBatch(plan) THEN <<>> ELSE plan
                   /\ call' = [call EXCEPT ![t].pc = l, ![t].snapshot = <<>>, ![t].batch = b]
  BY <1>1 DEF ScheduleStep
<1>21. call'[t] = [call[t] EXCEPT !.pc = l, !.snapshot = <<>>, !.batch = b] BY <1>19, <1>20
<1>22. /\ call'[t].pc = l /\ call'[t].batch = b
       /\ call'[t].completed = call[t].completed /\ call'[t].iters = call[t].iters
       /\ call'[t].request_ids = call[t].request_ids
  BY <1>19, <1>21 DEF CallFields, NoCall
<1>23. Frame(t) BY <1>19, <1>20 DEF Frame
<1>24. l \in {"move", "build", "loop"} /\ (l = "move" <=> ~EmptyBatch(plan))
       /\ (l = "build" => Enough(t))
  BY <1>20 DEF AfterIteration
<1>25. InCall(t)' BY <1>22, <1>24 DEF InCall
<1>26. QueuesOK'
  <2>1. \A o \in Range(waiting) : o \in Objects /\ (o \in EmptyPrompts \/ InCall(o[1])')
    BY <1>3, <1>25, Owners
  <2>2. \A o \in Range(active) : o \in Objects /\ InCall(o[1])' BY <1>3, <1>25, Owners
  <2> QED BY <1>2, <1>16, <2>1, <2>2 DEF SequentialOK, QueuesOK
<1>27. EmptyBatch(plan) <=> C = <<>> /\ L = <<>> /\ gen = <<>>
  <2>1. C \o L = <<>> <=> C = <<>> /\ L = <<>> BY <1>5, EmptyConcat
  <2>2. (C \o L) \o gen = <<>> <=> C \o L = <<>> /\ gen = <<>> BY <1>6, <1>8, EmptyConcat
  <2>3. EmptyBatch(plan) <=> (C \o L) \o gen = <<>> BY <1>5 DEF EmptyBatch, C, L
  <2> QED BY <2>1, <2>2, <2>3
<1>28. EnqueuedOK(t)'
  <2>1. \A i \in DOMAIN Prompts[t] : <<t, i>> \in Objects BY ObjectFacts
  <2> QED BY <1>4, <1>14, <1>16, <1>22, <2>1 DEF RunOK, EnqueuedOK
<1>29. Delivered(t)' = Delivered(t) /\ \A o \in Own(t) : o \in Objects
  BY <1>2, <1>16, ObjectFacts DEF Delivered
<1>30. CountedOK(t)'
  <2>1. \A o \in Delivered(t) : o \in Objects BY <1>29 DEF Delivered
  <2>2. {OutputOf(o)' : o \in Delivered(t)} = {OutputOf(o) : o \in Delivered(t)}
    BY <1>16, <2>1
  <2> QED BY <1>2, <1>4, <1>16, <1>22, <1>29, <2>2 DEF CountedOK
<1>31. CapOK(t)'
  <2>1. WorkOf(t)' = WorkOf(t)
    <3>1. \A i \in DOMAIN Prompts[t] : WorkLeft(<<t, i>>)' = WorkLeft(<<t, i>>)
      BY <1>16, ObjectFacts
    <3> QED BY <3>1 DEF WorkOf
  <2>2. call[t].iters \in Nat /\ WorkOf(t) <= call[t].iters + 1
    BY <1>2, <1>4 DEF CapOK, Moving
  <2>3. CASE l = "move"
    <3>1. Moving(t)' BY <1>22, <2>3 DEF Moving
    <3> QED BY <1>22, <2>1, <2>2, <3>1 DEF CapOK
  <2>4. CASE l # "move"
    <3>1. WorkOf(t) = 0 BY <1>1, <1>24, <1>27, <2>4, EmptyMeansDone DEF C, L
    <3>2. 0 <= call[t].iters + 0 /\ 0 <= call[t].iters + 1 BY <2>2
    <3> QED BY <1>22, <2>1, <2>2, <3>1, <3>2 DEF CapOK
  <2> QED BY <2>3, <2>4
<1>32. PhaseOK(t)'
  <2>1. \A o \in Range(active) : o \in Objects /\ Settled(o)'
    BY <1>2, <1>3, <1>4, <1>16, Owners DEF PhaseOK
  <2>2. CASE l = "move"
    <3>1. b = plan BY <1>20, <1>24, <2>2
    <3>2. Chunked(t)' = Range(C) /\ Finished(t)' = Range(L) /\ Generating(t)' = Range(gen)
          /\ Going(t)' = Range(C) \cup Range(L)
      BY <1>5, <1>22, <3>1 DEF Going, Chunked, Finished, Generating, C, L
    <3>3. \A o \in Range(C) \cup Range(L) :
              /\ o \in Objects /\ (o \in Range(waiting) \/ o \in Range(active))
              /\ (Fresh(o) \/ Prefilling(o))
              /\ request'[o].chunk = plan.tokens[o] /\ left[o] = Left(o)'
      BY <1>5, <1>6, <1>7, <1>8, <1>14, <1>16
    <3>4. BatchOK(t)'
      <4>1. \A o \in Range(C) : 0 < request'[o].chunk /\ request'[o].chunk < Left(o)'
        BY <1>5, <3>3
      <4>2. \A o \in Range(L) : 0 < request'[o].chunk /\ request'[o].chunk = Left(o)'
        BY <1>5, <3>3
      <4>3. \A o \in Range(gen) : Decoding(o)' /\ o \in Range(active')
        BY <1>2, <1>6, <1>16, <2>1
      <4>4. \A o \in Going(t)' : Fresh(o)' \/ Prefilling(o)' BY <1>16, <3>2, <3>3
      <4>5. BatchLists(t)' BY <1>5, <1>6, <1>22, <3>1, <3>2, <4>3 DEF BatchLists, C, L
      <4>6. \A o \in Going(t)' : Untouched(t, o)' BY <3>2, <4>1, <4>2, <4>4 DEF Untouched
      <4> QED BY <4>5, <4>6 DEF BatchOK
    <3>5. BatchMoves(t)'
      <4> SUFFICES ASSUME gen = <<>>, L = <<>>
                   PROVE  \E o \in Range(C) : request'[o].chunk >= Share(t)
        BY <1>5, <1>22, <3>1, <3>2 DEF BatchMoves, C, L
      <4>1. C # <<>> BY <1>24, <1>27, <2>2
      <4>2. \E o \in Range(C) : plan.tokens[o] >= Share(t) BY <1>1, <4>1, ShareIsGiven DEF C, L
      <4> QED BY <3>3, <4>2
    <3>6. Going(t)' \subseteq Range(waiting') \cup Range(active') BY <1>2, <3>2, <3>3
    <3> QED BY <1>2, <1>22, <2>1, <2>2, <3>4, <3>5, <3>6 DEF PhaseOK, Advancing, Sampling
  <2>3. CASE l # "move"
    <3>1. l = "build" => Own(t) \subseteq Delivered(t)' BY <1>4, <1>24, <1>29, EnoughIsAll
    <3> QED BY <1>2, <1>22, <1>24, <2>1, <2>3, <3>1 DEF PhaseOK, Advancing, Sampling
  <2> QED BY <2>2, <2>3
<1>33. RunOK(t)' BY <1>22, <1>24, <1>28, <1>30, <1>31, <1>32 DEF RunOK, Before, Looping
<1> QED BY <1>3, <1>15, <1>17, <1>18, <1>23, <1>25, <1>26, <1>33, FrameKeeps

-----------------------------------------------------------------------------
(* The move to the active requests, and the forward pass.                   *)

LEMMA ContextFacts ==
    ASSUME NEW t \in Threads, BatchLists(t)
    PROVE  /\ ContextOf(t) \in Seq(Objects) /\ IsInjective(ContextOf(t))
           /\ Range(ContextOf(t)) = Going(t)
           /\ Going(t) = Chunked(t) \cup Finished(t) /\ Chunked(t) \cap Finished(t) = {}
<1>1. PICK c, l : /\ c = call[t].batch.context_chunking
                  /\ l = call[t].batch.context_last_chunk
  OBVIOUS
<1>2. /\ c \in Seq(Objects) /\ IsInjective(c) /\ l \in Seq(Objects) /\ IsInjective(l)
      /\ Range(c) \cap Range(l) = {}
  BY <1>1 DEF BatchLists, Chunked, Finished
<1>3. c \o l \in Seq(Objects) /\ IsInjective(c \o l) /\ Range(c \o l) = Range(c) \cup Range(l)
  BY <1>2, ConcatElements, ConcatProperties
<1> QED BY <1>1, <1>2, <1>3 DEF ContextOf, Going, Chunked, Finished

LEMMA MoveKeeps ==
    ASSUME FewEmptyPrompts, SequentialOK, NEW t \in Threads, Move(t)
    PROVE  SequentialOK'
<1>1. PICK context, First, firsts, picked, added :
          /\ context = ContextOf(t)
          /\ First = {i \in DOMAIN context : \A j \in 1 .. i - 1 : context[j] # context[i]}
          /\ firsts = Keep([i \in DOMAIN context |-> i], First)
          /\ picked = [i \in DOMAIN firsts |-> context[firsts[i]]]
          /\ added = Keep(picked, Objects \ Range(active))
  OBVIOUS
<1>2. /\ call[t].pc = "move" /\ Goto(t, "forward") /\ UNCHANGED <<counter, request>>
      /\ waiting' = Keep(waiting, Objects \ Range(context))
      /\ active' = active \o added
  BY <1>1 DEF Move
<1>3. InCall(t) BY <1>2 DEF InCall
<1>4. RunOK(t) /\ CountedOK(t) /\ CapOK(t) /\ PhaseOK(t) /\ BatchOK(t) /\ BatchMoves(t)
  BY <1>2, <1>3, Owners DEF RunOK, Looping, PhaseOK
<1>5. /\ Frame(t) /\ call'[t].pc = "forward" /\ call'[t].batch = call[t].batch
      /\ call'[t].completed = call[t].completed /\ call'[t].iters = call[t].iters
      /\ call'[t].request_ids = call[t].request_ids
  BY <1>2, GotoMoves
<1>6. InCall(t)' BY <1>5 DEF InCall
<1>7. /\ waiting \in Seq(Objects) /\ IsInjective(waiting)
      /\ active \in Seq(Objects) /\ IsInjective(active)
      /\ Range(waiting) \cap Range(active) = {}
      /\ Range(waiting) \subseteq Objects /\ Range(active) \subseteq Objects
  BY ElementsOfSeq DEF SequentialOK, QueuesOK
<1>8. context \in Seq(Objects) /\ IsInjective(context) /\ Range(context) = Going(t)
  BY <1>1, <1>4, ContextFacts DEF BatchOK
<1>9. Going(t) \subseteq Objects /\ Going(t) \subseteq Range(waiting) \cup Range(active)
  BY <1>2, <1>4, <1>8, ElementsOfSeq DEF PhaseOK
<1>10. picked \in Seq(Objects) /\ IsInjective(picked) /\ Range(picked) = Going(t)
  <2>1. /\ picked \in Seq(Objects) /\ Range(picked) \subseteq Range(context) /\ IsInjective(picked)
        /\ \A i \in DOMAIN context \cap First : context[i] \in Range(picked)
    <3>1. /\ firsts = Keep([i \in DOMAIN context |-> i], First)
          /\ picked = [i \in DOMAIN firsts |-> context[firsts[i]]]
          /\ context \in Seq(Objects)
      BY <1>1, <1>8
    <3>2. Picked(Objects, context, First, picked) BY ONLY <3>1, PickedElements
    <3> QED BY <1>8, <3>2 DEF Picked
  <2>2. DOMAIN context \subseteq First
    <3>1. ASSUME NEW i \in DOMAIN context, NEW j \in 1 .. i - 1, context[j] = context[i] PROVE FALSE
      <4>1. i \in 1 .. Len(context) /\ Len(context) \in Nat /\ DOMAIN context = 1 .. Len(context)
        BY <1>8, LenProperties
      <4>2. j \in DOMAIN context /\ j # i BY <4>1
      <4> QED BY <1>8, <3>1, <4>2 DEF IsInjective
    <3> QED BY <1>1, <3>1
  <2>3. \A x \in Range(context) : x \in Range(picked) BY <2>1, <2>2 DEF Range
  <2> QED BY <1>8, <2>1, <2>3
<1>11. added \in Seq(Objects) /\ IsInjective(added) /\ Range(added) = Going(t) \ Range(active)
  <2>1. added \in Seq(Objects) /\ IsInjective(added)
        /\ Range(added) = Range(picked) \cap (Objects \ Range(active))
    <3> DEFINE U == Objects \ Range(active)
    <3>1. added = Keep(picked, U) BY <1>1
    <3> HIDE DEF U
    <3>2. /\ Keep(picked, U) \in Seq(Objects) /\ IsInjective(Keep(picked, U))
          /\ Range(Keep(picked, U)) = Range(picked) \cap U
      BY ONLY <1>10, KeepElements
    <3> QED BY <3>1, <3>2 DEF U
  <2> QED BY <1>9, <1>10, <2>1
<1>12. /\ active' \in Seq(Objects) /\ IsInjective(active')
       /\ Range(active') = Range(active) \cup Going(t)
  <2>1. Range(active) \cap Range(added) = {} BY <1>11
  <2> QED BY <1>2, <1>7, <1>11, <2>1, ConcatElements, ConcatProperties
<1>13. /\ waiting' \in Seq(Objects) /\ IsInjective(waiting')
       /\ Range(waiting') = Range(waiting) \ Going(t)
  <2>1. waiting' \in Seq(Objects) /\ IsInjective(waiting')
        /\ Range(waiting') = Range(waiting) \cap (Objects \ Range(context))
    BY <1>2, <1>7, KeepElements
  <2> QED BY <1>7, <1>8, <2>1
<1>14. \A q : /\ Sent(q)' = Sent(q) /\ Fresh(q)' = Fresh(q) /\ Prefilling(q)' = Prefilling(q)
              /\ Decoding(q)' = Decoding(q) /\ Complete(q)' = Complete(q)
              /\ OutputOf(q)' = OutputOf(q) /\ Left(q)' = Left(q)
              /\ Begun(q)' = Begun(q) /\ Settled(q)' = Settled(q)
  BY <1>2 DEF Sent, Fresh, Prefilling, Decoding, Complete, OutputOf, Left, Begun, Settled
<1>15. OnlyMine(t) BY <1>2 DEF OnlyMine
<1>16. RequestsOK' BY <1>2, <1>14 DEF SequentialOK, RequestsOK
<1>17. IdsOK' BY <1>2 DEF SequentialOK, IdsOK, Sent
<1>18. \A o \in Going(t) :
           o \in Own(t) /\ o \notin EmptyPrompts /\ Sent(o) /\ (Fresh(o) \/ Prefilling(o))
  <2>1. \A o \in Going(t) : o \in Chunked(t) \/ o \in Finished(t) BY DEF Going
  <2>2. \A o \in Going(t) : (Fresh(o) \/ Prefilling(o)) /\ Left(o) > 0
    <3>1. \A o \in Going(t) : Left(o) \in Nat BY <1>9, WorkFacts DEF SequentialOK
    <3>2. \A o \in Going(t) : request[o].chunk \in Nat
      BY <1>9 DEF SequentialOK, RequestsOK, RequestType
    <3> QED BY <1>4, <2>1, <3>1, <3>2 DEF BatchOK, Untouched
  <2>3. \A o \in Going(t) : o \notin EmptyPrompts
    BY <1>9, <2>2, WorkFacts DEF SequentialOK
  <2>4. \A o \in Going(t) : o \in Own(t) /\ Sent(o)
    BY <1>3, <1>9, <2>3, Owners DEF SequentialOK, QueuesOK
  <2> QED BY <2>2, <2>3, <2>4
<1>19. QueuesOK'
  <2>1. \A q \in Range(waiting') : Sent(q)' /\ Fresh(q)' /\ (q \in EmptyPrompts \/ InCall(q[1])')
    <3>1. \A q \in Range(waiting) : q \in EmptyPrompts \/ q[1] = t BY <1>3, Owners
    <3> QED BY <1>6, <1>13, <1>14, <3>1 DEF SequentialOK, QueuesOK
  <2>2. \A q \in Range(active') : Sent(q)' /\ q \notin EmptyPrompts /\ InCall(q[1])'
    <3>1. \A q \in Range(active) : q[1] = t BY <1>3, Owners
    <3>2. \A q \in Going(t) : q[1] = t BY <1>18, ObjectFacts
    <3> QED BY <1>6, <1>12, <1>14, <1>18, <3>1, <3>2 DEF SequentialOK, QueuesOK
  <2> QED BY <1>7, <1>12, <1>13, <2>1, <2>2 DEF QueuesOK
<1>20. RunOK(t)'
  <2>1. EnqueuedOK(t)' BY <1>2, <1>4, <1>5, EnqueuedStays DEF RunOK
  <2>2. Delivered(t)' = Delivered(t)
    <3>1. \A o \in Going(t) : ~Complete(o) BY <1>18 DEF Fresh, Prefilling, Complete
    <3> QED BY <1>12, <1>14, <3>1 DEF Delivered
  <2>3. CountedOK(t)' BY <1>4, <1>5, <1>12, <1>13, <1>14, <2>2 DEF CountedOK
  <2>4. CapOK(t)'
    <3>1. WorkOf(t)' = WorkOf(t) BY <1>2 DEF WorkOf, WorkLeft, Left
    <3>2. Moving(t) /\ Moving(t)' BY <1>2, <1>5 DEF Moving
    <3> QED BY <1>4, <1>5, <3>1, <3>2 DEF CapOK
  <2>5. PhaseOK(t)'
    <3>1. /\ Going(t)' = Going(t) /\ Chunked(t)' = Chunked(t) /\ Finished(t)' = Finished(t)
          /\ Generating(t)' = Generating(t)
      BY <1>5 DEF Going, Chunked, Finished, Generating
    <3>2. BatchOK(t)'
      <4>1. \A o \in Range(active) : o \in Range(active') BY <1>12
      <4>2. BatchLists(t)' BY <1>4, <1>5, <1>14, <3>1, <4>1 DEF BatchOK, BatchLists
      <4>3. \A o \in Going(t) : Untouched(t, o)' BY <1>2, <1>4, <1>14, <3>1 DEF BatchOK, Untouched
      <4> QED BY <3>1, <4>2, <4>3 DEF BatchOK
    <3>3. BatchMoves(t)' BY <1>2, <1>4, <1>5, <3>1 DEF BatchMoves
    <3>4. \A o \in Range(active') \ Going(t)' : Settled(o)'
      BY <1>2, <1>4, <1>12, <1>14, <3>1 DEF PhaseOK
    <3> QED BY <1>5, <1>12, <3>1, <3>2, <3>3, <3>4 DEF PhaseOK, Advancing, Sampling
  <2> QED BY <1>5, <2>1, <2>3, <2>4, <2>5 DEF RunOK, Before, Looping
<1> QED BY <1>3, <1>5, <1>6, <1>15, <1>16, <1>17, <1>19, <1>20, FrameKeeps

(* Before the forward pass, and what the batch is.                          *)
LEMMA BatchFacts ==
    ASSUME SequentialOK, NEW t \in Threads, call[t].pc \in {"forward"} \cup Advancing
    PROVE  /\ InCall(t) /\ RunOK(t) /\ CountedOK(t) /\ CapOK(t) /\ PhaseOK(t) /\ BatchLists(t)
           /\ ContextOf(t) \in Seq(Objects) /\ IsInjective(ContextOf(t))
           /\ Range(ContextOf(t)) = Going(t)
           /\ Going(t) = Chunked(t) \cup Finished(t) /\ Chunked(t) \cap Finished(t) = {}
           /\ Going(t) \subseteq Range(active) /\ Generating(t) \subseteq Range(active)
           /\ Range(active) \subseteq Objects /\ Range(active) \subseteq Own(t)
<1>1. InCall(t) BY DEF InCall, Advancing
<1>2. RunOK(t) /\ CountedOK(t) /\ CapOK(t) /\ PhaseOK(t) BY <1>1, Owners DEF RunOK, Looping
<1>3. BatchLists(t) /\ Going(t) \subseteq Range(active) BY <1>2 DEF PhaseOK, BatchOK, AdvanceOK
<1>4. Generating(t) \subseteq Range(active) BY <1>3 DEF BatchLists
<1>5. Range(active) \subseteq Objects /\ Range(active) \subseteq Own(t) BY <1>1, Owners
<1> QED BY <1>1, <1>2, <1>3, <1>4, <1>5, ContextFacts

(* No chunk reaches beyond the prompt, so no forward pass fails.            *)
LEMMA NoMismatch ==
    ASSUME FewEmptyPrompts, SequentialOK, NEW t \in Threads, call[t].pc = "forward"
    PROVE  ~Mismatch(t)
<1> SUFFICES ASSUME NEW o \in Range(ContextOf(t)),
                    request[o].processed + request[o].chunk > ContextLenOf(o)
             PROVE  FALSE
  BY DEF Mismatch
<1>1. o \in Chunked(t) \cup Finished(t) /\ o \in Objects /\ Untouched(t, o)
  <2>1. o \in Going(t) /\ o \in Chunked(t) \cup Finished(t) /\ o \in Objects /\ PhaseOK(t)
    BY BatchFacts
  <2> QED BY <2>1 DEF PhaseOK, BatchOK
<1>2. PICK p \in Nat, c \in Nat, k \in Nat :
          p = ContextLenOf(o) /\ c = request[o].processed /\ k = request[o].chunk
  BY <1>1, ObjectFacts DEF SequentialOK, RequestsOK, RequestType
<1>3. k <= p - c
  <2>1. Left(o) = p - c BY <1>2 DEF Left
  <2> QED BY <1>1, <1>2, <2>1 DEF Untouched
<1> QED BY <1>2, <1>3

-----------------------------------------------------------------------------
(* After the forward pass: one read or write of a request after the other.  *)

(* What is left of a list is its end.                                       *)
LEMMA RestFacts ==
    ASSUME NEW list \in Seq(Objects), IsInjective(list), NEW todo, IsRest(todo, list)
    PROVE  /\ todo \in Seq(Objects) /\ Range(todo) \subseteq Range(list) /\ IsInjective(todo)
           /\ todo # <<>> =>
                 /\ Head(todo) \in Range(list) /\ Head(todo) \notin Range(Tail(todo))
                 /\ Range(todo) = Range(Tail(todo)) \cup {Head(todo)}
                 /\ IsRest(Tail(todo), list)
                 /\ Head(todo) = list[Len(list) - Len(todo) + 1]
<1>1. PICK m \in Nat, n \in Nat :
          /\ m = Len(todo) /\ n = Len(list) /\ m <= n
          /\ DOMAIN todo = 1 .. m /\ DOMAIN list = 1 .. n
          /\ \A j \in 1 .. m : todo[j] = list[n - m + j]
  BY LenProperties DEF IsRest
<1>2. todo \in Seq(Objects) BY DEF IsRest
<1>3. \A j \in 1 .. m : n - m + j \in 1 .. n BY <1>1
<1>4. Range(todo) \subseteq Range(list) BY <1>1, <1>3 DEF Range
<1>5. IsInjective(todo)
  <2> SUFFICES ASSUME NEW i \in 1 .. m, NEW j \in 1 .. m, todo[i] = todo[j] PROVE i = j
    BY <1>1 DEF IsInjective
  <2>1. PICK a \in 1 .. n, b \in 1 .. n : a = n - m + i /\ b = n - m + j BY <1>3
  <2>2. list[a] = list[b] BY <1>1, <2>1
  <2>3. a = b BY <1>1, <2>2 DEF IsInjective
  <2> QED BY <1>1, <2>1, <2>3
<1>6. ASSUME todo # <<>>
      PROVE  /\ Head(todo) \in Range(list) /\ Head(todo) \notin Range(Tail(todo))
             /\ Range(todo) = Range(Tail(todo)) \cup {Head(todo)}
             /\ IsRest(Tail(todo), list)
             /\ Head(todo) = list[n - m + 1]
  <2>1. /\ Head(todo) = todo[1] /\ Head(todo) \in Range(todo)
        /\ Range(todo) = Range(Tail(todo)) \cup {Head(todo)}
        /\ Head(todo) \notin Range(Tail(todo))
    BY <1>2, <1>5, <1>6, TailElements
  <2>2. /\ Tail(todo) \in Seq(Objects) /\ Len(Tail(todo)) = m - 1
        /\ \A j \in 1 .. m - 1 : Tail(todo)[j] = todo[j + 1]
    BY <1>1, <1>2, <1>6, HeadTailProperties
  <2>3. m >= 1
    <3>1. Len(todo) # 0 BY <1>2, <1>6, EmptySeq
    <3> QED BY <1>1, <3>1
  <2>4. \A j \in 1 .. m - 1 : Tail(todo)[j] = list[n - (m - 1) + j]
    <3> SUFFICES ASSUME NEW j \in 1 .. m - 1 PROVE Tail(todo)[j] = list[n - (m - 1) + j]
      OBVIOUS
    <3>1. j + 1 \in 1 .. m /\ n - m + (j + 1) = n - (m - 1) + j BY <1>1
    <3> QED BY <1>1, <2>2, <3>1
  <2>5. IsRest(Tail(todo), list) BY <1>1, <2>2, <2>3, <2>4 DEF IsRest
  <2>6. 1 \in 1 .. m BY <2>3
  <2> QED BY <1>1, <1>4, <2>1, <2>5, <2>6
<1> QED BY <1>1, <1>2, <1>4, <1>5, <1>6

(* The fields of the call that these steps touch.                           *)
Mid(t, pc, seen, batch, todo, target, ids) ==
    /\ Frame(t)
    /\ call'[t].pc = pc /\ call'[t].seen = seen /\ call'[t].batch = batch
    /\ call'[t].todo = todo /\ call'[t].target = target /\ call'[t].completed_ids = ids
    /\ call'[t].request_ids = call[t].request_ids
    /\ call'[t].iters = call[t].iters
    /\ call'[t].completed = call[t].completed

LEMMA MidUpdate ==
    ASSUME SequentialOK, NEW t \in Threads, NEW pc, NEW seen, NEW batch, NEW todo, NEW target,
           NEW ids,
           call' = [call EXCEPT ![t] = [call[t] EXCEPT !.pc = pc, !.seen = seen, !.batch = batch,
                                                       !.todo = todo, !.target = target,
                                                       !.completed_ids = ids]]
    PROVE  Mid(t, pc, seen, batch, todo, target, ids)
<1>1. DOMAIN call = Threads /\ DOMAIN call[t] = CallFields BY DEF SequentialOK, CallShape
<1>2. CallFields = {"pc", "seen", "request_ids", "iters", "completed", "snapshot", "batch",
                    "todo", "target", "completed_ids", "results"}
  BY DEF CallFields, NoCall
<1>3. call'[t] = [call[t] EXCEPT !.pc = pc, !.seen = seen, !.batch = batch, !.todo = todo,
                                 !.target = target, !.completed_ids = ids]
  BY <1>1
<1>4. DOMAIN call'[t] = CallFields BY <1>1, <1>3
<1>5. \A u \in Threads \ {t} : call'[u] = call[u] BY <1>1
<1>6. DOMAIN call' = Threads BY <1>1
<1> QED BY <1>1, <1>2, <1>3, <1>4, <1>5, <1>6 DEF Frame, Mid

(* What such a step has to show.                                            *)
LEMMA MidKeeps ==
    ASSUME FewEmptyPrompts, SequentialOK, NEW t \in Threads, RunOK(t), CountedOK(t), InCall(t),
           Frame(t), call'[t].pc \in Advancing \cup Sampling \cup {"complete"},
           call'[t].request_ids = call[t].request_ids,
           call'[t].completed = call[t].completed,
           UNCHANGED <<counter, waiting, active>>,
           \A o \in Objects : /\ request'[o].id = request[o].id
                              /\ o \notin Range(active) => request'[o] = request[o],
           RequestsOK', CapOK(t)', PhaseOK(t)'
    PROVE  SequentialOK'
<1>1. /\ InCall(t)' /\ call'[t].pc \in Looping /\ call'[t].pc \notin Before
  BY DEF InCall, Looping, Before, Advancing, Sampling
<1>2. /\ Range(active) \subseteq Objects /\ \A o \in Range(active) : o \in Own(t) /\ o[1] = t
      /\ \A o \in Range(waiting) : o \in Objects /\ (o \in EmptyPrompts \/ o[1] = t)
      /\ \A o \in Own(t) : o \in Objects
  BY Owners, ObjectFacts
<1>3. OnlyMine(t) BY <1>2 DEF OnlyMine
<1>4. IdsOK' BY DEF SequentialOK, IdsOK, Sent
<1>5. QueuesOK'
  <2>1. \A o \in Range(waiting) : o \notin Range(active) BY DEF SequentialOK, QueuesOK
  <2>2. \A o \in Range(waiting) : Sent(o)' /\ Fresh(o)' /\ (o \in EmptyPrompts \/ InCall(o[1])')
    BY <1>1, <1>2, <2>1 DEF SequentialOK, QueuesOK, Sent, Fresh
  <2>3. \A o \in Range(active) : Sent(o)' /\ o \notin EmptyPrompts /\ InCall(o[1])'
    BY <1>1, <1>2 DEF SequentialOK, QueuesOK, Sent
  <2> QED BY <2>2, <2>3 DEF SequentialOK, QueuesOK
<1>6. EnqueuedOK(t)'
  <2>1. \A i \in DOMAIN Prompts[t] : <<t, i>> \in Objects BY ObjectFacts
  <2>2. ASSUME NEW i \in DOMAIN Prompts[t], ~Sent(<<t, i>>), Fresh(<<t, i>>)
        PROVE  ~Sent(<<t, i>>)' /\ Fresh(<<t, i>>)'
    <3>1. <<t, i>> \notin Range(active) BY <2>2 DEF SequentialOK, QueuesOK
    <3> QED BY <2>1, <2>2, <3>1 DEF Sent, Fresh
  <2> QED BY <2>1, <2>2 DEF RunOK, EnqueuedOK
<1>7. CountedOK(t)'
  <2>1. \A o \in Objects : o \notin Range(active) => (Complete(o)' <=> Complete(o))
    BY DEF Complete
  <2>2. Delivered(t)' = Delivered(t) BY <1>2, <2>1 DEF Delivered
  <2>3. {OutputOf(o)' : o \in Delivered(t)} = {OutputOf(o) : o \in Delivered(t)}
    <3>1. \A o \in Delivered(t) : o \in Objects BY <1>2 DEF Delivered
    <3>2. \A o \in Delivered(t) : OutputOf(o)' = OutputOf(o) BY <3>1 DEF OutputOf
    <3> QED BY <3>2
  <2>4. \A o \in Own(t) : o \in Range(waiting) \/ o \in Range(active) \/ Complete(o)'
    BY <1>2, <2>1 DEF CountedOK
  <2> QED BY <2>2, <2>3, <2>4 DEF CountedOK
<1>8. RunOK(t)' BY <1>1, <1>6, <1>7 DEF RunOK
<1> QED BY <1>1, <1>3, <1>4, <1>5, <1>8, FrameKeeps

(* Enough iterations are left when something moves.                         *)
LEMMA CapMoves ==
    ASSUME FewEmptyPrompts, NEW t \in Threads, RequestsOK, RequestsOK', CapOK(t),
           call'[t].iters = call[t].iters,
           \A o \in Own(t) : WorkLeft(o)' <= WorkLeft(o),
           \/ \E o \in Own(t) : WorkLeft(o)' + 1 <= WorkLeft(o)
           \/ Moving(t) => Moving(t)'
    PROVE  CapOK(t)'
<1>1. WorkOf(t) \in Nat /\ WorkOf(t)' \in Nat BY WorkIsNat, WorkNext DEF AllWork
<1>2. PICK w \in Nat, v \in Nat, i \in Nat : w = WorkOf(t) /\ v = WorkOf(t)' /\ i = call[t].iters
  BY <1>1 DEF CapOK
<1>3. v <= w /\ ((\E o \in Own(t) : WorkLeft(o)' + 1 <= WorkLeft(o)) => v + 1 <= w)
  BY <1>2, WorkChange
<1>4. w <= i + 1 /\ (~Moving(t) => w <= i + 0) BY <1>2 DEF CapOK
<1>5. CASE \E o \in Own(t) : WorkLeft(o)' + 1 <= WorkLeft(o)
  <2>1. v <= i + 0 /\ v <= i + 1 BY <1>3, <1>4, <1>5
  <2> QED BY <1>2, <2>1 DEF CapOK
<1>6. CASE Moving(t) => Moving(t)'
  <2>1. v <= i + 1 /\ (~Moving(t)' => v <= i + 0) BY <1>3, <1>4, <1>6
  <2> QED BY <1>2, <2>1 DEF CapOK
<1> QED BY <1>5, <1>6

LEMMA CapStays ==
    ASSUME NEW t \in Threads, CapOK(t), call'[t].iters = call[t].iters,
           \A o \in Objects : /\ request'[o].processed = request[o].processed
                              /\ request'[o].out = request[o].out,
           Moving(t)' <=> Moving(t)
    PROVE  CapOK(t)'
<1>1. \A o \in Objects : WorkLeft(o)' = WorkLeft(o) BY DEF WorkLeft, Left
<1>2. WorkOf(t)' = WorkOf(t)
  <2>1. \A i \in DOMAIN Prompts[t] : WorkLeft(<<t, i>>)' = WorkLeft(<<t, i>>)
    BY <1>1, ObjectFacts
  <2> QED BY <2>1 DEF WorkOf
<1> QED BY <1>2 DEF CapOK

(* The batch does not change, and the requests outside H do not.            *)
LEMMA BatchNext ==
    ASSUME SequentialOK, NEW t \in Threads, call[t].pc \in {"forward"} \cup Advancing,
           call'[t].batch = call[t].batch, active' = active,
           NEW H, \A o \in Objects \ H : request'[o] = request[o],
           \A o \in H : ~Decoding(o)
    PROVE  /\ BatchLists(t)' /\ ContextOf(t)' = ContextOf(t)
           /\ Chunked(t)' = Chunked(t) /\ Finished(t)' = Finished(t) /\ Going(t)' = Going(t)
           /\ \A o \in Objects \ H :
                 /\ Untouched(t, o) => Untouched(t, o)'
                 /\ Followed(t, o) => Followed(t, o)'
                 /\ Settled(o) => Settled(o)'
<1>1. /\ BatchLists(t) /\ Generating(t) \subseteq Range(active) /\ Range(active) \subseteq Objects
  BY BatchFacts
<1>2. /\ ContextOf(t)' = ContextOf(t) /\ Chunked(t)' = Chunked(t) /\ Finished(t)' = Finished(t)
      /\ Generating(t)' = Generating(t) /\ Going(t)' = Going(t)
  BY DEF ContextOf, Chunked, Finished, Generating, Going
<1>3. \A o \in Generating(t) : Decoding(o)' /\ o \in Range(active')
  <2>1. \A o \in Generating(t) : Decoding(o) /\ o \in Objects \ H BY <1>1 DEF BatchLists
  <2> QED BY <1>1, <2>1 DEF Decoding
<1>4. BatchLists(t)' BY <1>1, <1>2, <1>3 DEF BatchLists
<1>5. ASSUME NEW o \in Objects \ H
      PROVE  /\ Untouched(t, o) => Untouched(t, o)'
             /\ Followed(t, o) => Followed(t, o)'
             /\ Settled(o) => Settled(o)'
  <2>1. request'[o] = request[o] OBVIOUS
  <2>2. Untouched(t, o) => Untouched(t, o)'
    BY <1>2, <2>1 DEF Untouched, Fresh, Prefilling, Left
  <2>3. Followed(t, o) => Followed(t, o)' BY <1>2, <2>1 DEF Followed, Prefilling, Primed
  <2>4. Settled(o) => Settled(o)' BY <2>1 DEF Settled, Prefilling, Decoding
  <2> QED BY <2>2, <2>3, <2>4
<1> QED BY <1>2, <1>4, <1>5

(* The batch as it is, for o.                                               *)
SameBatch(t) ==
    /\ BatchLists(t)' /\ ContextOf(t)' = ContextOf(t)
    /\ Chunked(t)' = Chunked(t) /\ Finished(t)' = Finished(t) /\ Going(t)' = Going(t)
    /\ \A o \in Objects : /\ Untouched(t, o) => Untouched(t, o)'
                          /\ Followed(t, o) => Followed(t, o)'
                          /\ Settled(o) => Settled(o)'

LEMMA BatchSame ==
    ASSUME SequentialOK, NEW t \in Threads, call[t].pc \in {"forward"} \cup Advancing,
           call'[t].batch = call[t].batch, active' = active,
           \A o \in Objects : request'[o] = request[o]
    PROVE  SameBatch(t)
<1>1. PICK H : H = {} OBVIOUS
<1>2. \A o \in Objects \ H : request'[o] = request[o] OBVIOUS
<1>3. \A o \in H : ~Decoding(o) BY <1>1
<1>4. Objects \ H = Objects BY <1>1
<1>5. /\ BatchLists(t)' /\ ContextOf(t)' = ContextOf(t)
      /\ Chunked(t)' = Chunked(t) /\ Finished(t)' = Finished(t) /\ Going(t)' = Going(t)
      /\ \A o \in Objects \ H :
            /\ Untouched(t, o) => Untouched(t, o)'
            /\ Followed(t, o) => Followed(t, o)'
            /\ Settled(o) => Settled(o)'
  BY <1>2, <1>3, BatchNext
<1> QED BY <1>4, <1>5 DEF SameBatch

LEMMA ForwardKeeps ==
    ASSUME FewEmptyPrompts, SequentialOK, NEW t \in Threads, Forward(t)
    PROVE  SequentialOK'
<1>1. /\ call[t].pc = "forward" /\ UNCHANGED <<counter, waiting, active, request>>
      /\ call' = [call EXCEPT ![t].pc = "advance", ![t].todo = ContextOf(t)]
  BY DEF Forward, queue_vars
<1>2. /\ InCall(t) /\ RunOK(t) /\ CountedOK(t) /\ CapOK(t) /\ PhaseOK(t) /\ BatchLists(t)
      /\ ContextOf(t) \in Seq(Objects) /\ IsInjective(ContextOf(t))
      /\ Range(ContextOf(t)) = Going(t) /\ Going(t) \subseteq Range(active)
      /\ Range(active) \subseteq Objects /\ Going(t) = Chunked(t) \cup Finished(t)
  BY <1>1, BatchFacts
<1>3. BatchOK(t) /\ BatchMoves(t) /\ \A o \in Range(active) \ Going(t) : Settled(o)
  BY <1>1, <1>2 DEF PhaseOK
<1>4. Mid(t, "advance", call[t].seen, call[t].batch, ContextOf(t), call[t].target,
          call[t].completed_ids)
  <2>1. DOMAIN call = Threads /\ DOMAIN call[t] = CallFields BY DEF SequentialOK, CallShape
  <2>2. PICK x : x = ContextOf(t) OBVIOUS
  <2>3. call' = [call EXCEPT ![t] = [call[t] EXCEPT !.pc = "advance", !.todo = x]]
    BY <1>1, <2>2
  <2>4. [call[t] EXCEPT !.pc = "advance", !.todo = x]
            = [call[t] EXCEPT !.pc = "advance", !.seen = call[t].seen, !.batch = call[t].batch,
                              !.todo = x, !.target = call[t].target,
                              !.completed_ids = call[t].completed_ids]
    BY <2>1 DEF CallFields, NoCall
  <2> QED BY <2>2, <2>3, <2>4, MidUpdate
<1>5. /\ BatchLists(t)' /\ ContextOf(t)' = ContextOf(t)
      /\ Chunked(t)' = Chunked(t) /\ Finished(t)' = Finished(t) /\ Going(t)' = Going(t)
      /\ \A o \in Objects : /\ Untouched(t, o) => Untouched(t, o)'
                            /\ Followed(t, o) => Followed(t, o)'
                            /\ Settled(o) => Settled(o)'
  <2>1. call'[t].batch = call[t].batch /\ active' = active BY <1>1, <1>4 DEF Mid
  <2>2. call[t].pc \in {"forward"} \cup Advancing BY <1>1
  <2>3. \A o \in Objects : request'[o] = request[o] BY <1>1
  <2> QED BY <2>1, <2>2, <2>3, BatchSame DEF SameBatch
<1>6. Rest(t)' = Going(t)
  BY <1>2, <1>4 DEF Rest, Mid
<1>7. IsRest(ContextOf(t), ContextOf(t))
  <2>1. PICK n \in Nat : n = Len(ContextOf(t)) BY <1>2, LenProperties
  <2>2. \A j \in 1 .. n : n - n + j = j BY <2>1
  <2> QED BY <1>2, <2>1, <2>2 DEF IsRest
<1>8. AdvanceOK(t)'
  <2>1. \A o \in Going(t) : Untouched(t, o)' BY <1>2, <1>3, <1>5 DEF BatchOK
  <2>2. \A o \in Range(active) \ Going(t) : Settled(o)' BY <1>2, <1>3, <1>5
  <2>3. /\ call'[t].todo = ContextOf(t) /\ call'[t].pc = "advance" /\ active' = active
    BY <1>1, <1>4 DEF Mid
  <2> QED BY <1>2, <1>5, <1>6, <1>7, <2>1, <2>2, <2>3 DEF AdvanceOK
<1>9. PhaseOK(t)'
  BY <1>4, <1>8 DEF PhaseOK, Mid, Advancing, Sampling
<1>10. Moving(t) /\ Moving(t)'
  <2>1. \A o \in Objects : request'[o].chunk = request[o].chunk BY <1>1
  <2>2. \/ call[t].batch.generation # <<>>
        \/ call[t].batch.context_last_chunk # <<>>
        \/ \E o \in Chunked(t) \cap Going(t) : request'[o].chunk >= Share(t)
    BY <1>1, <1>2, <1>3 DEF BatchMoves
  <2> QED BY <1>1, <1>4, <1>5, <1>6, <2>2 DEF Moving, Mid, Advancing
<1>11. CapOK(t)'
  BY <1>1, <1>2, <1>4, <1>10, CapStays DEF Mid
<1>12. RequestsOK' BY <1>1 DEF SequentialOK, RequestsOK, Fresh, Begun, Complete
<1> QED BY <1>1, <1>2, <1>4, <1>9, <1>11, <1>12, MidKeeps DEF Mid, Advancing

(* Facts of a thread that counts its chunks.                                *)
LEMMA AdvanceFacts ==
    ASSUME SequentialOK, NEW t \in Threads, call[t].pc \in Advancing
    PROVE  /\ AdvanceOK(t) /\ InCall(t) /\ RunOK(t) /\ CountedOK(t) /\ CapOK(t)
           /\ BatchLists(t) /\ Going(t) \subseteq Range(active) /\ Range(active) \subseteq Objects
           /\ Range(active) \subseteq Own(t) /\ Going(t) = Chunked(t) \cup Finished(t)
           /\ Chunked(t) \cap Finished(t) = {}
           /\ Range(call[t].todo) \subseteq Going(t)
           /\ call[t].todo # <<>> =>
                 /\ Current(t) \in Going(t) /\ Current(t) \notin Range(Tail(call[t].todo))
                 /\ Range(call[t].todo) = Range(Tail(call[t].todo)) \cup {Current(t)}
                 /\ IsRest(Tail(call[t].todo), ContextOf(t))
                 /\ InLastChunks(t) <=> Current(t) \in Finished(t)
<1>1. /\ InCall(t) /\ RunOK(t) /\ CountedOK(t) /\ CapOK(t) /\ PhaseOK(t) /\ BatchLists(t)
      /\ ContextOf(t) \in Seq(Objects) /\ IsInjective(ContextOf(t))
      /\ Range(ContextOf(t)) = Going(t) /\ Going(t) \subseteq Range(active)
      /\ Range(active) \subseteq Objects /\ Range(active) \subseteq Own(t)
      /\ Going(t) = Chunked(t) \cup Finished(t) /\ Chunked(t) \cap Finished(t) = {}
  BY BatchFacts
<1>2. AdvanceOK(t) BY <1>1 DEF PhaseOK
<1>3. PICK list, todo : list = ContextOf(t) /\ todo = call[t].todo OBVIOUS
<1>4. IsRest(todo, list) BY <1>2, <1>3 DEF AdvanceOK
<1>5. /\ todo \in Seq(Objects) /\ Range(todo) \subseteq Range(list)
      /\ todo # <<>> =>
            /\ Head(todo) \in Range(list) /\ Head(todo) \notin Range(Tail(todo))
            /\ Range(todo) = Range(Tail(todo)) \cup {Head(todo)}
            /\ IsRest(Tail(todo), list)
            /\ Head(todo) = list[Len(list) - Len(todo) + 1]
  <2>1. /\ list \in Seq(Objects) /\ IsInjective(list) /\ IsRest(todo, list) BY <1>1, <1>3, <1>4
  <2> QED BY ONLY <2>1, RestFacts
<1>6. ASSUME todo # <<>> PROVE InLastChunks(t) <=> Current(t) \in Finished(t)
  <2>1. PICK c, l : /\ c = call[t].batch.context_chunking /\ l = call[t].batch.context_last_chunk
                    /\ c \in Seq(Objects) /\ l \in Seq(Objects)
                    /\ Range(c) = Chunked(t) /\ Range(l) = Finished(t) /\ list = c \o l
    BY <1>1, <1>3 DEF BatchLists, Chunked, Finished, ContextOf
  <2>2. PICK m \in Nat, n \in Nat, k \in Nat : m = Len(c) /\ n = Len(l) /\ k = Len(todo)
    BY <1>5, <2>1, LenProperties
  <2>3. /\ Len(list) = m + n
        /\ \A i \in 1 .. m + n : list[i] = IF i <= m THEN c[i] ELSE l[i - m]
    <3>1. Len(c \o l) = Len(c) + Len(l)
          /\ \A i \in 1 .. Len(c) + Len(l) :
                 (c \o l)[i] = IF i <= Len(c) THEN c[i] ELSE l[i - Len(c)]
      BY <2>1, ConcatProperties
    <3> QED BY <2>1, <2>2, <3>1
  <2>4. k <= m + n /\ k >= 1
    <3>1. k # 0 BY <1>5, <1>6, <2>2, EmptySeq
    <3>2. k <= m + n BY <1>4, <2>2, <2>3 DEF IsRest
    <3> QED BY <3>1, <3>2
  <2>5. PICK i \in 1 .. m + n : i = m + n - k + 1 BY <2>4
  <2>6. Head(todo) = list[i] BY <1>5, <1>6, <2>2, <2>3, <2>5
  <2>7. InLastChunks(t) <=> k <= n BY <1>3, <2>1, <2>2 DEF InLastChunks
  <2>8. CASE k <= n
    <3>1. i > m /\ i - m \in 1 .. n BY <2>4, <2>5, <2>8
    <3>2. Head(todo) = l[i - m] BY <2>3, <2>6, <3>1
    <3>3. Head(todo) \in Range(l) BY <2>1, <2>2, <3>1, <3>2, ElementsOfSeq
    <3> QED BY <1>3, <2>1, <2>7, <2>8, <3>3 DEF Current
  <2>9. CASE ~(k <= n)
    <3>1. i \in 1 .. m BY <2>4, <2>5, <2>9
    <3>2. Head(todo) = c[i] BY <2>3, <2>6, <3>1
    <3>3. Head(todo) \in Range(c) BY <2>1, <2>2, <3>1, <3>2, ElementsOfSeq
    <3> QED BY <1>1, <1>3, <2>1, <2>7, <2>9, <3>3 DEF Current
  <2> QED BY <2>8, <2>9
<1> QED BY <1>1, <1>2, <1>3, <1>5, <1>6 DEF Current

LEMMA ReadProcessedKeeps ==
    ASSUME FewEmptyPrompts, SequentialOK, NEW t \in Threads, ReadProcessed(t)
    PROVE  SequentialOK'
<1> DEFINE h == Current(t)
<1>1. /\ call[t].pc = "advance" /\ call[t].todo # <<>>
      /\ UNCHANGED <<counter, waiting, active, request>>
      /\ call' = [call EXCEPT ![t].pc = "write_processed",
                              ![t].seen = request[h].processed + request[h].chunk]
  BY DEF ReadProcessed, queue_vars
<1>2. call[t].pc \in Advancing BY <1>1 DEF Advancing
<1>3. /\ AdvanceOK(t) /\ InCall(t) /\ RunOK(t) /\ CountedOK(t) /\ CapOK(t)
      /\ Going(t) \subseteq Range(active) /\ Range(active) \subseteq Objects
  BY <1>2, AdvanceFacts
<1>4. Mid(t, "write_processed", request[h].processed + request[h].chunk, call[t].batch,
          call[t].todo, call[t].target, call[t].completed_ids)
  <2>1. DOMAIN call = Threads /\ DOMAIN call[t] = CallFields BY DEF SequentialOK, CallShape
  <2>2. PICK x : x = request[h].processed + request[h].chunk OBVIOUS
  <2>3. call' = [call EXCEPT ![t] = [call[t] EXCEPT !.pc = "write_processed", !.seen = x]]
    BY <1>1, <2>2
  <2>4. [call[t] EXCEPT !.pc = "write_processed", !.seen = x]
            = [call[t] EXCEPT !.pc = "write_processed", !.seen = x, !.batch = call[t].batch,
                              !.todo = call[t].todo, !.target = call[t].target,
                              !.completed_ids = call[t].completed_ids]
    BY <2>1 DEF CallFields, NoCall
  <2> QED BY <2>2, <2>3, <2>4, MidUpdate
<1>5. /\ BatchLists(t)' /\ ContextOf(t)' = ContextOf(t)
      /\ Chunked(t)' = Chunked(t) /\ Finished(t)' = Finished(t) /\ Going(t)' = Going(t)
      /\ \A o \in Objects : /\ Untouched(t, o) => Untouched(t, o)'
                            /\ Followed(t, o) => Followed(t, o)'
                            /\ Settled(o) => Settled(o)'
  <2>1. call'[t].batch = call[t].batch /\ active' = active BY <1>1, <1>4 DEF Mid
  <2>2. call[t].pc \in {"forward"} \cup Advancing BY <1>2
  <2>3. \A o \in Objects : request'[o] = request[o] BY <1>1
  <2> QED BY <2>1, <2>2, <2>3, BatchSame DEF SameBatch
<1>6. Rest(t)' = Rest(t) /\ Rest(t) = Range(call[t].todo) BY <1>1, <1>4 DEF Rest, Mid
<1>7. AdvanceOK(t)'
  <2>1. /\ IsRest(call[t].todo, ContextOf(t)) /\ Rest(t) \subseteq Objects
        /\ \A o \in Rest(t) : Untouched(t, o)
        /\ \A o \in Going(t) \ Range(call[t].todo) : Followed(t, o)
        /\ \A o \in Range(active) \ Going(t) : Settled(o)
    BY <1>2, <1>3, <1>6, AdvanceFacts DEF AdvanceOK
  <2>2. /\ call'[t].todo = call[t].todo /\ call'[t].pc = "write_processed" /\ active' = active
        /\ call'[t].seen = request'[Head(call'[t].todo)].processed
                               + request'[Head(call'[t].todo)].chunk
    BY <1>1, <1>4 DEF Mid, Current
  <2>3. /\ \A o \in Rest(t) : Untouched(t, o)'
        /\ \A o \in Going(t) \ Range(call[t].todo) : Followed(t, o)'
        /\ \A o \in Range(active) \ Going(t) : Settled(o)'
    BY <1>3, <1>5, <2>1
  <2> QED BY <1>1, <1>3, <1>5, <1>6, <2>1, <2>2, <2>3 DEF AdvanceOK
<1>8. PhaseOK(t)' BY <1>4, <1>7 DEF PhaseOK, Mid, Advancing, Sampling
<1>9. Moving(t)' <=> Moving(t)
  BY <1>1, <1>4, <1>5, <1>6 DEF Moving, Mid, Advancing, Sampling
<1>10. CapOK(t)' BY <1>1, <1>3, <1>4, <1>9, CapStays DEF Mid
<1>11. RequestsOK' BY <1>1 DEF SequentialOK, RequestsOK, Fresh, Begun, Complete
<1> QED BY <1>1, <1>3, <1>4, <1>8, <1>10, <1>11, MidKeeps DEF Mid, Advancing

(* One request object changes.                                              *)
Updated(h, s, p, u) ==
    /\ request' \in [Objects -> RequestType]
    /\ \A o \in Objects \ {h} : request'[o] = request[o]
    /\ request'[h].id = request[h].id /\ request'[h].chunk = request[h].chunk
    /\ request'[h].state = s /\ request'[h].processed = p /\ request'[h].out = u

LEMMA RequestUpdate ==
    ASSUME request \in [Objects -> RequestType], NEW h \in Objects,
           NEW s \in RequestState, NEW p \in Nat, NEW u \in Nat,
           request' = [request EXCEPT ![h] =
                          [request[h] EXCEPT !.state = s, !.processed = p, !.out = u]]
    PROVE  Updated(h, s, p, u)
<1>1. PICK id \in Nat, s0 \in RequestState, p0 \in Nat, k \in Nat, u0 \in Nat :
          request[h] = [id |-> id, state |-> s0, processed |-> p0, chunk |-> k, out |-> u0]
  BY DEF RequestType
<1>2. PICK r : r = [request[h] EXCEPT !.state = s, !.processed = p, !.out = u] OBVIOUS
<1>3. r = [id |-> id, state |-> s, processed |-> p, chunk |-> k, out |-> u]
  <2>1. r = [[[request[h] EXCEPT !.state = s] EXCEPT !.processed = p] EXCEPT !.out = u]
    BY ONLY <1>2
  <2>2. PICK r1 : r1 = [request[h] EXCEPT !.state = s] OBVIOUS
  <2>3. r1 = [id |-> id, state |-> s, processed |-> p0, chunk |-> k, out |-> u0]
    BY ONLY <1>1, <2>2
  <2>4. PICK r2 : r2 = [r1 EXCEPT !.processed = p] OBVIOUS
  <2>5. r2 = [id |-> id, state |-> s, processed |-> p, chunk |-> k, out |-> u0]
    BY ONLY <2>3, <2>4
  <2>6. [r2 EXCEPT !.out = u] = [id |-> id, state |-> s, processed |-> p, chunk |-> k, out |-> u]
    BY ONLY <2>5
  <2> QED BY ONLY <2>1, <2>2, <2>4, <2>6
<1>4. r \in RequestType BY <1>3 DEF RequestType
<1>5. request' = [request EXCEPT ![h] = r] BY <1>2
<1>6. request' \in [Objects -> RequestType] /\ request'[h] = r
      /\ \A o \in Objects \ {h} : request'[o] = request[o]
  BY <1>4, <1>5
<1>7. /\ r.id = id /\ r.chunk = k /\ r.state = s /\ r.processed = p /\ r.out = u
      /\ request[h].id = id /\ request[h].chunk = k
  BY <1>1, <1>3
<1> QED BY <1>6, <1>7 DEF Updated

SameRequest(o) ==
    /\ Fresh(o) <=> Fresh(o)'
    /\ Begun(o) <=> Begun(o)'
    /\ Complete(o) <=> Complete(o)'
    /\ Settled(o) <=> Settled(o)'
    /\ Primed(o) <=> Primed(o)'
    /\ Decoding(o) <=> Decoding(o)'
    /\ WorkLeft(o)' = WorkLeft(o)

(* The other requests are what they were, and no id changes.                *)
LEMMA Others ==
    ASSUME RequestsOK, NEW h \in Objects, NEW s, NEW p, NEW u, Updated(h, s, p, u)
    PROVE  /\ \A o \in Objects : /\ request'[o].id = request[o].id
                                 /\ request'[o].chunk = request[o].chunk
           /\ \A o \in Objects \ {h} :
                 SameRequest(o)
           /\ (Begun(h)' \/ Complete(h)') => RequestsOK'
<1>1. \A o \in Objects \ {h} : request'[o] = request[o] BY DEF Updated
<1>2. \A o \in Objects : /\ request'[o].id = request[o].id
                         /\ request'[o].chunk = request[o].chunk
  BY <1>1 DEF Updated
<1>3. ASSUME NEW o \in Objects \ {h}
      PROVE  SameRequest(o)
  <2>1. request'[o] = request[o] BY <1>1
  <2>2. (Fresh(o) <=> Fresh(o)') /\ (Begun(o) <=> Begun(o)') /\ (Complete(o) <=> Complete(o)')
    BY <2>1 DEF Fresh, Begun, Complete
  <2>3. /\ Settled(o) <=> Settled(o)'
        /\ Primed(o) <=> Primed(o)'
        /\ Decoding(o) <=> Decoding(o)'
    BY <2>1 DEF Settled, Prefilling, Primed, Decoding
  <2>4. WorkLeft(o)' = WorkLeft(o) BY <2>1 DEF WorkLeft, Left
  <2> QED BY <2>2, <2>3, <2>4 DEF SameRequest
<1>4. ASSUME Begun(h)' \/ Complete(h)' PROVE RequestsOK'
  <2>1. \A o \in Objects : Fresh(o)' \/ Begun(o)' \/ Complete(o)'
    <3> SUFFICES ASSUME NEW o \in Objects PROVE Fresh(o)' \/ Begun(o)' \/ Complete(o)'
      OBVIOUS
    <3>1. CASE o = h BY <1>4, <3>1
    <3>2. CASE o # h
      <4>1. Fresh(o) \/ Begun(o) \/ Complete(o) BY DEF RequestsOK
      <4> QED BY <1>3, <3>2, <4>1 DEF SameRequest
    <3> QED BY <3>1, <3>2
  <2> QED BY <2>1 DEF RequestsOK, Updated
<1> QED BY <1>2, <1>3, <1>4

(* The work of a chunk.                                                     *)
LEMMA ChunkWork ==
    ASSUME FewEmptyPrompts, SequentialOK, NEW t \in Threads, NEW o \in Own(t),
           o \in Chunked(t) \cup Finished(t), Untouched(t, o),
           request'[o].processed = request[o].processed + request[o].chunk,
           request'[o].out = request[o].out
    PROVE  /\ WorkLeft(o)' <= WorkLeft(o)
           /\ o \in Chunked(t) /\ request[o].chunk >= Share(t)
                  => WorkLeft(o)' + 1 <= WorkLeft(o)
<1>1. o \in Objects /\ o[1] = t /\ Share(t) \in Nat \ {0} BY ObjectFacts, ShareFacts
<1>2. PICK n \in Nat, m \in Nat \ {0}, p \in Nat, k \in Nat :
          /\ n = ContextLenOf(o) /\ m = MaxTokensOf(o)
          /\ p = request[o].processed /\ k = request[o].chunk
  <2>1. ContextLenOf(o) \in Nat /\ MaxTokensOf(o) \in Nat \ {0} BY <1>1, ObjectFacts
  <2>2. request[o].processed \in Nat /\ request[o].chunk \in Nat
    BY <1>1 DEF SequentialOK, RequestsOK, RequestType
  <2> QED BY <2>1, <2>2
<1>3. request[o].out = 0 /\ request'[o].out = 0 /\ request'[o].processed = p + k
  BY <1>2 DEF Untouched, Fresh, Prefilling
<1>4. Left(o) = n - p /\ Left(o)' = n - (p + k) BY <1>2, <1>3 DEF Left
<1>5. 0 < k /\ (o \in Chunked(t) => k < n - p) /\ (o \in Finished(t) => k = n - p)
  BY <1>2, <1>4 DEF Untouched
<1>6. n # 0 /\ n - p > 0
  <2>1. k <= n - p BY <1>5, <1>2
  <2> QED BY <1>2, <1>5, <2>1
<1>7. PICK a \in Nat \ {0} : a = n - p BY <1>6
<1>8. WorkLeft(o) = ChunksOf(a, t) + m - 1
  <2>1. Left(o) > 0 BY <1>4, <1>6
  <2> QED BY <1>1, <1>2, <1>4, <1>6, <1>7, <2>1 DEF WorkLeft
<1>9. PICK s \in Nat \ {0} : s = Share(t) BY <1>1
<1>10. \A z : ChunksOf(z, t) = Chunks(z, s) BY <1>9 DEF ChunksOf, Chunks
<1>11. PICK x \in Nat \ {0} : x = Chunks(a, s) BY ChunksShrink
<1>12. CASE k < n - p
  <2>1. PICK b \in Nat \ {0} : b = n - (p + k) /\ b + k = a BY <1>2, <1>7, <1>12
  <2>2. WorkLeft(o)' = ChunksOf(b, t) + m - 1
    <3>1. Left(o)' > 0 BY <1>4, <2>1
    <3> QED BY <1>1, <1>2, <1>4, <1>6, <2>1, <3>1 DEF WorkLeft
  <2>3. PICK y \in Nat \ {0} : y = Chunks(b, s) /\ y <= x /\ (k >= s => y + 1 <= x)
    <3>1. b <= a /\ (k >= s => b + s <= a) BY <2>1
    <3> QED BY <1>11, <3>1, ChunksShrink
  <2>4. WorkLeft(o) = x + m - 1 /\ WorkLeft(o)' = y + m - 1 BY <1>8, <1>10, <1>11, <2>2, <2>3
  <2>5. y + m - 1 <= x + m - 1 /\ (k >= s => (y + m - 1) + 1 <= x + m - 1) BY <2>3
  <2> QED BY <1>2, <1>9, <2>4, <2>5
<1>13. CASE k = n - p
  <2>1. o \notin Chunked(t) BY <1>2, <1>5, <1>13
  <2>2. Left(o)' = 0 BY <1>2, <1>4, <1>13
  <2>3. WorkLeft(o)' = m BY <1>2, <1>3, <1>6, <2>2 DEF WorkLeft
  <2>4. WorkLeft(o) = x + m - 1 BY <1>8, <1>10, <1>11
  <2>5. m <= x + m - 1 BY <1>11
  <2> QED BY <2>1, <2>3, <2>4, <2>5
<1> QED BY <1>5, <1>12, <1>13

LEMMA WriteProcessedKeeps ==
    ASSUME FewEmptyPrompts, SequentialOK, NEW t \in Threads, WriteProcessed(t)
    PROVE  SequentialOK'
<1>1. PICK h, todo : h = Current(t) /\ todo = call[t].todo OBVIOUS
<1>2. /\ call[t].pc = "write_processed"
      /\ UNCHANGED <<counter, waiting, active>>
      /\ request' = [request EXCEPT ![h].processed = call[t].seen]
      /\ call' = [call EXCEPT ![t].pc = "check_state", ![t].seen = 0]
  BY <1>1 DEF WriteProcessed
<1>3. call[t].pc \in Advancing BY <1>2 DEF Advancing
<1>4. /\ AdvanceOK(t) /\ InCall(t) /\ RunOK(t) /\ CountedOK(t) /\ CapOK(t)
      /\ Going(t) \subseteq Range(active) /\ Range(active) \subseteq Objects
      /\ Range(active) \subseteq Own(t) /\ Going(t) = Chunked(t) \cup Finished(t)
      /\ Chunked(t) \cap Finished(t) = {} /\ Range(todo) \subseteq Going(t)
      /\ todo # <<>> =>
            /\ h \in Going(t) /\ h \notin Range(Tail(todo))
            /\ Range(todo) = Range(Tail(todo)) \cup {h}
  BY <1>1, <1>3, AdvanceFacts
<1>5. /\ todo # <<>> /\ IsRest(todo, ContextOf(t)) /\ Rest(t) = Range(todo)
      /\ \A o \in Range(todo) : Untouched(t, o)
      /\ \A o \in Going(t) \ Range(todo) : Followed(t, o)
      /\ \A o \in Range(active) \ Going(t) : Settled(o)
      /\ call[t].seen = request[h].processed + request[h].chunk
  <2>1. Rest(t) = Range(todo) BY <1>1, <1>2 DEF Rest
  <2> QED BY <1>1, <1>2, <1>4, <2>1 DEF AdvanceOK, Current
<1>6. h \in Going(t) /\ h \in Objects /\ h \in Own(t) /\ h \in Range(active) /\ Untouched(t, h)
  BY <1>4, <1>5
<1>7. Mid(t, "check_state", 0, call[t].batch, todo, call[t].target, call[t].completed_ids)
  <2>1. DOMAIN call = Threads /\ DOMAIN call[t] = CallFields BY DEF SequentialOK, CallShape
  <2>2. call' = [call EXCEPT ![t] = [call[t] EXCEPT !.pc = "check_state", !.seen = 0]]
    BY <1>2
  <2>3. [call[t] EXCEPT !.pc = "check_state", !.seen = 0]
            = [call[t] EXCEPT !.pc = "check_state", !.seen = 0, !.batch = call[t].batch,
                              !.todo = todo, !.target = call[t].target,
                              !.completed_ids = call[t].completed_ids]
    BY <1>1, <2>1 DEF CallFields, NoCall
  <2> QED BY <2>2, <2>3, MidUpdate
<1>8. PICK n \in Nat, p \in Nat, k \in Nat, s \in RequestState :
          /\ n = ContextLenOf(h) /\ p = request[h].processed /\ k = request[h].chunk
          /\ s = request[h].state /\ request[h].out = 0
          /\ s # "GENERATION_COMPLETE" /\ s # "GENERATION_IN_PROGRESS"
          /\ 0 < k /\ p + k <= n
          /\ h \in Chunked(t) => p + k < n
          /\ h \in Finished(t) => p + k = n
  <2>1. PICK n \in Nat, p \in Nat, k \in Nat, s \in RequestState :
            /\ n = ContextLenOf(h) /\ p = request[h].processed /\ k = request[h].chunk
            /\ s = request[h].state
    BY <1>6, ObjectFacts DEF SequentialOK, RequestsOK, RequestType
  <2>2. /\ request[h].out = 0 /\ s # "GENERATION_COMPLETE" /\ s # "GENERATION_IN_PROGRESS"
    BY <1>6, <2>1 DEF Untouched, Fresh, Prefilling
  <2>3. Left(h) = n - p BY <2>1 DEF Left
  <2>4. h \in Chunked(t) \/ h \in Finished(t) BY <1>4, <1>6
  <2>5. 0 < k /\ (h \in Chunked(t) => k < n - p) /\ (h \in Finished(t) => k = n - p)
    BY <1>6, <2>1, <2>3, <2>4 DEF Untouched
  <2>6. /\ k < n - p => p + k < n /\ p + k <= n
        /\ k = n - p => p + k = n /\ p + k <= n
    BY <2>1
  <2> QED BY <2>1, <2>2, <2>4, <2>5, <2>6
<1>9. PICK q \in Nat : q = p + k /\ q > 0 /\ q <= n /\ call[t].seen = q BY <1>5, <1>8
<1>10. Updated(h, s, q, 0)
  <2>1. request \in [Objects -> RequestType] BY DEF SequentialOK, RequestsOK
  <2>2. PICK r : r = request[h] /\ r \in RequestType BY <1>6, <2>1
  <2>3. [r EXCEPT !.processed = q] = [r EXCEPT !.state = s, !.processed = q, !.out = 0]
    <3>1. r.state = s /\ r.out = 0 BY <1>8, <2>2
    <3> QED BY <2>2, <3>1 DEF RequestType
  <2>4. request' = [request EXCEPT ![h] = [r EXCEPT !.processed = q]] BY <1>2, <1>9, <2>2
  <2>5. request' = [request EXCEPT ![h] = [request[h] EXCEPT !.state = s, !.processed = q,
                                                             !.out = 0]]
    BY <2>2, <2>3, <2>4
  <2>6. 0 \in Nat OBVIOUS
  <2> QED BY <1>6, <2>1, <2>5, <2>6, RequestUpdate
<1>11. /\ request'[h].state = s /\ request'[h].processed = q /\ request'[h].out = 0
       /\ request'[h].chunk = k
       /\ \A o \in Objects \ {h} : request'[o] = request[o]
  BY <1>8, <1>10 DEF Updated
<1>12. Begun(h)'
  <2>1. MaxTokensOf(h) \in Nat BY <1>6, ObjectFacts
  <2>2. s # "GENERATION_COMPLETE" /\ 0 < q /\ q <= ContextLenOf(h) /\ 0 <= MaxTokensOf(h)
    BY <1>8, <1>9, <2>1
  <2> QED BY <1>11, <2>2 DEF Begun
<1>13. /\ RequestsOK' /\ \A o \in Objects : request'[o].id = request[o].id
       /\ \A o \in Objects : request'[o].chunk = request[o].chunk
       /\ \A o \in Objects \ {h} : WorkLeft(o)' = WorkLeft(o)
  BY <1>6, <1>10, <1>12, Others DEF SequentialOK, SameRequest
<1>14. /\ BatchLists(t)' /\ ContextOf(t)' = ContextOf(t)
       /\ Chunked(t)' = Chunked(t) /\ Finished(t)' = Finished(t) /\ Going(t)' = Going(t)
       /\ \A o \in Objects \ {h} :
             /\ Untouched(t, o) => Untouched(t, o)'
             /\ Followed(t, o) => Followed(t, o)'
             /\ Settled(o) => Settled(o)'
  <2>1. call'[t].batch = call[t].batch /\ active' = active BY <1>2, <1>7 DEF Mid
  <2>2. call[t].pc \in {"forward"} \cup Advancing BY <1>3
  <2>3. PICK H : H = {h} OBVIOUS
  <2>4. \A o \in Objects \ H : request'[o] = request[o] BY <1>11, <2>3
  <2>5. \A o \in H : ~Decoding(o) BY <1>8, <2>3 DEF Decoding
  <2> QED BY <2>1, <2>2, <2>3, <2>4, <2>5, BatchNext
<1>15. Rest(t)' = Range(Tail(todo)) BY <1>7 DEF Rest, Mid
<1>16. Counted(t, h)'
  <2>1. s \in {"CONTEXT_INIT", "CONTEXT_IN_PROGRESS"} BY <1>8 DEF RequestState
  <2>2. /\ 0 < q /\ h \in Chunked(t) => q < ContextLenOf(h)
        /\ h \in Finished(t) => q = ContextLenOf(h)
    BY <1>8, <1>9
  <2> QED BY <1>9, <1>11, <1>14, <2>1, <2>2 DEF Counted
<1>17. AdvanceOK(t)'
  <2>1. \A o \in Range(Tail(todo)) : o \in Range(todo) /\ o \in Objects \ {h}
    BY <1>4, <1>5
  <2>2. \A o \in Range(Tail(todo)) : Untouched(t, o)' BY <1>5, <1>14, <2>1
  <2>3. \A o \in Going(t) \ Range(todo) : Followed(t, o)' BY <1>4, <1>5, <1>14
  <2>4. \A o \in Range(active) \ Going(t) : Settled(o)' BY <1>4, <1>5, <1>6, <1>14
  <2>5. call'[t].todo = todo /\ call'[t].pc = "check_state" /\ active' = active
    BY <1>2, <1>7 DEF Mid
  <2>6. Head(call'[t].todo) = h BY <1>1, <2>5 DEF Current
  <2>7. Counted(t, Head(call[t].todo))' BY <1>16, <2>6 DEF Counted
  <2> QED BY <1>4, <1>5, <1>14, <1>15, <2>2, <2>3, <2>4, <2>5, <2>7 DEF AdvanceOK
<1>18. PhaseOK(t)' BY <1>7, <1>17 DEF PhaseOK, Mid, Advancing, Sampling
<1>19. CapOK(t)'
  <2>1. /\ WorkLeft(h)' <= WorkLeft(h)
        /\ h \in Chunked(t) /\ request[h].chunk >= Share(t) => WorkLeft(h)' + 1 <= WorkLeft(h)
    BY <1>4, <1>6, <1>8, <1>9, <1>11, ChunkWork
  <2>2. \A o \in Own(t) : WorkLeft(o)' <= WorkLeft(o)
    <3> SUFFICES ASSUME NEW o \in Own(t) PROVE WorkLeft(o)' <= WorkLeft(o)
      OBVIOUS
    <3>1. o \in Objects BY ObjectFacts
    <3>2. CASE o = h BY <2>1, <3>2
    <3>3. CASE o # h
      <4>1. WorkLeft(o) \in Nat BY <3>1, WorkFacts DEF SequentialOK
      <4>2. WorkLeft(o)' = WorkLeft(o) BY <1>13, <3>1, <3>3
      <4> QED BY <4>1, <4>2
    <3> QED BY <3>2, <3>3
  <2>3. ASSUME Moving(t), ~(h \in Chunked(t) /\ request[h].chunk >= Share(t)) PROVE Moving(t)'
    <3>1. call'[t].pc \in Advancing /\ call'[t].batch = call[t].batch
      BY <1>7 DEF Mid, Advancing
    <3>2. \/ call[t].batch.generation # <<>>
          \/ call[t].batch.context_last_chunk # <<>>
          \/ \E o \in Chunked(t) \cap Rest(t) : request[o].chunk >= Share(t)
      BY <1>2, <2>3 DEF Moving, Sampling
    <3>3. ASSUME NEW o \in Chunked(t) \cap Rest(t), request[o].chunk >= Share(t)
          PROVE  o \in Chunked(t)' \cap Rest(t)' /\ request'[o].chunk >= Share(t)
      <4>1. o \in Objects /\ o # h BY <1>4, <1>6, <2>3, <3>3
      <4> QED BY <1>4, <1>5, <1>13, <1>14, <1>15, <3>3, <4>1
    <3> QED BY <3>1, <3>2, <3>3 DEF Moving
  <2>4. \/ \E o \in Own(t) : WorkLeft(o)' + 1 <= WorkLeft(o)
        \/ Moving(t) => Moving(t)'
    BY <1>6, <2>1, <2>3
  <2>5. call'[t].iters = call[t].iters BY <1>7 DEF Mid
  <2> QED BY <1>4, <1>13, <2>2, <2>4, <2>5, CapMoves DEF SequentialOK
<1> QED BY <1>2, <1>4, <1>6, <1>7, <1>11, <1>13, <1>18, <1>19, MidKeeps DEF Mid, Advancing

(* While the state of a chunk follows.                                      *)
CountedPlace(t, h, todo) ==
    /\ AdvanceOK(t) /\ InCall(t) /\ RunOK(t) /\ CountedOK(t) /\ CapOK(t)
    /\ Going(t) \subseteq Range(active) /\ Range(active) \subseteq Objects
    /\ Going(t) = Chunked(t) \cup Finished(t) /\ Chunked(t) \cap Finished(t) = {}
    /\ h \in Going(t) /\ h \in Objects /\ h \in Range(active)
    /\ h \notin Range(Tail(todo))
    /\ Range(todo) = Range(Tail(todo)) \cup {h} /\ Range(todo) \subseteq Going(t)
    /\ IsRest(todo, ContextOf(t)) /\ IsRest(Tail(todo), ContextOf(t))
    /\ todo # <<>> /\ Rest(t) = Range(Tail(todo)) /\ Counted(t, h)
    /\ InLastChunks(t) <=> h \in Finished(t)
    /\ \A o \in Range(Tail(todo)) : Untouched(t, o)
    /\ \A o \in Going(t) \ Range(todo) : Followed(t, o)
    /\ \A o \in Range(active) \ Going(t) : Settled(o)

LEMMA CountedFacts ==
    ASSUME SequentialOK, NEW t \in Threads, call[t].pc \in {"check_state", "set_state"},
           NEW h, NEW todo, h = Current(t), todo = call[t].todo
    PROVE  CountedPlace(t, h, todo)
<1>1. call[t].pc \in Advancing BY DEF Advancing
<1>2. /\ AdvanceOK(t) /\ InCall(t) /\ RunOK(t) /\ CountedOK(t) /\ CapOK(t)
      /\ Going(t) \subseteq Range(active) /\ Range(active) \subseteq Objects
      /\ Going(t) = Chunked(t) \cup Finished(t) /\ Chunked(t) \cap Finished(t) = {}
      /\ Range(todo) \subseteq Going(t)
      /\ todo # <<>> =>
            /\ h \in Going(t) /\ h \notin Range(Tail(todo))
            /\ Range(todo) = Range(Tail(todo)) \cup {h}
            /\ IsRest(Tail(todo), ContextOf(t))
            /\ InLastChunks(t) <=> h \in Finished(t)
  BY <1>1, AdvanceFacts
<1>3. Rest(t) = Range(Tail(todo)) BY DEF Rest
<1>4. /\ todo # <<>> /\ IsRest(todo, ContextOf(t)) /\ Counted(t, h)
      /\ \A o \in Range(Tail(todo)) : Untouched(t, o)
      /\ \A o \in Going(t) \ Range(todo) : Followed(t, o)
      /\ \A o \in Range(active) \ Going(t) : Settled(o)
  BY <1>2, <1>3 DEF AdvanceOK, Current
<1> QED BY <1>2, <1>3, <1>4 DEF CountedPlace

LEMMA CheckStateKeeps ==
    ASSUME FewEmptyPrompts, SequentialOK, NEW t \in Threads, CheckState(t)
    PROVE  SequentialOK'
<1>1. PICK h, todo, s : h = Current(t) /\ todo = call[t].todo /\ s = request[h].state OBVIOUS
<1>2. /\ call[t].pc = "check_state"
      /\ UNCHANGED <<counter, waiting, active, request>>
      /\ call' = [call EXCEPT ![t] =
            IF s = "CONTEXT_INIT"
            THEN [call[t] EXCEPT !.pc = "set_state", !.target = "CONTEXT_IN_PROGRESS"]
            ELSE IF s = "CONTEXT_IN_PROGRESS" /\ InLastChunks(t)
            THEN [call[t] EXCEPT !.pc = "set_state", !.target = "GENERATION_IN_PROGRESS"]
            ELSE [call[t] EXCEPT !.pc = "advance", !.todo = Tail(todo)]]
  <2>1. call[t].pc = "check_state" /\ UNCHANGED <<counter, waiting, active, request>>
    BY DEF CheckState, queue_vars
  <2>2. call' = [call EXCEPT ![t] =
            IF request[Current(t)].state = "CONTEXT_INIT"
            THEN [call[t] EXCEPT !.pc = "set_state", !.target = "CONTEXT_IN_PROGRESS"]
            ELSE IF request[Current(t)].state = "CONTEXT_IN_PROGRESS" /\ InLastChunks(t)
            THEN [call[t] EXCEPT !.pc = "set_state", !.target = "GENERATION_IN_PROGRESS"]
            ELSE [call[t] EXCEPT !.pc = "advance", !.todo = Tail(call[t].todo)]]
    BY DEF CheckState
  <2> QED BY <1>1, <2>1, <2>2
<1>3. /\ AdvanceOK(t) /\ InCall(t) /\ RunOK(t) /\ CountedOK(t) /\ CapOK(t)
      /\ Going(t) \subseteq Range(active) /\ Range(active) \subseteq Objects
      /\ Going(t) = Chunked(t) \cup Finished(t) /\ Chunked(t) \cap Finished(t) = {}
      /\ h \in Going(t) /\ h \in Objects /\ h \in Range(active)
      /\ Range(todo) = Range(Tail(todo)) \cup {h} /\ Range(todo) \subseteq Going(t)
      /\ IsRest(todo, ContextOf(t)) /\ IsRest(Tail(todo), ContextOf(t))
      /\ todo # <<>> /\ Rest(t) = Range(Tail(todo)) /\ Counted(t, h)
      /\ InLastChunks(t) <=> h \in Finished(t)
      /\ \A o \in Range(Tail(todo)) : Untouched(t, o)
      /\ \A o \in Going(t) \ Range(todo) : Followed(t, o)
      /\ \A o \in Range(active) \ Going(t) : Settled(o)
  <2>1. h = Current(t) /\ todo = call[t].todo /\ call[t].pc \in {"check_state", "set_state"}
    BY <1>1, <1>2
  <2>2. CountedPlace(t, h, todo) BY <2>1, CountedFacts
  <2> QED BY <2>2 DEF CountedPlace
<1>4. PICK pc, rest, target :
          /\ \/ /\ pc = "set_state" /\ rest = todo /\ s = "CONTEXT_INIT"
                /\ target = "CONTEXT_IN_PROGRESS"
             \/ /\ pc = "set_state" /\ rest = todo /\ s = "CONTEXT_IN_PROGRESS"
                /\ h \in Finished(t) /\ target = "GENERATION_IN_PROGRESS"
             \/ /\ pc = "advance" /\ rest = Tail(todo) /\ s # "CONTEXT_INIT"
                /\ ~(s = "CONTEXT_IN_PROGRESS" /\ h \in Finished(t)) /\ target = call[t].target
          /\ Mid(t, pc, call[t].seen, call[t].batch, rest, target, call[t].completed_ids)
  <2>1. DOMAIN call = Threads /\ DOMAIN call[t] = CallFields BY DEF SequentialOK, CallShape
  <2>2. \A pc, target :
            [call[t] EXCEPT !.pc = pc, !.target = target]
                = [call[t] EXCEPT !.pc = pc, !.seen = call[t].seen, !.batch = call[t].batch,
                                  !.todo = todo, !.target = target,
                                  !.completed_ids = call[t].completed_ids]
    BY <1>1, <2>1 DEF CallFields, NoCall
  <2>3. \A pc, rest :
            [call[t] EXCEPT !.pc = pc, !.todo = rest]
                = [call[t] EXCEPT !.pc = pc, !.seen = call[t].seen, !.batch = call[t].batch,
                                  !.todo = rest, !.target = call[t].target,
                                  !.completed_ids = call[t].completed_ids]
    BY <2>1 DEF CallFields, NoCall
  <2>4. CASE s = "CONTEXT_INIT"
    <3>1. call' = [call EXCEPT ![t] = [call[t] EXCEPT !.pc = "set_state",
                                                      !.target = "CONTEXT_IN_PROGRESS"]]
      BY <1>2, <2>4
    <3>2. Mid(t, "set_state", call[t].seen, call[t].batch, todo, "CONTEXT_IN_PROGRESS",
              call[t].completed_ids)
      BY <2>2, <3>1, MidUpdate
    <3> QED BY <2>4, <3>2
  <2>5. CASE s = "CONTEXT_IN_PROGRESS" /\ InLastChunks(t)
    <3>1. call' = [call EXCEPT ![t] = [call[t] EXCEPT !.pc = "set_state",
                                                      !.target = "GENERATION_IN_PROGRESS"]]
      BY <1>2, <2>5
    <3>2. Mid(t, "set_state", call[t].seen, call[t].batch, todo, "GENERATION_IN_PROGRESS",
              call[t].completed_ids)
      BY <2>2, <3>1, MidUpdate
    <3> QED BY <1>3, <2>5, <3>2
  <2>6. CASE s # "CONTEXT_INIT" /\ ~(s = "CONTEXT_IN_PROGRESS" /\ InLastChunks(t))
    <3>1. call' = [call EXCEPT ![t] = [call[t] EXCEPT !.pc = "advance", !.todo = Tail(todo)]]
      BY <1>2, <2>6
    <3>2. Mid(t, "advance", call[t].seen, call[t].batch, Tail(todo), call[t].target,
              call[t].completed_ids)
      BY <2>3, <3>1, MidUpdate
    <3> QED BY <1>3, <2>6, <3>2
  <2> QED BY <2>4, <2>5, <2>6
<1>5. call'[t].pc \in {"advance", "set_state"} /\ call'[t].pc \in Advancing
  BY <1>4 DEF Mid, Advancing
<1>6. /\ BatchLists(t)' /\ ContextOf(t)' = ContextOf(t)
      /\ Chunked(t)' = Chunked(t) /\ Finished(t)' = Finished(t) /\ Going(t)' = Going(t)
      /\ \A o \in Objects : /\ Untouched(t, o) => Untouched(t, o)'
                            /\ Followed(t, o) => Followed(t, o)'
                            /\ Settled(o) => Settled(o)'
  <2>1. call'[t].batch = call[t].batch /\ active' = active BY <1>2, <1>4 DEF Mid
  <2>2. call[t].pc \in {"forward"} \cup Advancing BY <1>2 DEF Advancing
  <2>3. \A o \in Objects : request'[o] = request[o] BY <1>2
  <2> QED BY <2>1, <2>2, <2>3, BatchSame DEF SameBatch
<1>7. call'[t].todo = rest /\ call'[t].pc = pc /\ call'[t].target = target /\ active' = active
  BY <1>2, <1>4 DEF Mid
<1>8. Rest(t)' = Rest(t)
  BY <1>3, <1>4, <1>7 DEF Rest
<1>9. pc = "advance" => Followed(t, h)
  <2> SUFFICES ASSUME pc = "advance" PROVE Followed(t, h) OBVIOUS
  <2>1. s # "CONTEXT_INIT" /\ ~(s = "CONTEXT_IN_PROGRESS" /\ h \in Finished(t)) BY <1>4
  <2>2. /\ request[h].state = s /\ request[h].out = 0 /\ 0 < request[h].processed
        /\ s \in RequestState
    BY <1>1, <1>3 DEF Counted, SequentialOK, RequestsOK, RequestType
  <2>3. CASE h \in Chunked(t)
    <3>1. s = "CONTEXT_IN_PROGRESS" /\ request[h].processed < ContextLenOf(h)
      BY <1>3, <2>1, <2>2, <2>3 DEF Counted
    <3>2. h \notin Finished(t) BY <1>3, <2>3
    <3> QED BY <2>2, <3>1, <3>2 DEF Followed, Prefilling
  <2>4. CASE h \in Finished(t)
    <3>1. s = "GENERATION_IN_PROGRESS" /\ request[h].processed = ContextLenOf(h)
      BY <1>3, <2>1, <2>2, <2>4 DEF Counted, RequestState
    <3>2. h \notin Chunked(t) BY <1>3, <2>4
    <3> QED BY <2>2, <3>1, <3>2 DEF Followed, Primed
  <2> QED BY <1>3, <2>3, <2>4
<1>10. AdvanceOK(t)'
  <2>1. IsRest(rest, ContextOf(t)) /\ (pc # "advance" => rest = todo) BY <1>3, <1>4
  <2>2. \A o \in Range(Tail(todo)) : Untouched(t, o)' BY <1>3, <1>6
  <2>3. \A o \in Going(t) \ Range(rest) : Followed(t, o)'
    <3>1. \A o \in Going(t) \ Range(rest) : Followed(t, o) BY <1>3, <1>4, <1>9
    <3> QED BY <1>3, <1>6, <3>1
  <2>4. \A o \in Range(active) \ Going(t) : Settled(o)' BY <1>3, <1>6
  <2>5. pc = "set_state" =>
            /\ Head(call'[t].todo) = h
            /\ \/ request'[h].state = "CONTEXT_INIT" /\ target = "CONTEXT_IN_PROGRESS"
               \/ /\ request'[h].state = "CONTEXT_IN_PROGRESS" /\ h \in Finished(t)'
                  /\ target = "GENERATION_IN_PROGRESS"
    BY <1>1, <1>2, <1>4, <1>6, <1>7 DEF Current
  <2>6. Counted(t, h)' BY <1>2, <1>3, <1>6 DEF Counted
  <2>7. pc = "set_state" => Counted(t, Head(call[t].todo))' BY <2>5, <2>6 DEF Counted
  <2>8. pc \in {"advance", "set_state"} BY <1>4
  <2> QED BY <1>3, <1>6, <1>7, <1>8, <2>1, <2>2, <2>3, <2>4, <2>5, <2>7, <2>8 DEF AdvanceOK
<1>11. PhaseOK(t)'
  <2>1. call'[t].pc \in Advancing /\ call'[t].pc \in {"advance", "set_state"} BY <1>5
  <2> QED BY <1>10, <2>1 DEF PhaseOK, Sampling
<1>12. CapOK(t)'
  <2>1. call[t].pc \in Advancing BY <1>2 DEF Advancing
  <2>2. call'[t].batch = call[t].batch /\ call'[t].iters = call[t].iters BY <1>4 DEF Mid
  <2>3. call'[t].pc \notin Sampling /\ call[t].pc \notin Sampling
        /\ call'[t].pc \notin {"schedule", "move", "forward"}
        /\ call[t].pc \notin {"schedule", "move", "forward"}
    BY <1>2, <1>5 DEF Sampling
  <2>4. Moving(t)' <=> Moving(t)
    BY <1>2, <1>5, <1>6, <1>8, <2>1, <2>2, <2>3 DEF Moving
  <2> QED BY <1>2, <1>3, <2>2, <2>4, CapStays
<1>13. RequestsOK' BY <1>2 DEF SequentialOK, RequestsOK, Fresh, Begun, Complete
<1>14. call'[t].pc \in Advancing \cup Sampling \cup {"complete"} BY <1>5
<1> QED BY <1>2, <1>3, <1>4, <1>11, <1>12, <1>13, <1>14, MidKeeps DEF Mid

LEMMA SetStateKeeps ==
    ASSUME FewEmptyPrompts, SequentialOK, NEW t \in Threads, SetState(t)
    PROVE  SequentialOK'
<1>1. PICK h, todo, s : h = Current(t) /\ todo = call[t].todo /\ s = call[t].target OBVIOUS
<1>2. /\ call[t].pc = "set_state"
      /\ UNCHANGED <<counter, waiting, active>>
      /\ request' = [request EXCEPT ![h].state = s]
      /\ call' = [call EXCEPT ![t].pc = "check_state", ![t].target = "CONTEXT_INIT"]
  BY <1>1 DEF SetState, transition_to
<1>3. /\ AdvanceOK(t) /\ InCall(t) /\ RunOK(t) /\ CountedOK(t) /\ CapOK(t)
      /\ Going(t) \subseteq Range(active) /\ Range(active) \subseteq Objects
      /\ Going(t) = Chunked(t) \cup Finished(t) /\ Chunked(t) \cap Finished(t) = {}
      /\ h \in Going(t) /\ h \in Objects /\ h \in Range(active)
      /\ h \notin Range(Tail(todo))
      /\ Range(todo) = Range(Tail(todo)) \cup {h} /\ Range(todo) \subseteq Going(t)
      /\ IsRest(todo, ContextOf(t))
      /\ todo # <<>> /\ Rest(t) = Range(Tail(todo)) /\ Counted(t, h)
      /\ \A o \in Range(Tail(todo)) : Untouched(t, o)
      /\ \A o \in Going(t) \ Range(todo) : Followed(t, o)
      /\ \A o \in Range(active) \ Going(t) : Settled(o)
  <2>1. h = Current(t) /\ todo = call[t].todo /\ call[t].pc \in {"check_state", "set_state"}
    BY <1>1, <1>2
  <2>2. CountedPlace(t, h, todo) BY <2>1, CountedFacts
  <2> QED BY <2>2 DEF CountedPlace
<1>4. \/ s = "CONTEXT_IN_PROGRESS"
      \/ s = "GENERATION_IN_PROGRESS" /\ h \in Finished(t)
  BY <1>1, <1>2, <1>3 DEF AdvanceOK, Current
<1>5. s \in RequestState BY <1>4 DEF RequestState
<1>6. PICK n \in Nat, p \in Nat :
          /\ n = ContextLenOf(h) /\ p = request[h].processed
          /\ request[h].out = 0 /\ 0 < p /\ p <= n
          /\ h \in Chunked(t) => p < n
          /\ h \in Finished(t) => p = n
  <2>1. PICK n \in Nat, p \in Nat : n = ContextLenOf(h) /\ p = request[h].processed
    BY <1>3, ObjectFacts DEF SequentialOK, RequestsOK, RequestType
  <2>2. /\ request[h].out = 0 /\ 0 < p
        /\ h \in Chunked(t) => p < n
        /\ h \in Finished(t) => p = n
    BY <1>3, <2>1 DEF Counted
  <2>3. h \in Chunked(t) \/ h \in Finished(t) BY <1>3
  <2>4. p <= n BY <2>2, <2>3
  <2> QED BY <2>1, <2>2, <2>4
<1>7. Mid(t, "check_state", call[t].seen, call[t].batch, todo, "CONTEXT_INIT",
          call[t].completed_ids)
  <2>1. DOMAIN call = Threads /\ DOMAIN call[t] = CallFields BY DEF SequentialOK, CallShape
  <2>2. call' = [call EXCEPT ![t] = [call[t] EXCEPT !.pc = "check_state",
                                                    !.target = "CONTEXT_INIT"]]
    BY <1>2
  <2>3. [call[t] EXCEPT !.pc = "check_state", !.target = "CONTEXT_INIT"]
            = [call[t] EXCEPT !.pc = "check_state", !.seen = call[t].seen,
                              !.batch = call[t].batch, !.todo = todo, !.target = "CONTEXT_INIT",
                              !.completed_ids = call[t].completed_ids]
    BY <1>1, <2>1 DEF CallFields, NoCall
  <2> QED BY <2>2, <2>3, MidUpdate
<1>8. Updated(h, s, p, 0)
  <2>1. request \in [Objects -> RequestType] BY DEF SequentialOK, RequestsOK
  <2>2. PICK r : r = request[h] /\ r \in RequestType BY <1>3, <2>1
  <2>3. [r EXCEPT !.state = s] = [r EXCEPT !.state = s, !.processed = p, !.out = 0]
    <3>1. r.processed = p /\ r.out = 0 BY <1>6, <2>2
    <3> QED BY <2>2, <3>1 DEF RequestType
  <2>4. request' = [request EXCEPT ![h] = [r EXCEPT !.state = s]] BY <1>2, <2>2
  <2>5. request' = [request EXCEPT ![h] = [request[h] EXCEPT !.state = s, !.processed = p,
                                                             !.out = 0]]
    BY <2>2, <2>3, <2>4
  <2>6. 0 \in Nat OBVIOUS
  <2> QED BY <1>3, <1>5, <2>1, <2>5, <2>6, RequestUpdate
<1>9. /\ request'[h].state = s /\ request'[h].processed = p /\ request'[h].out = 0
      /\ \A o \in Objects \ {h} : request'[o] = request[o]
  BY <1>8 DEF Updated
<1>10. Begun(h)'
  <2>1. MaxTokensOf(h) \in Nat BY <1>3, ObjectFacts
  <2>2. s # "GENERATION_COMPLETE" /\ p <= ContextLenOf(h) /\ 0 < p /\ 0 <= MaxTokensOf(h)
    BY <1>4, <1>6, <2>1
  <2> QED BY <1>9, <2>2 DEF Begun
<1>11. /\ RequestsOK' /\ \A o \in Objects : request'[o].id = request[o].id
       /\ \A o \in Objects : request'[o].chunk = request[o].chunk
  BY <1>3, <1>8, <1>10, Others DEF SequentialOK
<1>12. /\ BatchLists(t)' /\ ContextOf(t)' = ContextOf(t)
       /\ Chunked(t)' = Chunked(t) /\ Finished(t)' = Finished(t) /\ Going(t)' = Going(t)
       /\ \A o \in Objects \ {h} :
             /\ Untouched(t, o) => Untouched(t, o)'
             /\ Followed(t, o) => Followed(t, o)'
             /\ Settled(o) => Settled(o)'
  <2>1. call'[t].batch = call[t].batch /\ active' = active BY <1>2, <1>7 DEF Mid
  <2>2. call[t].pc \in {"forward"} \cup Advancing BY <1>2 DEF Advancing
  <2>3. PICK H : H = {h} OBVIOUS
  <2>4. \A o \in Objects \ H : request'[o] = request[o] BY <1>9, <2>3
  <2>5. \A o \in H : ~Decoding(o) BY <1>6, <2>3 DEF Decoding
  <2> QED BY <2>1, <2>2, <2>3, <2>4, <2>5, BatchNext
<1>13. Rest(t)' = Range(Tail(todo)) BY <1>7 DEF Rest, Mid
<1>14. Counted(t, h)'
  <2>1. h \in Chunked(t) => h \notin Finished(t) BY <1>3
  <2>2. /\ h \in Chunked(t) => p < ContextLenOf(h)
        /\ h \in Finished(t) => p = ContextLenOf(h)
        /\ 0 < p
    BY <1>6
  <2> QED BY <1>4, <1>9, <1>12, <2>1, <2>2 DEF Counted
<1>15. AdvanceOK(t)'
  <2>1. \A o \in Range(Tail(todo)) : o \in Objects \ {h} BY <1>3
  <2>2. \A o \in Range(Tail(todo)) : Untouched(t, o)' BY <1>3, <1>12, <2>1
  <2>3. \A o \in Going(t) \ Range(todo) : Followed(t, o)' BY <1>3, <1>12
  <2>4. \A o \in Range(active) \ Going(t) : Settled(o)' BY <1>3, <1>12
  <2>5. call'[t].todo = todo /\ call'[t].pc = "check_state" /\ active' = active
    BY <1>2, <1>7 DEF Mid
  <2>6. Head(call'[t].todo) = h BY <1>1, <2>5 DEF Current
  <2>7. Counted(t, Head(call[t].todo))' BY <1>14, <2>6 DEF Counted
  <2> QED BY <1>3, <1>12, <1>13, <2>2, <2>3, <2>4, <2>5, <2>7 DEF AdvanceOK
<1>16. PhaseOK(t)' BY <1>7, <1>15 DEF PhaseOK, Mid, Advancing, Sampling
<1>17. CapOK(t)'
  <2>1. call'[t].iters = call[t].iters /\ call'[t].batch = call[t].batch
        /\ call'[t].pc = "check_state"
    BY <1>7 DEF Mid
  <2>2. \A o \in Chunked(t) : request'[o].chunk = request[o].chunk BY <1>3, <1>11
  <2>3. Moving(t)' <=> Moving(t)
    BY <1>2, <1>3, <1>12, <1>13, <2>1, <2>2 DEF Moving, Advancing, Sampling
  <2>4. \A o \in Objects : /\ request'[o].processed = request[o].processed
                           /\ request'[o].out = request[o].out
    BY <1>6, <1>9
  <2> QED BY <1>3, <2>1, <2>3, <2>4, CapStays
<1>18. call'[t].pc \in Advancing \cup Sampling \cup {"complete"} BY <1>7 DEF Mid, Advancing
<1>19. \A o \in Objects : o \notin Range(active) => request'[o] = request[o] BY <1>3, <1>9
<1> QED BY <1>2, <1>3, <1>7, <1>11, <1>16, <1>17, <1>18, <1>19, MidKeeps DEF Mid

LEMMA StartSamplingKeeps ==
    ASSUME FewEmptyPrompts, SequentialOK, NEW t \in Threads, StartSampling(t)
    PROVE  SequentialOK'
<1>1. PICK l, g, sampled : /\ l = call[t].batch.context_last_chunk
                           /\ g = call[t].batch.generation /\ sampled = l \o g
  OBVIOUS
<1>2. /\ call[t].pc = "advance" /\ call[t].todo = <<>>
      /\ UNCHANGED <<counter, waiting, active, request>>
      /\ call' = [call EXCEPT ![t].pc = "sample", ![t].todo = sampled, ![t].batch = <<>>,
                              ![t].completed_ids = <<>>]
  BY <1>1 DEF StartSampling, Sampled, queue_vars
<1>3. call[t].pc \in Advancing BY <1>2 DEF Advancing
<1>4. /\ AdvanceOK(t) /\ InCall(t) /\ RunOK(t) /\ CountedOK(t) /\ CapOK(t) /\ BatchLists(t)
      /\ Going(t) \subseteq Range(active) /\ Range(active) \subseteq Objects
      /\ Going(t) = Chunked(t) \cup Finished(t) /\ Chunked(t) \cap Finished(t) = {}
  BY <1>3, AdvanceFacts
<1>5. /\ Rest(t) = {}
      /\ \A o \in Going(t) : Followed(t, o)
      /\ \A o \in Range(active) \ Going(t) : Settled(o)
  <2>1. Range(call[t].todo) = {} BY <1>2, EmptyRange
  <2>2. Rest(t) = {} BY <1>2, <2>1 DEF Rest
  <2> QED BY <1>4, <2>1, <2>2 DEF AdvanceOK
<1>6. Mid(t, "sample", call[t].seen, <<>>, sampled, call[t].target, <<>>)
  <2>1. DOMAIN call = Threads /\ DOMAIN call[t] = CallFields BY DEF SequentialOK, CallShape
  <2>2. call' = [call EXCEPT ![t] = [call[t] EXCEPT !.pc = "sample", !.todo = sampled,
                                                    !.batch = <<>>, !.completed_ids = <<>>]]
    BY <1>2
  <2>3. [call[t] EXCEPT !.pc = "sample", !.todo = sampled, !.batch = <<>>,
                        !.completed_ids = <<>>]
            = [call[t] EXCEPT !.pc = "sample", !.seen = call[t].seen, !.batch = <<>>,
                              !.todo = sampled, !.target = call[t].target,
                              !.completed_ids = <<>>]
    BY <2>1 DEF CallFields, NoCall
  <2> QED BY <2>2, <2>3, MidUpdate
<1>7. /\ l \in Seq(Objects) /\ IsInjective(l) /\ Range(l) = Finished(t)
      /\ g \in Seq(Objects) /\ IsInjective(g) /\ Range(g) = Generating(t)
      /\ \A o \in Generating(t) : Decoding(o) /\ o \in Range(active)
  BY <1>1, <1>4 DEF BatchLists, Finished, Generating
<1>8. \A o \in Finished(t) : Primed(o) BY <1>4, <1>5 DEF Followed
<1>9. \A o \in Chunked(t) : Settled(o) BY <1>4, <1>5 DEF Followed, Settled
<1>10. Finished(t) \cap Generating(t) = {}
  <2> SUFFICES ASSUME NEW o \in Finished(t), o \in Generating(t) PROVE FALSE OBVIOUS
  <2>1. request[o].out = 0 BY <1>8 DEF Primed
  <2>2. 0 < request[o].out BY <1>7 DEF Decoding
  <2> QED BY <2>1, <2>2
<1>11. /\ sampled \in Seq(Objects) /\ IsInjective(sampled)
       /\ Range(sampled) = Finished(t) \cup Generating(t)
  BY <1>1, <1>7, <1>10, ConcatElements, ConcatProperties
<1>12. /\ call'[t].pc = "sample" /\ call'[t].todo = sampled /\ call'[t].completed_ids = <<>>
       /\ active' = active
  BY <1>2, <1>6 DEF Mid
<1>13. Rest(t)' = Range(sampled) BY <1>12 DEF Rest
<1>14. \A o : /\ Primed(o) <=> Primed(o)'
              /\ Decoding(o) <=> Decoding(o)'
              /\ Settled(o) <=> Settled(o)'
              /\ Complete(o) <=> Complete(o)'
  BY <1>2 DEF Primed, Decoding, Settled, Prefilling, Complete
<1>15. \A o \in Range(active) : ~Complete(o)
  <2> SUFFICES ASSUME NEW o \in Range(active) PROVE ~Complete(o) OBVIOUS
  <2>1. Settled(o) \/ Primed(o) BY <1>4, <1>5, <1>8, <1>9
  <2> QED BY <2>1 DEF Settled, Prefilling, Decoding, Primed, Complete
<1>16. SampleOK(t)'
  <2>1. Range(sampled) \subseteq Range(active) BY <1>4, <1>7, <1>11
  <2>2. \A o \in Range(sampled) : Primed(o)' \/ Decoding(o)' BY <1>7, <1>8, <1>11, <1>14
  <2>3. \A o \in Range(active) \ Range(sampled) : Settled(o)' BY <1>4, <1>5, <1>9, <1>11, <1>14
  <2>4. CompleteIds' = {} BY <1>12, <1>14, <1>15 DEF CompleteIds
  <2>5. <<>> \in Seq(Nat) /\ IsInjective(<<>>) /\ Range(<<>>) = {} BY EmptyRange
  <2> QED BY <1>11, <1>12, <1>13, <2>1, <2>2, <2>3, <2>4, <2>5 DEF SampleOK
<1>17. PhaseOK(t)' BY <1>12, <1>16 DEF PhaseOK, Advancing, Sampling
<1>18. CapOK(t)'
  <2>1. (l # <<>> \/ g # <<>>) <=> Range(sampled) # {}
    <3>1. l # <<>> <=> Range(l) # {} BY <1>7, EmptyList, EmptyRange
    <3>2. g # <<>> <=> Range(g) # {} BY <1>7, EmptyList, EmptyRange
    <3> QED BY <1>7, <1>11, <3>1, <3>2
  <2>2. Moving(t) <=> l # <<>> \/ g # <<>>
    BY <1>1, <1>2, <1>5 DEF Moving, Advancing, Sampling
  <2>3. Moving(t)' <=> Range(sampled) # {}
    BY <1>12, <1>13 DEF Moving, Advancing, Sampling
  <2>4. call'[t].iters = call[t].iters BY <1>6 DEF Mid
  <2>5. Moving(t)' <=> Moving(t) BY <2>1, <2>2, <2>3
  <2> QED BY <1>2, <1>4, <2>4, <2>5, CapStays
<1>19. RequestsOK' BY <1>2 DEF SequentialOK, RequestsOK, Fresh, Begun, Complete
<1>20. call'[t].pc \in Advancing \cup Sampling \cup {"complete"} BY <1>12 DEF Sampling
<1> QED BY <1>2, <1>4, <1>6, <1>17, <1>18, <1>19, <1>20, MidKeeps DEF Mid

(* While tokens are appended.                                               *)
SamplingOf(t, h, todo, ids) ==
    /\ InCall(t) /\ RunOK(t) /\ CountedOK(t) /\ CapOK(t) /\ SampleOK(t)
    /\ Range(active) \subseteq Objects /\ Range(active) \subseteq Own(t)
    /\ \A o \in Range(active) : Sent(o)
    /\ todo \in Seq(Objects) /\ IsInjective(todo) /\ Range(todo) \subseteq Range(active)
    /\ \A o \in Range(active) \ Range(todo) : Settled(o) \/ Complete(o)
    /\ ids \in Seq(Nat) /\ IsInjective(ids) /\ Range(ids) = CompleteIds
    /\ todo # <<>> =>
          /\ h \in Range(todo) /\ h \in Objects /\ h \notin Range(Tail(todo))
          /\ Range(todo) = Range(Tail(todo)) \cup {h}
          /\ Tail(todo) \in Seq(Objects) /\ IsInjective(Tail(todo))

LEMMA SampleFacts ==
    ASSUME SequentialOK, NEW t \in Threads, call[t].pc \in Sampling,
           NEW h, NEW todo, NEW ids,
           h = Current(t), todo = call[t].todo, ids = call[t].completed_ids
    PROVE  SamplingOf(t, h, todo, ids)
<1>1. InCall(t) BY DEF InCall, Sampling
<1>2. RunOK(t) /\ CountedOK(t) /\ CapOK(t) /\ PhaseOK(t) BY <1>1, Owners DEF RunOK, Looping
<1>3. SampleOK(t) BY <1>2 DEF PhaseOK
<1>4. /\ todo \in Seq(Objects) /\ IsInjective(todo) /\ Range(todo) \subseteq Range(active)
      /\ \A o \in Range(active) \ Range(todo) : Settled(o) \/ Complete(o)
      /\ ids \in Seq(Nat) /\ IsInjective(ids) /\ Range(ids) = CompleteIds
  BY <1>3 DEF SampleOK
<1>5. /\ Range(active) \subseteq Objects /\ Range(active) \subseteq Own(t) BY <1>1, Owners
<1>6. \A o \in Range(active) : Sent(o) BY DEF SequentialOK, QueuesOK
<1>7. ASSUME todo # <<>>
      PROVE  /\ h \in Range(todo) /\ h \in Objects /\ h \notin Range(Tail(todo))
             /\ Range(todo) = Range(Tail(todo)) \cup {h}
             /\ Tail(todo) \in Seq(Objects) /\ IsInjective(Tail(todo))
  <2>1. /\ Head(todo) \in Range(todo) /\ Range(todo) = Range(Tail(todo)) \cup {Head(todo)}
        /\ IsInjective(Tail(todo)) /\ Head(todo) \notin Range(Tail(todo))
    BY <1>4, <1>7, TailElements
  <2>2. Tail(todo) \in Seq(Objects) BY <1>4, <1>7, HeadTailProperties
  <2>3. h = Head(todo) BY DEF Current
  <2> QED BY <1>4, <1>5, <2>1, <2>2, <2>3
<1> QED BY <1>1, <1>2, <1>3, <1>4, <1>5, <1>6, <1>7 DEF SamplingOf

LEMMA append_output_tokenKeeps ==
    ASSUME FewEmptyPrompts, SequentialOK, NEW t \in Threads, append_output_token(t)
    PROVE  SequentialOK'
<1>1. PICK h, todo, ids : /\ h = Current(t) /\ todo = call[t].todo
                          /\ ids = call[t].completed_ids
  OBVIOUS
<1>2. /\ call[t].pc = "sample" /\ todo # <<>>
      /\ UNCHANGED <<counter, waiting, active>> /\ Goto(t, "check_remaining")
      /\ request' = [request EXCEPT ![h].out = request[h].out + 1]
  BY <1>1 DEF append_output_token
<1>3. call[t].pc \in Sampling BY <1>2 DEF Sampling
<1>4. /\ InCall(t) /\ RunOK(t) /\ CountedOK(t) /\ CapOK(t) /\ SampleOK(t)
      /\ Range(active) \subseteq Objects /\ Range(active) \subseteq Own(t)
      /\ todo \in Seq(Objects) /\ IsInjective(todo) /\ Range(todo) \subseteq Range(active)
      /\ \A o \in Range(active) \ Range(todo) : Settled(o) \/ Complete(o)
      /\ ids \in Seq(Nat) /\ IsInjective(ids) /\ Range(ids) = CompleteIds
      /\ h \in Range(todo) /\ h \in Objects /\ h \notin Range(Tail(todo))
      /\ Range(todo) = Range(Tail(todo)) \cup {h}
  <2>1. SamplingOf(t, h, todo, ids) BY <1>1, <1>3, SampleFacts
  <2> QED BY <1>2, <2>1 DEF SamplingOf
<1>5. \A o \in Range(todo) : Primed(o) \/ Decoding(o)
  <2>1. Rest(t) = Range(todo) BY <1>1, <1>2 DEF Rest
  <2> QED BY <1>4, <2>1 DEF SampleOK
<1>6. /\ Frame(t) /\ call'[t].pc = "check_remaining" /\ call'[t].todo = todo
      /\ call'[t].completed_ids = ids /\ call'[t].iters = call[t].iters
      /\ call'[t].request_ids = call[t].request_ids /\ call'[t].completed = call[t].completed
  BY <1>1, <1>2, GotoMoves
<1>7. PICK n \in Nat, m \in Nat \ {0}, u \in Nat :
          /\ n = ContextLenOf(h) /\ m = MaxTokensOf(h) /\ u = request[h].out
          /\ request[h].processed = n /\ n > 0 /\ u < m
          /\ request[h].state = "GENERATION_IN_PROGRESS"
  <2>1. PICK n \in Nat, m \in Nat \ {0}, u \in Nat :
            n = ContextLenOf(h) /\ m = MaxTokensOf(h) /\ u = request[h].out
    BY <1>4, ObjectFacts DEF SequentialOK, RequestsOK, RequestType
  <2>2. Primed(h) \/ Decoding(h) BY <1>4, <1>5
  <2>3. /\ request[h].processed = n /\ n > 0 /\ (u = 0 \/ u < m)
        /\ request[h].state = "GENERATION_IN_PROGRESS"
    BY <2>1, <2>2 DEF Primed, Decoding
  <2>4. u < m BY <2>1, <2>3
  <2> QED BY <2>1, <2>3, <2>4
<1>8. PICK v \in Nat : v = u + 1 /\ 0 < v /\ v <= m BY <1>7
<1>9. Updated(h, "GENERATION_IN_PROGRESS", n, v)
  <2>1. request \in [Objects -> RequestType] BY DEF SequentialOK, RequestsOK
  <2>2. PICK r : r = request[h] /\ r \in RequestType BY <1>4, <2>1
  <2>3. [r EXCEPT !.out = v]
            = [r EXCEPT !.state = "GENERATION_IN_PROGRESS", !.processed = n, !.out = v]
    <3>1. r.state = "GENERATION_IN_PROGRESS" /\ r.processed = n BY <1>7, <2>2
    <3> QED BY <2>2, <3>1 DEF RequestType
  <2>4. request' = [request EXCEPT ![h] = [r EXCEPT !.out = v]] BY <1>2, <1>7, <1>8, <2>2
  <2>5. request' = [request EXCEPT ![h] =
            [request[h] EXCEPT !.state = "GENERATION_IN_PROGRESS", !.processed = n, !.out = v]]
    BY <2>2, <2>3, <2>4
  <2>6. "GENERATION_IN_PROGRESS" \in RequestState BY DEF RequestState
  <2> QED BY <1>4, <2>1, <2>5, <2>6, RequestUpdate
<1>10. /\ request'[h].state = "GENERATION_IN_PROGRESS" /\ request'[h].processed = n
       /\ request'[h].out = v /\ \A o \in Objects \ {h} : request'[o] = request[o]
  BY <1>9 DEF Updated
<1>11. Begun(h)' /\ Taken(h)' /\ ~Complete(h)' /\ ~Complete(h)
  BY <1>7, <1>8, <1>10 DEF Begun, Taken, Complete
<1>12. /\ RequestsOK' /\ \A o \in Objects : request'[o].id = request[o].id
       /\ \A o \in Objects \ {h} : SameRequest(o)
  BY <1>4, <1>9, <1>11, Others DEF SequentialOK
<1>13. CompleteIds' = CompleteIds
  <2>1. {q \in Range(active) : Complete(q)'} = {q \in Range(active) : Complete(q)}
    BY <1>4, <1>11, <1>12 DEF SameRequest
  <2>2. \A q \in Range(active) : request'[q].id = request[q].id BY <1>4, <1>12
  <2> QED BY <1>2, <2>1, <2>2 DEF CompleteIds
<1>14. Rest(t)' = Range(Tail(todo)) BY <1>6 DEF Rest
<1>15. SampleOK(t)'
  <2>1. \A o \in Range(Tail(todo)) : Primed(o)' \/ Decoding(o)'
    <3>1. \A o \in Range(Tail(todo)) : o \in Objects \ {h} /\ (Primed(o) \/ Decoding(o))
      BY <1>4, <1>5
    <3> QED BY <1>12, <3>1 DEF SameRequest
  <2>2. \A o \in Range(active) \ Range(todo) : Settled(o)' \/ Complete(o)'
    BY <1>4, <1>12 DEF SameRequest
  <2>3. Head(call'[t].todo) = h BY <1>1, <1>6 DEF Current
  <2>4. Taken(Head(call[t].todo))' BY <1>11, <2>3 DEF Taken
  <2> QED BY <1>2, <1>4, <1>6, <1>13, <1>14, <2>1, <2>2, <2>4 DEF SampleOK
<1>16. PhaseOK(t)' BY <1>6, <1>15 DEF PhaseOK, Advancing, Sampling
<1>17. CapOK(t)'
  <2>1. WorkLeft(h)' + 1 <= WorkLeft(h)
    <3>1. Left(h) = 0 /\ Left(h)' = 0 BY <1>7, <1>10 DEF Left
    <3>2. WorkLeft(h) = m - u /\ WorkLeft(h)' = m - v BY <1>7, <1>10, <3>1 DEF WorkLeft
    <3> QED BY <1>7, <1>8, <3>2
  <2>2. \A o \in Own(t) : WorkLeft(o)' <= WorkLeft(o)
    <3> SUFFICES ASSUME NEW o \in Own(t) PROVE WorkLeft(o)' <= WorkLeft(o)
      OBVIOUS
    <3>1. o \in Objects BY ObjectFacts
    <3>2. WorkLeft(o) \in Nat BY <3>1, WorkFacts DEF SequentialOK
    <3>3. CASE o = h
      <4>1. AllWork' BY <1>12, WorkNext
      <4>2. WorkLeft(h)' \in Nat BY <1>4, <4>1 DEF AllWork
      <4> QED BY <2>1, <3>2, <3>3, <4>2
    <3>4. CASE o # h
      <4>1. WorkLeft(o)' = WorkLeft(o) BY <1>12, <3>1, <3>4 DEF SameRequest
      <4> QED BY <3>2, <4>1
    <3> QED BY <3>3, <3>4
  <2>3. h \in Own(t) BY <1>4
  <2> QED BY <1>4, <1>6, <1>12, <2>1, <2>2, <2>3, CapMoves DEF SequentialOK
<1>18. call'[t].pc \in Advancing \cup Sampling \cup {"complete"} BY <1>6 DEF Sampling
<1>19. \A o \in Objects : o \notin Range(active) => request'[o] = request[o] BY <1>4, <1>10
<1> QED BY <1>2, <1>4, <1>6, <1>12, <1>16, <1>17, <1>18, <1>19, MidKeeps

LEMMA CheckRemainingKeeps ==
    ASSUME FewEmptyPrompts, SequentialOK, NEW t \in Threads, CheckRemaining(t)
    PROVE  SequentialOK'
<1>1. PICK h, todo, ids : /\ h = Current(t) /\ todo = call[t].todo
                          /\ ids = call[t].completed_ids
  OBVIOUS
<1>2. /\ call[t].pc = "check_remaining"
      /\ UNCHANGED <<counter, waiting, active, request>>
      /\ call' = [call EXCEPT ![t] =
            IF request[h].out < MaxTokensOf(h)
            THEN NextSampled(call[t], <<>>)
            ELSE IF request[h].state = "GENERATION_COMPLETE"
            THEN NextSampled(call[t], <<request[h].id>>)
            ELSE [call[t] EXCEPT !.pc = "set_complete", !.target = "GENERATION_COMPLETE"]]
  BY <1>1 DEF CheckRemaining, queue_vars
<1>3. call[t].pc \in Sampling BY <1>2 DEF Sampling
<1>4. SamplingOf(t, h, todo, ids) BY <1>1, <1>3, SampleFacts
<1>5. todo # <<>> /\ Taken(h) /\ Rest(t) = Range(Tail(todo))
      /\ \A o \in Range(Tail(todo)) : Primed(o) \/ Decoding(o)
  <2>1. Rest(t) = Range(Tail(todo)) BY <1>1, <1>2 DEF Rest
  <2>2. SampleOK(t) BY <1>4 DEF SamplingOf
  <2> QED BY <1>1, <1>2, <2>1, <2>2 DEF SampleOK, Current
<1>6. /\ InCall(t) /\ RunOK(t) /\ CountedOK(t) /\ CapOK(t)
      /\ Range(active) \subseteq Objects /\ h \in Objects /\ h \in Range(active)
      /\ todo \in Seq(Objects) /\ IsInjective(todo) /\ Range(todo) \subseteq Range(active)
      /\ Tail(todo) \in Seq(Objects) /\ IsInjective(Tail(todo))
      /\ Range(todo) = Range(Tail(todo)) \cup {h}
      /\ \A o \in Range(active) \ Range(todo) : Settled(o) \/ Complete(o)
      /\ ids \in Seq(Nat) /\ IsInjective(ids) /\ Range(ids) = CompleteIds
  BY <1>4, <1>5 DEF SamplingOf
<1>7. PICK pc, rest, target :
          /\ \/ pc = "sample" /\ rest = Tail(todo) /\ request[h].out < MaxTokensOf(h)
             \/ /\ pc = "set_complete" /\ rest = todo /\ target = "GENERATION_COMPLETE"
                /\ ~(request[h].out < MaxTokensOf(h))
          /\ Mid(t, pc, call[t].seen, call[t].batch, rest, target, ids)
  <2>1. DOMAIN call = Threads /\ DOMAIN call[t] = CallFields BY DEF SequentialOK, CallShape
  <2>2. CASE request[h].out < MaxTokensOf(h)
    <3>1. call' = [call EXCEPT ![t] = NextSampled(call[t], <<>>)] BY <1>2, <2>2
    <3>2. ids \o <<>> = ids BY <1>6, ConcatEmptySeq
    <3>3. NextSampled(call[t], <<>>)
              = [call[t] EXCEPT !.pc = "sample", !.todo = Tail(todo),
                                !.target = "CONTEXT_INIT", !.completed_ids = ids]
      BY <1>1, <3>2 DEF NextSampled
    <3>4. [call[t] EXCEPT !.pc = "sample", !.todo = Tail(todo),
                          !.target = "CONTEXT_INIT", !.completed_ids = ids]
              = [call[t] EXCEPT !.pc = "sample", !.seen = call[t].seen,
                                !.batch = call[t].batch, !.todo = Tail(todo),
                                !.target = "CONTEXT_INIT", !.completed_ids = ids]
      BY <2>1 DEF CallFields, NoCall
    <3>5. Mid(t, "sample", call[t].seen, call[t].batch, Tail(todo), "CONTEXT_INIT", ids)
      BY <3>1, <3>3, <3>4, MidUpdate
    <3> QED BY <2>2, <3>5
  <2>3. CASE ~(request[h].out < MaxTokensOf(h))
    <3>1. request[h].state # "GENERATION_COMPLETE" BY <1>5 DEF Taken
    <3>2. call' = [call EXCEPT ![t] = [call[t] EXCEPT !.pc = "set_complete",
                                                      !.target = "GENERATION_COMPLETE"]]
      BY <1>2, <2>3, <3>1
    <3>3. [call[t] EXCEPT !.pc = "set_complete", !.target = "GENERATION_COMPLETE"]
              = [call[t] EXCEPT !.pc = "set_complete", !.seen = call[t].seen,
                                !.batch = call[t].batch, !.todo = todo,
                                !.target = "GENERATION_COMPLETE", !.completed_ids = ids]
      BY <1>1, <2>1 DEF CallFields, NoCall
    <3>4. Mid(t, "set_complete", call[t].seen, call[t].batch, todo, "GENERATION_COMPLETE", ids)
      BY <3>2, <3>3, MidUpdate
    <3> QED BY <2>3, <3>4
  <2> QED BY <2>2, <2>3
<1>8. /\ call'[t].pc = pc /\ call'[t].todo = rest /\ call'[t].target = target
      /\ call'[t].completed_ids = ids /\ call'[t].iters = call[t].iters /\ active' = active
  BY <1>2, <1>7 DEF Mid
<1>9. Rest(t)' = Rest(t) BY <1>5, <1>7, <1>8 DEF Rest
<1>10. \A o : /\ Primed(o) <=> Primed(o)'
              /\ Decoding(o) <=> Decoding(o)'
              /\ Settled(o) <=> Settled(o)'
              /\ Complete(o) <=> Complete(o)'
  BY <1>2 DEF Primed, Decoding, Settled, Prefilling, Complete
<1>11. SampleOK(t)'
  <2>1. CompleteIds' = CompleteIds BY <1>2, <1>10 DEF CompleteIds
  <2>2. pc = "sample" => Settled(h) BY <1>5, <1>7 DEF Taken, Settled, Decoding
  <2>3. \A o \in Range(active) \ Range(rest) : Settled(o)' \/ Complete(o)'
    <3>1. \A o \in Range(active) \ Range(rest) : Settled(o) \/ Complete(o)
      BY <1>6, <1>7, <2>2
    <3> QED BY <1>10, <3>1
  <2>4. \A o \in Rest(t) : Primed(o)' \/ Decoding(o)' BY <1>5, <1>10
  <2>5. pc # "sample" =>
            /\ rest # <<>> /\ rest = todo /\ Head(call'[t].todo) = h
            /\ target = "GENERATION_COMPLETE" /\ request'[h].out = MaxTokensOf(h)
    <3> SUFFICES ASSUME pc # "sample"
                 PROVE  /\ rest # <<>> /\ rest = todo /\ Head(call'[t].todo) = h
                        /\ target = "GENERATION_COMPLETE" /\ request'[h].out = MaxTokensOf(h)
      OBVIOUS
    <3>1. rest = todo /\ target = "GENERATION_COMPLETE" /\ ~(request[h].out < MaxTokensOf(h))
      BY <1>7
    <3>2. request[h].out <= MaxTokensOf(h) BY <1>5 DEF Taken
    <3>3. request[h].out \in Nat /\ MaxTokensOf(h) \in Nat
      BY <1>6, ObjectFacts DEF SequentialOK, RequestsOK, RequestType
    <3>4. request[h].out = MaxTokensOf(h) BY <3>1, <3>2, <3>3
    <3> QED BY <1>1, <1>2, <1>5, <1>8, <3>1, <3>4 DEF Current
  <2>6. Taken(h)' BY <1>2, <1>5 DEF Taken
  <2>7. pc # "sample" => Taken(Head(call[t].todo))' BY <2>5, <2>6 DEF Taken
  <2>8. /\ rest \in Seq(Objects) /\ IsInjective(rest) /\ Range(rest) \subseteq Range(active)
        /\ pc \in {"sample", "set_complete"}
    BY <1>6, <1>7
  <2>9. pc # "sample" => request'[Head(call'[t].todo)].out = MaxTokensOf(Head(call'[t].todo))
    BY <2>5
  <2> QED
    BY <1>6, <1>8, <1>9, <2>1, <2>3, <2>4, <2>5, <2>7, <2>8, <2>9 DEF SampleOK
<1>12. call'[t].pc \in {"sample", "set_complete"} BY <1>7, <1>8
<1>13. PhaseOK(t)' BY <1>11, <1>12 DEF PhaseOK, Advancing, Sampling
<1>14. CapOK(t)'
  <2>1. Moving(t)' <=> Moving(t) BY <1>2, <1>9, <1>12 DEF Moving, Advancing, Sampling
  <2> QED BY <1>2, <1>6, <1>8, <2>1, CapStays
<1>15. RequestsOK' BY <1>2 DEF SequentialOK, RequestsOK, Fresh, Begun, Complete
<1>16. call'[t].pc \in Advancing \cup Sampling \cup {"complete"} BY <1>12 DEF Sampling
<1> QED BY <1>2, <1>6, <1>7, <1>13, <1>14, <1>15, <1>16, MidKeeps DEF Mid

LEMMA SetCompleteKeeps ==
    ASSUME FewEmptyPrompts, SequentialOK, NEW t \in Threads, SetComplete(t)
    PROVE  SequentialOK'
<1>1. PICK h, todo, ids, id : /\ h = Current(t) /\ todo = call[t].todo
                              /\ ids = call[t].completed_ids /\ id = request[h].id
  OBVIOUS
<1>2. /\ call[t].pc = "set_complete"
      /\ UNCHANGED <<counter, waiting, active>>
      /\ request' = [request EXCEPT ![h].state = call[t].target]
      /\ call' = [call EXCEPT ![t] = NextSampled(call[t], <<id>>)]
  BY <1>1 DEF SetComplete, transition_to
<1>3. call[t].pc \in Sampling BY <1>2 DEF Sampling
<1>4. SamplingOf(t, h, todo, ids) BY <1>1, <1>3, SampleFacts
<1>5. /\ todo # <<>> /\ Taken(h) /\ Rest(t) = Range(Tail(todo))
      /\ \A o \in Range(Tail(todo)) : Primed(o) \/ Decoding(o)
      /\ request[h].out = MaxTokensOf(h) /\ call[t].target = "GENERATION_COMPLETE"
  <2>1. Rest(t) = Range(Tail(todo)) BY <1>1, <1>2 DEF Rest
  <2>2. SampleOK(t) BY <1>4 DEF SamplingOf
  <2> QED BY <1>1, <1>2, <2>1, <2>2 DEF SampleOK, Current
<1>6. /\ InCall(t) /\ RunOK(t) /\ CountedOK(t) /\ CapOK(t)
      /\ Range(active) \subseteq Objects /\ h \in Objects /\ h \in Range(active)
      /\ \A o \in Range(active) : Sent(o)
      /\ todo \in Seq(Objects) /\ Range(todo) \subseteq Range(active)
      /\ Tail(todo) \in Seq(Objects) /\ IsInjective(Tail(todo)) /\ h \notin Range(Tail(todo))
      /\ Range(todo) = Range(Tail(todo)) \cup {h}
      /\ \A o \in Range(active) \ Range(todo) : Settled(o) \/ Complete(o)
      /\ ids \in Seq(Nat) /\ IsInjective(ids) /\ Range(ids) = CompleteIds
  BY <1>4, <1>5 DEF SamplingOf
<1>7. PICK n \in Nat, m \in Nat \ {0} :
          /\ n = ContextLenOf(h) /\ m = MaxTokensOf(h) /\ request[h].out = m
          /\ request[h].processed = n /\ n > 0
          /\ request[h].state = "GENERATION_IN_PROGRESS"
  <2>1. PICK n \in Nat, m \in Nat \ {0} : n = ContextLenOf(h) /\ m = MaxTokensOf(h)
    BY <1>6, ObjectFacts
  <2> QED BY <1>5, <2>1 DEF Taken
<1>8. Updated(h, "GENERATION_COMPLETE", n, m)
  <2>1. request \in [Objects -> RequestType] BY DEF SequentialOK, RequestsOK
  <2>2. PICK r : r = request[h] /\ r \in RequestType BY <1>6, <2>1
  <2>3. [r EXCEPT !.state = "GENERATION_COMPLETE"]
            = [r EXCEPT !.state = "GENERATION_COMPLETE", !.processed = n, !.out = m]
    <3>1. r.processed = n /\ r.out = m BY <1>7, <2>2
    <3> QED BY <2>2, <3>1 DEF RequestType
  <2>4. request' = [request EXCEPT ![h] = [r EXCEPT !.state = "GENERATION_COMPLETE"]]
    BY <1>2, <1>5, <2>2
  <2>5. request' = [request EXCEPT ![h] =
            [request[h] EXCEPT !.state = "GENERATION_COMPLETE", !.processed = n, !.out = m]]
    BY <2>2, <2>3, <2>4
  <2>6. "GENERATION_COMPLETE" \in RequestState BY DEF RequestState
  <2> QED BY <1>6, <2>1, <2>5, <2>6, RequestUpdate
<1>9. /\ request'[h].state = "GENERATION_COMPLETE" /\ request'[h].processed = n
      /\ request'[h].out = m /\ \A o \in Objects \ {h} : request'[o] = request[o]
  BY <1>8 DEF Updated
<1>10. Complete(h)' /\ ~Complete(h) BY <1>7, <1>9 DEF Complete
<1>11. /\ RequestsOK' /\ \A o \in Objects : request'[o].id = request[o].id
       /\ \A o \in Objects \ {h} : SameRequest(o)
  BY <1>6, <1>8, <1>10, Others DEF SequentialOK
<1>12. id \in Nat /\ id \notin Range(ids)
  <2>1. id \in Nat BY <1>1, <1>6 DEF SequentialOK, RequestsOK, RequestType
  <2>2. ASSUME id \in CompleteIds PROVE FALSE
    <3>1. PICK q \in Range(active) : Complete(q) /\ id = request[q].id BY <2>2 DEF CompleteIds
    <3>2. q \in Objects /\ Sent(q) BY <1>6
    <3>3. q = h BY <1>1, <1>6, <3>1, <3>2 DEF SequentialOK, IdsOK
    <3> QED BY <1>10, <3>1, <3>3
  <2> QED BY <1>6, <2>1, <2>2
<1>13. PICK ids2 : ids2 = ids \o <<id>> OBVIOUS
<1>14. ids2 \in Seq(Nat) /\ IsInjective(ids2) /\ Range(ids2) = CompleteIds \cup {id}
  <2>1. <<id>> \in Seq(Nat) /\ Range(<<id>>) = {id} /\ IsInjective(<<id>>)
    <3>1. <<id>> = Append(<<>>, id) OBVIOUS
    <3>2. <<>> \in Seq(Nat) BY EmptySeq
    <3>3. Append(<<>>, id) \in Seq(Nat) BY <1>12, <3>2, AppendProperties
    <3>4. Range(Append(<<>>, id)) = Range(<<>>) \cup {id} /\ IsInjective(Append(<<>>, id))
      BY <1>12, <3>2, EmptyRange, AppendElements
    <3> QED BY <3>1, <3>3, <3>4, EmptyRange
  <2>2. PICK one : one = <<id>> OBVIOUS
  <2>3. one \in Seq(Nat) /\ IsInjective(one) /\ Range(ids) \cap Range(one) = {}
    BY <1>12, <2>1, <2>2
  <2>4. /\ ids \o one \in Seq(Nat) /\ IsInjective(ids \o one)
        /\ Range(ids \o one) = Range(ids) \cup Range(one)
    BY <1>6, <2>3, ConcatElements, ConcatProperties
  <2> QED BY <1>6, <1>13, <2>1, <2>2, <2>4
<1>15. Mid(t, "sample", call[t].seen, call[t].batch, Tail(todo), "CONTEXT_INIT", ids2)
  <2>1. DOMAIN call = Threads /\ DOMAIN call[t] = CallFields BY DEF SequentialOK, CallShape
  <2>2. NextSampled(call[t], <<id>>)
            = [call[t] EXCEPT !.pc = "sample", !.todo = Tail(todo),
                              !.target = "CONTEXT_INIT", !.completed_ids = ids2]
    BY <1>1, <1>13 DEF NextSampled
  <2>3. [call[t] EXCEPT !.pc = "sample", !.todo = Tail(todo),
                        !.target = "CONTEXT_INIT", !.completed_ids = ids2]
            = [call[t] EXCEPT !.pc = "sample", !.seen = call[t].seen, !.batch = call[t].batch,
                              !.todo = Tail(todo), !.target = "CONTEXT_INIT",
                              !.completed_ids = ids2]
    BY <2>1 DEF CallFields, NoCall
  <2> QED BY <1>2, <2>2, <2>3, MidUpdate
<1>16. /\ call'[t].pc = "sample" /\ call'[t].todo = Tail(todo) /\ call'[t].completed_ids = ids2
       /\ call'[t].iters = call[t].iters /\ active' = active
  BY <1>2, <1>15 DEF Mid
<1>17. Rest(t)' = Range(Tail(todo)) BY <1>16 DEF Rest
<1>18. CompleteIds' = CompleteIds \cup {id}
  <2>1. {q \in Range(active) : Complete(q)'} = {q \in Range(active) : Complete(q)} \cup {h}
    BY <1>6, <1>10, <1>11 DEF SameRequest
  <2>2. \A q \in Range(active) : request'[q].id = request[q].id BY <1>6, <1>11
  <2>3. CompleteIds' = {request[q].id : q \in {q \in Range(active) : Complete(q)'}}
    BY <1>2, <2>2 DEF CompleteIds
  <2> QED BY <1>1, <2>1, <2>3 DEF CompleteIds
<1>19. SampleOK(t)'
  <2>1. \A o \in Range(Tail(todo)) : Primed(o)' \/ Decoding(o)'
    <3>1. \A o \in Range(Tail(todo)) : o \in Objects \ {h} BY <1>6
    <3> QED BY <1>5, <1>11, <3>1 DEF SameRequest
  <2>2. \A o \in Range(active) \ Range(Tail(todo)) : Settled(o)' \/ Complete(o)'
    <3> SUFFICES ASSUME NEW o \in Range(active) \ Range(Tail(todo))
                 PROVE  Settled(o)' \/ Complete(o)'
      OBVIOUS
    <3>1. CASE o = h BY <1>10, <3>1
    <3>2. CASE o # h BY <1>6, <1>11, <3>2 DEF SameRequest
    <3> QED BY <3>1, <3>2
  <2>3. Range(Tail(todo)) \subseteq Range(active) BY <1>6
  <2> QED BY <1>6, <1>14, <1>16, <1>17, <1>18, <2>1, <2>2, <2>3 DEF SampleOK
<1>20. PhaseOK(t)' BY <1>16, <1>19 DEF PhaseOK, Advancing, Sampling
<1>21. CapOK(t)'
  <2>1. Rest(t)' = Rest(t) BY <1>5, <1>17
  <2>2. Moving(t)' <=> Moving(t) BY <1>2, <1>16, <2>1 DEF Moving, Advancing, Sampling
  <2>3. \A o \in Objects : /\ request'[o].processed = request[o].processed
                           /\ request'[o].out = request[o].out
    BY <1>7, <1>9
  <2> QED BY <1>6, <1>16, <2>2, <2>3, CapStays
<1>22. call'[t].pc \in Advancing \cup Sampling \cup {"complete"} BY <1>16 DEF Sampling
<1>23. \A o \in Objects : o \notin Range(active) => request'[o] = request[o] BY <1>6, <1>9
<1> QED BY <1>2, <1>6, <1>11, <1>15, <1>20, <1>21, <1>22, <1>23, MidKeeps DEF Mid

LEMMA EndSamplingKeeps ==
    ASSUME FewEmptyPrompts, SequentialOK, NEW t \in Threads, EndSampling(t)
    PROVE  SequentialOK'
<1>1. PICK h, todo, ids : /\ h = Current(t) /\ todo = call[t].todo
                          /\ ids = call[t].completed_ids
  OBVIOUS
<1>2. /\ call[t].pc = "sample" /\ todo = <<>>
      /\ UNCHANGED <<counter, waiting, active, request>> /\ Goto(t, "complete")
  BY <1>1 DEF EndSampling, queue_vars
<1>3. call[t].pc \in Sampling BY <1>2 DEF Sampling
<1>4. /\ InCall(t) /\ RunOK(t) /\ CountedOK(t) /\ CapOK(t)
      /\ \A o \in Range(active) \ Range(todo) : Settled(o) \/ Complete(o)
      /\ ids \in Seq(Nat) /\ IsInjective(ids) /\ Range(ids) = CompleteIds
  <2>1. SamplingOf(t, h, todo, ids) BY <1>1, <1>3, SampleFacts
  <2> QED BY <2>1 DEF SamplingOf
<1>5. Range(todo) = {} BY <1>2, EmptyRange
<1>6. /\ Frame(t) /\ call'[t].pc = "complete" /\ call'[t].completed_ids = ids
      /\ call'[t].iters = call[t].iters /\ call'[t].request_ids = call[t].request_ids
      /\ call'[t].completed = call[t].completed
  BY <1>1, <1>2, GotoMoves
<1>7. PhaseOK(t)'
  <2>1. \A o \in Range(active) : Settled(o)' \/ Complete(o)'
    BY <1>2, <1>4, <1>5 DEF Settled, Prefilling, Decoding, Complete
  <2>2. CompleteIds' = CompleteIds BY <1>2 DEF CompleteIds, Complete
  <2> QED BY <1>2, <1>4, <1>6, <2>1, <2>2 DEF PhaseOK, Advancing, Sampling
<1>8. CapOK(t)'
  <2>1. Rest(t) = {} BY <1>1, <1>2, <1>5 DEF Rest
  <2>2. Moving(t)' <=> Moving(t) BY <1>2, <1>6, <2>1 DEF Moving, Advancing, Sampling
  <2> QED BY <1>2, <1>4, <1>6, <2>2, CapStays
<1>9. RequestsOK' BY <1>2 DEF SequentialOK, RequestsOK, Fresh, Begun, Complete
<1> QED BY <1>2, <1>4, <1>6, <1>7, <1>8, <1>9, MidKeeps

(* A state is never asked for twice.                                        *)
LEMMA NoTransitionRaises ==
    ASSUME SequentialOK, NEW t \in Threads
    PROVE  ~TransitionRaises(t)
<1> SUFFICES ASSUME TransitionRaises(t) PROVE FALSE OBVIOUS
<1>1. PICK h, todo, ids, s, target :
          /\ h = Current(t) /\ todo = call[t].todo /\ ids = call[t].completed_ids
          /\ s = request[h].state /\ target = call[t].target
          /\ call[t].pc \in {"set_state", "set_complete"}
          /\ target \notin VALID_TRANSITIONS(s)
  BY DEF TransitionRaises
<1>2. CASE call[t].pc = "set_state"
  <2>1. AdvanceOK(t)
    <3>1. h = Current(t) /\ todo = call[t].todo /\ call[t].pc \in {"check_state", "set_state"}
      BY <1>1, <1>2
    <3>2. CountedPlace(t, h, todo) BY <3>1, CountedFacts
    <3> QED BY <3>2 DEF CountedPlace
  <2>2. \/ s = "CONTEXT_INIT" /\ target = "CONTEXT_IN_PROGRESS"
        \/ s = "CONTEXT_IN_PROGRESS" /\ target = "GENERATION_IN_PROGRESS"
    BY <1>1, <1>2, <2>1 DEF AdvanceOK, Current
  <2> QED BY <1>1, <2>2 DEF VALID_TRANSITIONS
<1>3. CASE call[t].pc = "set_complete"
  <2>1. SamplingOf(t, h, todo, ids)
    <3>1. call[t].pc \in Sampling BY <1>3 DEF Sampling
    <3> QED BY <1>1, <3>1, SampleFacts
  <2>2. SampleOK(t) BY <2>1 DEF SamplingOf
  <2>3. Taken(h) /\ target = "GENERATION_COMPLETE"
    BY <1>1, <1>3, <2>2 DEF SampleOK, Current
  <2>4. s = "GENERATION_IN_PROGRESS" BY <1>1, <2>3 DEF Taken
  <2> QED BY <1>1, <2>3, <2>4 DEF VALID_TRANSITIONS
<1> QED BY <1>1, <1>2, <1>3

-----------------------------------------------------------------------------
(* The theorem.                                                             *)

LEMMA InitSeqInv == Init => SeqInv
<1> SUFFICES ASSUME Init PROVE SequentialOK BY DEF SeqInv
<1>1. /\ counter = 0 /\ call = [t \in Threads |-> NoCall]
      /\ waiting = <<>> /\ active = <<>> /\ request = [o \in Objects |-> NewRequest]
  BY DEF Init, GenerateInit
<1>2. CallShape BY <1>1 DEF CallShape, CallFields
<1>3. \A o \in Objects : request[o] = NewRequest BY <1>1
<1>4. \A o \in Objects : Fresh(o) /\ ~Sent(o) BY <1>3 DEF Fresh, Sent, NewRequest
<1>5. RequestsOK
  <2>1. NewRequest \in RequestType BY DEF NewRequest, RequestType, RequestState
  <2>2. request \in [Objects -> RequestType] BY <1>1, <2>1
  <2> QED BY <1>4, <2>2 DEF RequestsOK
<1>6. IdsOK BY <1>1, <1>3, <1>4 DEF IdsOK, NewRequest
<1>7. QueuesOK BY <1>1, EmptyRange DEF QueuesOK
<1>8. \A t \in Threads : call[t] = NoCall /\ call[t].pc = "idle" /\ ~InCall(t)
  BY <1>1 DEF NoCall, InCall
<1>9. \A t \in Threads : \A o \in Own(t) : o \in Objects BY ObjectFacts
<1>10. Alone /\ \A t \in Threads : QuietOK(t) BY <1>4, <1>8, <1>9 DEF Alone, QuietOK
<1> QED BY <1>2, <1>5, <1>6, <1>7, <1>8, <1>10 DEF SequentialOK

LEMMA UnchangedKeeps ==
    ASSUME SequentialOK, UNCHANGED generate_vars
    PROVE  SequentialOK'
<1>1. UNCHANGED <<counter, call, waiting, active, request>> BY DEF generate_vars
<1>2. \A o : /\ Sent(o)' = Sent(o) /\ Fresh(o)' = Fresh(o) /\ Prefilling(o)' = Prefilling(o)
             /\ Decoding(o)' = Decoding(o) /\ Complete(o)' = Complete(o)
             /\ OutputOf(o)' = OutputOf(o) /\ Left(o)' = Left(o)
             /\ Begun(o)' = Begun(o) /\ Settled(o)' = Settled(o) /\ Primed(o)' = Primed(o)
             /\ Taken(o)' = Taken(o)
  BY <1>1 DEF Sent, Fresh, Prefilling, Decoding, Complete, OutputOf, Left, Begun, Settled,
              Primed, Taken
<1>3. \A t : InCall(t)' = InCall(t) BY <1>1 DEF InCall
<1>4. CallShape' /\ Alone' BY <1>1, <1>3 DEF SequentialOK, CallShape, Alone
<1>5. RequestsOK' BY <1>1, <1>2 DEF SequentialOK, RequestsOK
<1>6. IdsOK' BY <1>1 DEF SequentialOK, IdsOK, Sent
<1>7. QueuesOK' BY <1>1, <1>2, <1>3 DEF SequentialOK, QueuesOK
<1>8. ASSUME NEW t \in Threads, InCall(t) PROVE RunOK(t)'
  <2>1. RunOK(t) BY <1>8 DEF SequentialOK
  <2>2. EnqueuedOK(t)' BY <1>1, <2>1, EnqueuedStays DEF RunOK
  <2>3. BeforeOK(t) => BeforeOK(t)' BY <1>1 DEF BeforeOK
  <2>4. CountedOK(t) => CountedOK(t)' BY <1>1, <2>1, CountedStays
  <2>5. /\ Chunked(t)' = Chunked(t) /\ Finished(t)' = Finished(t)
        /\ Generating(t)' = Generating(t) /\ Going(t)' = Going(t)
        /\ ContextOf(t)' = ContextOf(t) /\ Rest(t)' = Rest(t)
    BY <1>1 DEF Chunked, Finished, Generating, Going, ContextOf, Rest
  <2>6. \A o : /\ Untouched(t, o)' = Untouched(t, o) /\ Counted(t, o)' = Counted(t, o)
               /\ Followed(t, o)' = Followed(t, o)
    BY <1>1, <1>2, <2>5 DEF Untouched, Counted, Followed
  <2>7. Delivered(t)' = Delivered(t) /\ CompleteIds' = CompleteIds
    BY <1>1, <1>2 DEF Delivered, CompleteIds
  <2>8. BatchLists(t)' = BatchLists(t) BY <1>1, <1>2, <2>5 DEF BatchLists
  <2>9. BatchOK(t)' = BatchOK(t) /\ BatchMoves(t)' = BatchMoves(t)
    BY <1>1, <2>5, <2>6, <2>8 DEF BatchOK, BatchMoves
  <2>10. AdvanceOK(t) => AdvanceOK(t)'
    <3>1. PICK x : x = Head(call[t].todo) OBVIOUS
    <3>2. Counted(t, Head(call[t].todo)) => Counted(t, Head(call[t].todo))'
      BY <1>1, <2>5 DEF Counted
    <3> QED BY <1>1, <1>2, <2>5, <2>6, <2>8, <3>2 DEF AdvanceOK
  <2>11. SampleOK(t) => SampleOK(t)'
    <3>1. Taken(Head(call[t].todo)) => Taken(Head(call[t].todo))' BY <1>1 DEF Taken
    <3> QED BY <1>1, <1>2, <2>5, <2>7, <3>1 DEF SampleOK
  <2>12. Moving(t)' = Moving(t) BY <1>1, <2>5 DEF Moving
  <2>13. CapOK(t) => CapOK(t)'
    <3>1. WorkOf(t)' = WorkOf(t) BY <1>1 DEF WorkOf, WorkLeft, Left
    <3> QED BY <1>1, <2>12, <3>1 DEF CapOK
  <2>14. PhaseOK(t) => PhaseOK(t)'
    BY <1>1, <1>2, <2>5, <2>7, <2>9, <2>10, <2>11 DEF PhaseOK
  <2> QED BY <1>1, <2>1, <2>2, <2>3, <2>4, <2>13, <2>14 DEF RunOK
<1>9. ASSUME NEW t \in Threads, ~InCall(t) PROVE QuietOK(t)'
  <2>1. QuietOK(t) BY <1>9 DEF SequentialOK
  <2> QED BY <1>1, <1>2, <2>1 DEF QuietOK, Exact
<1> QED BY <1>3, <1>4, <1>5, <1>6, <1>7, <1>8, <1>9 DEF SequentialOK

LEMMA NextSeqInv ==
    ASSUME FewEmptyPrompts, BatchFits, CapSuffices, SeqInv, [Next]_vars
    PROVE  SeqInv'
<1> SUFFICES ASSUME ~overlapped' PROVE SequentialOK' BY DEF SeqInv
<1>1. CASE UNCHANGED vars
  <2>1. overlapped' = overlapped /\ UNCHANGED generate_vars BY <1>1 DEF vars, generate_vars
  <2> QED BY <2>1, UnchangedKeeps DEF SeqInv
<1>2. ASSUME NEW t \in Threads, UNCHANGED generate_vars PROVE SequentialOK'
  <2>1. overlapped' = overlapped BY <1>2 DEF generate_vars
  <2> QED BY <1>2, <2>1, UnchangedKeeps DEF SeqInv
<1>3. ASSUME NEW t \in Threads, generate(t) PROVE SequentialOK'
  <2>1. ~overlapped BY <1>3 DEF generate
  <2> QED BY <1>3, <2>1, generateKeeps DEF SeqInv
<1>4. ASSUME NEW t \in Threads, GenerateStep(t) PROVE SequentialOK'
  <2>1. overlapped' = overlapped
    BY <1>4 DEF GenerateStep, AcquireInitLock, Load, LoadRaises, ReadCounter, WriteCounter,
                enqueue_request, StartLoop, TakeSnapshot, Schedule, Move, Forward, ForwardRaises,
                ReadProcessed, WriteProcessed, CheckState, SetState, TransitionRaises, Raise,
                StartSampling, append_output_token, CheckRemaining, SetComplete, EndSampling,
                CompleteNext, EndIteration, BuildResults
  <2>2. SequentialOK BY <2>1 DEF SeqInv
  <2>3. ~ForwardRaises(t) /\ ~TransitionRaises(t)
    BY <2>2, NoMismatch, NoTransitionRaises DEF ForwardRaises
  <2>4. CASE AcquireInitLock(t) \/ Load(t) \/ LoadRaises(t) BY <2>2, <2>4, initKeeps
  <2>5. CASE ReadCounter(t) BY <2>2, <2>5, ReadCounterKeeps
  <2>6. CASE WriteCounter(t) BY <2>2, <2>6, WriteCounterKeeps
  <2>7. CASE enqueue_request(t) BY <2>2, <2>7, enqueue_requestKeeps
  <2>8. CASE StartLoop(t) BY <2>2, <2>8, StartLoopKeeps
  <2>9. CASE TakeSnapshot(t) BY <2>2, <2>9, TakeSnapshotKeeps
  <2>10. CASE Move(t) BY <2>2, <2>10, MoveKeeps
  <2>11. CASE CompleteNext(t) BY <2>2, <2>11, CompleteNextKeeps
  <2>12. CASE EndIteration(t) BY <2>2, <2>12, EndIterationKeeps
  <2>13. CASE BuildResults(t) BY <2>2, <2>13, BuildResultsKeeps
  <2>14. CASE Forward(t) BY <2>2, <2>14, ForwardKeeps
  <2>15. CASE Schedule(t) BY <2>2, <2>15, ScheduleKeeps
  <2>16. CASE ReadProcessed(t) BY <2>2, <2>16, ReadProcessedKeeps
  <2>17. CASE WriteProcessed(t) BY <2>2, <2>17, WriteProcessedKeeps
  <2>18. CASE CheckState(t) BY <2>2, <2>18, CheckStateKeeps
  <2>19. CASE SetState(t) BY <2>2, <2>19, SetStateKeeps
  <2>20. CASE StartSampling(t) BY <2>2, <2>20, StartSamplingKeeps
  <2>21. CASE append_output_token(t) BY <2>2, <2>21, append_output_tokenKeeps
  <2>22. CASE CheckRemaining(t) BY <2>2, <2>22, CheckRemainingKeeps
  <2>23. CASE SetComplete(t) BY <2>2, <2>23, SetCompleteKeeps
  <2>24. CASE EndSampling(t) BY <2>2, <2>24, EndSamplingKeeps
  <2> QED
    BY <1>4, <2>3, <2>4, <2>5, <2>6, <2>7, <2>8, <2>9, <2>10, <2>11, <2>12, <2>13, <2>14, <2>15,
       <2>16, <2>17, <2>18, <2>19, <2>20, <2>21, <2>22, <2>23, <2>24
       DEF GenerateStep
<1>5. CASE Next
  <2>1. PICK t \in Threads : Reject(t) \/ chat_completions(t) \/ Work(t) BY <1>5 DEF Next
  <2>2. CASE Reject(t) BY <1>2, <2>2 DEF Reject
  <2>3. CASE chat_completions(t) BY <1>3, <2>3 DEF chat_completions
  <2>4. CASE Work(t)
    <3>1. GenerateStep(t) \/ UNCHANGED generate_vars
      BY <2>4 DEF Work, Answer, SendContent, SendFinish, SendDone
    <3> QED BY <1>2, <1>4, <3>1
  <2> QED BY <2>1, <2>2, <2>3, <2>4
<1> QED BY <1>1, <1>5

(* Calls that do not overlap return the complete output of each of their    *)
(* prompts, in their order (llm.py:198-210), as long as the prompts that    *)
(* never leave _waiting leave a place in the batch, a full batch fits the   *)
(* blocks, and the cap covers the share of the budget that every prompt     *)
(* gets.                                                                    *)
THEOREM SequentialCallsAreExact ==
    ASSUME FewEmptyPrompts, BatchFits, CapSuffices
    PROVE  Spec => []SequentialExact
<1>1. Init => SeqInv BY InitSeqInv
<1>2. SeqInv /\ [Next]_vars => SeqInv' BY NextSeqInv
<1>3. SeqInv => SequentialExact
  <2> SUFFICES ASSUME SeqInv, ~overlapped, NEW t \in Threads, call[t].pc = "returned"
               PROVE  Exact(t)
    BY DEF SequentialExact
  <2>1. SequentialOK /\ ~InCall(t) BY DEF SeqInv, InCall
  <2> QED BY <2>1 DEF SequentialOK, QuietOK
<1> QED BY <1>1, <1>2, <1>3, PTL DEF Spec

=============================================================================
