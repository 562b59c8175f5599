--------------------------- MODULE ResponseManager ---------------------------
(***************************************************************************)
(* ResponseManager of engine/executor.py: the executor thread notifies     *)
(* outputs, client threads wait for them on a threading.Condition for each *)
(* request.  All conditions share one lock; every method body is one step  *)
(* under it, cut in two where await_response waits on the condition and    *)
(* gives the lock up.                                                      *)
(***************************************************************************)
EXTENDS Naturals, Sequences

CONSTANTS
    Ids,               \* request ids
    Threads,           \* client threads
    Interest,          \* the ids each thread waits for
    MaxOutputs,        \* bound: outputs notified for a registration
    MaxRegistrations   \* bound: calls of register for an id

ASSUME ResponseAssumption ==
    /\ Interest \in [Threads -> SUBSET Ids]
    /\ MaxOutputs \in Nat /\ MaxRegistrations \in Nat

VARIABLES
    condition,      \* _conditions: the number of the condition object, 0 if none
    registrations,  \* the conditions made so far for each id
    queue,          \* _responses
    sent,           \* history: outputs notified since the registration
    taken,          \* history: outputs popped since the registration
    thread          \* what each client thread does

response_vars == <<condition, registrations, queue, sent, taken, thread>>

Returned(v) == [at |-> "returned", id |-> "none", on |-> 0, value |-> v]

Waiting(i) == [at |-> "waiting", id |-> i, on |-> condition[i], value |-> 0]

ResponseInit ==
    /\ condition = [i \in Ids |-> 0]
    /\ registrations = [i \in Ids |-> 0]
    /\ queue = [i \in Ids |-> <<>>]
    /\ sent = [i \in Ids |-> 0]
    /\ taken = [i \in Ids |-> <<>>]
    /\ thread = [t \in Threads |-> Returned(0)]

registered(i) == condition[i] # 0

-----------------------------------------------------------------------------
(* A new condition and an empty list, also for an id that has them.         *)
register(i) ==
    /\ registrations[i] < MaxRegistrations
    /\ registrations' = [registrations EXCEPT ![i] = @ + 1]
    /\ condition' = [condition EXCEPT ![i] = registrations[i] + 1]
    /\ queue' = [queue EXCEPT ![i] = <<>>]
    /\ sent' = [sent EXCEPT ![i] = 0]
    /\ taken' = [taken EXCEPT ![i] = <<>>]
    /\ UNCHANGED thread

WaitsOn(t, i) == thread[t].at = "waiting" /\ thread[t].on = condition[i] /\ thread[t].id = i

(* notify_all wakes every thread that waits on the condition of i; an id    *)
(* that is not registered is ignored.                                       *)
WakeNone(i) == thread   \* mutant: nobody is notified
WakeAll(i) == [t \in Threads |->
    IF WaitsOn(t, i) THEN [thread[t] EXCEPT !.at = "awake"] ELSE thread[t]]

PushPrevious(i) == Append(queue[i], sent[i])    \* mutant: the output before
PushFront(i) == <<sent[i] + 1>> \o queue[i]     \* mutant: the newest comes first
Push(i) == Append(queue[i], sent[i] + 1)

notify(i) ==
    /\ registered(i)
    /\ sent[i] < MaxOutputs
    /\ queue' = [queue EXCEPT ![i] = Push(i)]
    /\ sent' = [sent EXCEPT ![i] = @ + 1]
    /\ thread' = WakeAll(i)
    /\ UNCHANGED <<condition, registrations, taken>>

cleanup(i) ==
    /\ registered(i)
    /\ condition' = [condition EXCEPT ![i] = 0]
    /\ queue' = [queue EXCEPT ![i] = <<>>]
    /\ sent' = [sent EXCEPT ![i] = 0]
    /\ taken' = [taken EXCEPT ![i] = <<>>]
    /\ UNCHANGED <<registrations, thread>>

-----------------------------------------------------------------------------
(* responses.pop(0) and return it.                                          *)
Take(t, i) ==
    /\ thread' = [thread EXCEPT ![t] = Returned(Head(queue[i]))]
    /\ queue' = [queue EXCEPT ![i] = Tail(@)]
    /\ taken' = [taken EXCEPT ![i] = Append(@, Head(queue[i]))]
    /\ UNCHANGED <<condition, registrations, sent>>

(* await_response(i) is called: it returns at once or begins to wait.       *)
await_response(t, i) ==
    /\ thread[t].at = "returned"
    /\ IF queue[i] # <<>>
       THEN Take(t, i)
       ELSE /\ thread' = [thread EXCEPT ![t] = IF registered(i) THEN Waiting(i)
                                                ELSE Returned(0)]
            /\ UNCHANGED <<condition, registrations, queue, sent, taken>>

(* The timeout of cond.wait: the thread will take the lock again.           *)
Timeout(t) ==
    /\ thread[t].at = "waiting"
    /\ thread' = [thread EXCEPT ![t].at = "awake"]
    /\ UNCHANGED <<condition, registrations, queue, sent, taken>>

(* Awake and with the lock again: one look at the list, no second wait.     *)
FinishWait(t) ==
    /\ thread[t].at = "awake"
    /\ LET i == thread[t].id IN
       IF queue[i] # <<>>
       THEN Take(t, i)
       ELSE /\ thread' = [thread EXCEPT ![t].at = "returned", ![t].value = 0]
            /\ UNCHANGED <<condition, registrations, queue, sent, taken>>

-----------------------------------------------------------------------------
Client(t) ==
    \/ \E i \in Interest[t] : await_response(t, i)
    \/ FinishWait(t)

ResponseNext ==
    \/ \E i \in Ids : register(i)
    \/ \E i \in Ids : notify(i)
    \/ \E i \in Ids : cleanup(i)
    \/ \E t \in Threads : Client(t)
    \/ \E t \in Threads : Timeout(t)

ResponseSpec == ResponseInit /\ [][ResponseNext]_response_vars

(* A thread that was woken gets the lock in the end.                        *)
FairResponseSpec == ResponseSpec /\ \A t \in Threads : WF_response_vars(FinishWait(t))

-----------------------------------------------------------------------------
(* Properties.                                                             *)

(* Type invariant of the manager and its clients.                           *)
ResponseTypeOK ==
    /\ condition \in [Ids -> 0 .. MaxRegistrations]
    /\ registrations \in [Ids -> 0 .. MaxRegistrations]
    /\ queue \in [Ids -> Seq(1 .. MaxOutputs)]
    /\ sent \in [Ids -> 0 .. MaxOutputs]
    /\ taken \in [Ids -> Seq(1 .. MaxOutputs)]
    /\ thread \in [Threads -> [at : {"returned", "waiting", "awake"}, id : Ids \cup {"none"},
                               on : 0 .. MaxRegistrations, value : 0 .. MaxOutputs]]

(* Since the registration each output was popped once, in order, or is      *)
(* still in the list: none is lost, doubled or overtaken, whichever threads *)
(* took them and however they raced.                                        *)
ExactlyOnceInOrder ==
    \A i \in Ids : taken[i] \o queue[i] = [n \in 1 .. sent[i] |-> n]

(* No lost wakeup: nobody sleeps on the condition of a request that has a   *)
(* response (tests/test_executor.py:344).                                   *)
NoLostWakeup ==
    \A t \in Threads, i \in Ids : WaitsOn(t, i) => queue[i] = <<>>

(* A thread that waits for a request with a response in its list returns:   *)
(* it was woken and is not put back to sleep.                               *)
WaitersServed ==
    \A t \in Threads, i \in Ids :
        /\ thread[t].at # "returned" /\ thread[t].id = i
        /\ thread[t].on = condition[i] /\ queue[i] # <<>>
        ~> thread[t].at = "returned"

=============================================================================
