----------------------------- MODULE ChatServer -----------------------------
(***************************************************************************)
(* The chat endpoint of the server (serve/server.py) on top of             *)
(* GenerateService.  A request is validated, generate() runs in the thread *)
(* pool, and the answer is one completion or a stream of chunks.  The      *)
(* threads that are no handlers call LLM.generate directly.  Text is its   *)
(* length, a chunk of it the range of its characters.                      *)
(***************************************************************************)
EXTENDS GenerateService

CONSTANTS
    Messages,    \* the role lists that each handler's request may have
    Streaming,   \* the handlers whose request sets stream
    TextLens     \* bound: lengths of the text of a completed output

Handlers == DOMAIN Messages

(* A prompt has a line for each message and one for the answer; a line is   *)
(* at least one token.                                                      *)
_format_messages(roles) == Len(roles) + 1

KnownRoles(roles) ==
    \A i \in DOMAIN roles : roles[i] \in {"system", "user", "assistant"}

ASSUME ChatAssumption ==
    /\ Handlers \subseteq Threads /\ Streaming \subseteq Handlers
    /\ TextLens \subseteq Nat
    /\ \A t \in Handlers : \A roles \in Messages[t] : Prompts[t] = <<_format_messages(roles)>>

VARIABLE http   \* per thread: phase of the handler, text length, position, events sent

vars == <<generate_vars, http>>

Init ==
    /\ GenerateInit
    /\ http = [t \in Threads |-> [phase |-> "new", len |-> 0, at |-> 0, sent |-> <<>>]]

Send(t, event, phase) ==
    http' = [http EXCEPT ![t].sent = Append(@, event), ![t].phase = phase]

Piece(from, to) == [kind |-> "content", from |-> from, to |-> to]
Event(k) == [kind |-> k, from |-> 0, to |-> 0]

-----------------------------------------------------------------------------
(* A role that _format_messages does not know is answered with 422.         *)
Reject(t) ==
    /\ http[t].phase = "new"
    /\ t \in Handlers
    /\ \E roles \in Messages[t] : ~KnownRoles(roles)
    /\ Send(t, Event("422"), "over")
    /\ UNCHANGED generate_vars

chat_completions(t) ==
    /\ http[t].phase = "new"
    /\ t \in Handlers => \E roles \in Messages[t] : KnownRoles(roles)
    /\ generate(t)
    /\ http' = [http EXCEPT ![t].phase = "generate"]

(* generate() has returned, or raised: answered with 500, but a stream that *)
(* has begun just breaks off.                                               *)
Answer(t) ==
    /\ http[t].phase = "generate"
    /\ t \in Handlers
    /\ \/ /\ call[t].pc = "raised"
          /\ t \notin Streaming
          /\ Send(t, Event("500"), "over")
       \/ /\ call[t].pc = "raised"
          /\ t \in Streaming
          /\ http' = [http EXCEPT ![t].phase = "over"]
       \/ /\ call[t].pc = "returned"
          /\ t \notin Streaming
          /\ Send(t, Event("completion"), "over")
       \/ /\ call[t].pc = "returned"
          /\ t \in Streaming
          /\ \E n \in TextLens :
                http' = [http EXCEPT
                    ![t].phase = "content",
                    ![t].len = IF call[t].results[1].tokens = 0 THEN 0 ELSE n,
                    ![t].sent = Append(@, Event("role"))]
    /\ UNCHANGED generate_vars

(* for i in range(0, max(1, len(text)), chunk_size)                         *)
chunk_size(t) == IF http[t].len > 0 THEN AtLeast(1, http[t].len \div 5) ELSE 1

WholeChunks(t) == http[t].at + chunk_size(t) <= http[t].len   \* mutant: the rest is cut off
MoreText(t) == http[t].at < AtLeast(1, http[t].len)

SendContent(t) ==
    /\ http[t].phase = "content"
    /\ LET at == http[t].at
           end == AtMost(at + chunk_size(t), http[t].len)
       IN  IF MoreText(t) /\ at < end
           THEN http' = [http EXCEPT ![t].sent = Append(@, Piece(at, end)),
                                     ![t].at = at + chunk_size(t)]
           ELSE http' = [http EXCEPT ![t].phase = "finish"]
    /\ UNCHANGED generate_vars

SendFinish(t) ==
    /\ http[t].phase = "finish"
    /\ Send(t, Event("finish"), "done")
    /\ UNCHANGED generate_vars

SendDone(t) ==
    /\ http[t].phase = "done"
    /\ Send(t, Event("[DONE]"), "over")
    /\ UNCHANGED generate_vars

Work(t) ==
    \/ Answer(t)
    \/ SendContent(t)
    \/ SendFinish(t)
    \/ SendDone(t)
    \/ GenerateStep(t) /\ UNCHANGED http

Next == \E t \in Threads : Reject(t) \/ chat_completions(t) \/ Work(t)

Spec == Init /\ [][Next]_vars /\ WF_vars(\E t \in Threads : Work(t))

-----------------------------------------------------------------------------
(* A stream that has ended carries the role, the text from its first to its *)
(* last character without a gap or an overlap, one finish and [DONE], in    *)
(* that order (_stream_response; chunk_size rounds down, and a text of      *)
(* fewer than five characters is cut to single ones).                       *)
StreamExact ==
    \A t \in Streaming :
        LET s == http[t].sent  n == Len(s) IN
        n > 0 /\ s[n].kind = "[DONE]" =>
            /\ n >= 3
            /\ s[1].kind = "role"
            /\ s[n - 1].kind = "finish"
            /\ \A i \in 2 .. n - 2 :
                  s[i].kind = "content" /\ s[i].from = s[i - 1].to /\ s[i].from < s[i].to
            /\ s[n - 2].to = http[t].len

=============================================================================
