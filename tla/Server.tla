------------------------------- MODULE Server -------------------------------
(***************************************************************************)
(* The completion route of bridge-server: validation, the semaphore of     *)
(* inference slots, the blocking worker that owns a permit, the bounded    *)
(* channel between a streaming worker and its client, and clients that     *)
(* read, stall or leave.                                                   *)
(*                                                                         *)
(* The inference engine is the environment of this module (ChatSession     *)
(* models it): it produces chunks of text and ends well or badly.  Events  *)
(* are their kinds; the closing event is its finish_reason.                *)
(***************************************************************************)
EXTENDS Naturals, FiniteSets, SequencesExt

CONSTANTS Clients,    \* each sends one request at a time
          Attentive,  \* clients that keep reading while connected
          Slots,      \* max_concurrent_requests
          Buffer,     \* capacity of the event channel
          MaxChunks,  \* bound: chunks of text in one completion
          Unwinds     \* a panic unwinds: dev and test builds, not the release profile

ASSUME ServerAssumption ==
    /\ Attentive \subseteq Clients
    /\ IsFiniteSet(Clients)
    /\ Slots \in Nat \ {0}
    /\ Buffer \in Nat \ {0}
    /\ MaxChunks \in Nat
    /\ Unwinds \in BOOLEAN

VARIABLES permits,  \* free permits of the semaphore
          kind,     \* what the request asked for
          reply,    \* the HTTP response the client got
          worker,   \* stage of the blocking worker
          todo,     \* events the worker has still to send after inference
          chunks,   \* chunks the engine has produced
          stopped,  \* a send failed: token cancelled, callback broke
          queue,    \* the event channel
          got,      \* events the client has read
          client    \* "none", "connected", "left" or "ended"

workerVars == <<worker, todo, chunks, stopped>>
vars == <<permits, kind, reply, workerVars, queue, got, client>>

\* include_usage is refused without stream; buffering is for tools and reasoning.
Kinds == { k \in [stream : BOOLEAN, buffered : BOOLEAN, usage : BOOLEAN] :
              k.usage \/ k.buffered => k.stream }

Plain == [stream |-> FALSE, buffered |-> FALSE, usage |-> FALSE]

Init ==
    /\ permits = Slots
    /\ kind = [r \in Clients |-> Plain]
    /\ reply = [r \in Clients |-> "none"]
    /\ worker = [r \in Clients |-> "none"]
    /\ todo = [r \in Clients |-> <<>>]
    /\ chunks = [r \in Clients |-> 0]
    /\ stopped = [r \in Clients |-> FALSE]
    /\ queue = [r \in Clients |-> <<>>]
    /\ got = [r \in Clients |-> <<>>]
    /\ client = [r \in Clients |-> "none"]

Holding(r) == worker[r] \notin {"none", "returned", "panicked"}

-----------------------------------------------------------------------------
(* chat_completions: model, n and body are validated before a permit is tried. *)

Reject(r) ==
    /\ client[r] = "none"
    /\ client' = [client EXCEPT ![r] = "ended"]
    /\ reply' = [reply EXCEPT ![r] = "Invalid"]
    /\ UNCHANGED <<permits, kind, workerVars, queue, got>>

Busy(r) ==
    /\ client[r] = "none"
    /\ permits = 0
    /\ client' = [client EXCEPT ![r] = "ended"]
    /\ reply' = [reply EXCEPT ![r] = "Busy"]
    /\ UNCHANGED <<permits, kind, workerVars, queue, got>>

Admit(r, k) ==
    /\ client[r] = "none"
    /\ permits > 0
    /\ permits' = permits - 1
    /\ client' = [client EXCEPT ![r] = "connected"]
    /\ kind' = [kind EXCEPT ![r] = k]
    /\ worker' = [worker EXCEPT ![r] = IF k.stream THEN "opening" ELSE "engine"]
    /\ reply' = [reply EXCEPT ![r] = IF k.stream THEN "Sse" ELSE "none"]
    /\ UNCHANGED <<todo, chunks, stopped, queue, got>>

-----------------------------------------------------------------------------
(* The worker.  blocking_send waits while the channel is full and fails once *)
(* the receiver is gone; send_event adds only the serialisation.            *)

\* Mutants: try_send; an unbounded channel; a send that outlives its receiver.
TrySend(r, ok) == ok = (client[r] = "connected" /\ Len(queue[r]) < Buffer)
UnboundedSend(r, ok) == ok = (client[r] = "connected")
SendToNobody(r, ok) == ok /\ Len(queue[r]) < Buffer
CanSend(r, ok) ==
    \/ ok /\ client[r] = "connected" /\ Len(queue[r]) < Buffer
    \/ ~ok /\ client[r] # "connected"

Delivered(r, ok, event) == IF ok THEN [queue EXCEPT ![r] = Append(@, event)] ELSE queue

KeepPermit(r) == UNCHANGED permits  \* mutant: the permit is leaked
DropPermit(r) == permits' = permits + 1

\* The opening event; a client gone by now ends the worker without [DONE].
SendOpening(r) ==
    /\ worker[r] = "opening"
    /\ \E ok \in BOOLEAN :
          /\ CanSend(r, ok)
          /\ queue' = Delivered(r, ok, "opening")
          /\ worker' = [worker EXCEPT ![r] = IF ok THEN "engine" ELSE "returned"]
          /\ IF ok THEN UNCHANGED permits ELSE DropPermit(r)
    /\ UNCHANGED <<kind, reply, todo, chunks, stopped, got, client>>

\* The engine calls back with text; after a break it never calls again.  With
\* buffered output, and without streaming, the callback does nothing.
ProduceChunk(r) ==
    /\ worker[r] = "engine"
    /\ kind[r].stream /\ ~kind[r].buffered
    /\ ~stopped[r]
    /\ chunks[r] < MaxChunks
    /\ worker' = [worker EXCEPT ![r] = "callback"]
    /\ chunks' = [chunks EXCEPT ![r] = @ + 1]
    /\ UNCHANGED <<permits, kind, reply, todo, stopped, queue, got, client>>

SendChunk(r) ==
    /\ worker[r] = "callback"
    /\ \E ok \in BOOLEAN :
          /\ CanSend(r, ok)
          /\ queue' = Delivered(r, ok, "chunk")
          /\ stopped' = [stopped EXCEPT ![r] = ~ok]
    /\ worker' = [worker EXCEPT ![r] = "engine"]
    /\ UNCHANGED <<permits, kind, reply, todo, chunks, got, client>>

\* Where the completion breaks off, the flush may still complete a stop
\* sequence, and parsed tool calls take precedence.
FinishReasons(r) ==
    {"stop", "tool_calls"} \cup IF stopped[r] THEN {"cancelled"} ELSE {"length"}

\* The events after inference.
Tail_(k, outcome) ==
    CASE outcome = "error" -> <<"error", "[DONE]">>
      [] OTHER -> (IF k.buffered THEN <<"structured">> ELSE <<>>) \o <<outcome>>
                    \o (IF k.usage THEN <<"usage">> ELSE <<>>) \o <<"[DONE]">>

EngineEnds(r, outcome) ==
    /\ worker[r] = "engine"
    /\ kind[r].stream
    /\ worker' = [worker EXCEPT ![r] = "closing"]
    /\ todo' = [todo EXCEPT ![r] = Tail_(kind[r], outcome)]
    /\ UNCHANGED <<permits, kind, reply, chunks, stopped, queue, got, client>>

\* A non-streaming worker: its token is never cancelled, its result goes to the
\* handler, if the client still waits for it.
Respond(r, outcome) ==
    /\ worker[r] = "engine"
    /\ ~kind[r].stream
    /\ worker' = [worker EXCEPT ![r] = "returned"]
    /\ DropPermit(r)
    /\ IF client[r] = "connected"
       THEN /\ reply' = [reply EXCEPT ![r] = IF outcome = "error" THEN "Internal" ELSE "Json"]
            /\ client' = [client EXCEPT ![r] = "ended"]
       ELSE UNCHANGED <<reply, client>>
    /\ UNCHANGED <<kind, todo, chunks, stopped, queue, got>>

\* Failures of these sends are ignored.
SendClosing(r) ==
    /\ worker[r] = "closing"
    /\ todo[r] # <<>>
    /\ \E ok \in BOOLEAN :
          /\ CanSend(r, ok)
          /\ queue' = Delivered(r, ok, Head(todo[r]))
    /\ todo' = [todo EXCEPT ![r] = Tail(@)]
    /\ UNCHANGED <<permits, kind, reply, worker, chunks, stopped, got, client>>

WorkerReturns(r) ==
    /\ worker[r] = "closing"
    /\ todo[r] = <<>>
    /\ worker' = [worker EXCEPT ![r] = "returned"]
    /\ DropPermit(r)
    /\ UNCHANGED <<kind, reply, todo, chunks, stopped, queue, got, client>>

\* Unwinding drops the permit and the sender; a waiting handler answers 500.  In
\* the release profile a panic aborts the process instead: nothing follows it.
WorkerPanics(r) ==
    /\ Unwinds
    /\ worker[r] = "engine"
    /\ worker' = [worker EXCEPT ![r] = "panicked"]
    /\ DropPermit(r)
    /\ IF ~kind[r].stream /\ client[r] = "connected"
       THEN /\ reply' = [reply EXCEPT ![r] = "Internal"]
            /\ client' = [client EXCEPT ![r] = "ended"]
       ELSE UNCHANGED <<reply, client>>
    /\ UNCHANGED <<kind, todo, chunks, stopped, queue, got>>

-----------------------------------------------------------------------------
(* The client of a stream, and of a handler that waits for its worker. *)

Receive(r) ==
    /\ client[r] = "connected"
    /\ queue[r] # <<>>
    /\ got' = [got EXCEPT ![r] = Append(@, Head(queue[r]))]
    /\ queue' = [queue EXCEPT ![r] = Tail(@)]
    /\ UNCHANGED <<permits, kind, reply, workerVars, client>>

\* Mutant: the body ends at [DONE], not when its sender is gone.
EndsAtDone(r) ==
    /\ client[r] = "connected"
    /\ got[r] # <<>> /\ Last(got[r]) = "[DONE]"
    /\ client' = [client EXCEPT ![r] = "ended"]
    /\ UNCHANGED <<permits, kind, reply, workerVars, queue, got>>

\* The channel is drained and its sender gone: the response body ends.
EndOfStream(r) ==
    /\ client[r] = "connected"
    /\ kind[r].stream
    /\ ~Holding(r)
    /\ queue[r] = <<>>
    /\ client' = [client EXCEPT ![r] = "ended"]
    /\ UNCHANGED <<permits, kind, reply, workerVars, queue, got>>

\* Dropping the response drops the receiver, and with it what it had not read
\* (what it had read no longer matters).
Disconnect(r) ==
    /\ client[r] = "connected"
    /\ client' = [client EXCEPT ![r] = "left"]
    /\ queue' = [queue EXCEPT ![r] = <<>>]
    /\ got' = [got EXCEPT ![r] = <<>>]
    /\ UNCHANGED <<permits, kind, reply, workerVars>>

\* The next request, once nothing of the last one is left in the server.
NextRequest(r) ==
    /\ client[r] \in {"left", "ended"}
    /\ ~Holding(r)
    /\ client' = [client EXCEPT ![r] = "none"]
    /\ reply' = [reply EXCEPT ![r] = "none"]
    /\ worker' = [worker EXCEPT ![r] = "none"]
    /\ todo' = [todo EXCEPT ![r] = <<>>]
    /\ chunks' = [chunks EXCEPT ![r] = 0]
    /\ stopped' = [stopped EXCEPT ![r] = FALSE]
    /\ got' = [got EXCEPT ![r] = <<>>]
    /\ kind' = [kind EXCEPT ![r] = Plain]
    /\ UNCHANGED <<permits, queue>>

Worker(r) ==
    \/ SendOpening(r)
    \/ ProduceChunk(r)
    \/ SendChunk(r)
    \/ \E outcome \in FinishReasons(r) \cup {"error"} : EngineEnds(r, outcome)
    \/ \E outcome \in {"completion", "error"} : Respond(r, outcome)
    \/ SendClosing(r)
    \/ WorkerReturns(r)
    \/ WorkerPanics(r)

Client(r) == Receive(r) \/ EndOfStream(r)

Next ==
    \E r \in Clients :
        \/ Reject(r)
        \/ Busy(r)
        \/ \E k \in Kinds : Admit(r, k)
        \/ Worker(r)
        \/ Client(r)
        \/ Disconnect(r)
        \/ NextRequest(r)

Spec == Init /\ [][Next]_vars

\* Workers run on their own threads and generation is bounded by
\* max_new_tokens.  Only attentive clients are known to go on reading.  The
\* process lives: where a panic does not unwind there is none.
FairSpec ==
    /\ Spec
    /\ \A r \in Clients : WF_vars(Worker(r))
    /\ \A r \in Attentive : WF_vars(Client(r))

-----------------------------------------------------------------------------
(* Properties. *)

Events == {"opening", "chunk", "structured", "stop", "length", "tool_calls", "cancelled",
           "usage", "error", "[DONE]"}

\* Every variable has the values the code's types allow; the channel never
\* holds more than its capacity and no permit is created or lost.
TypeOK ==
    /\ permits \in 0..Slots
    /\ permits + Cardinality({r \in Clients : Holding(r)}) = Slots
    /\ kind \in [Clients -> Kinds]
    /\ reply \in [Clients -> {"none", "Invalid", "Busy", "Sse", "Json", "Internal"}]
    /\ worker \in [Clients -> {"none", "opening", "engine", "callback", "closing",
                                "returned", "panicked"}]
    /\ chunks \in [Clients -> 0..MaxChunks]
    /\ stopped \in [Clients -> BOOLEAN]
    /\ client \in [Clients -> {"none", "connected", "left", "ended"}]
    /\ \A r \in Clients :
          /\ queue[r] \in Seq(Events) /\ Len(queue[r]) <= Buffer
          /\ got[r] \in Seq(Events) /\ todo[r] \in Seq(Events)

\* The whole streams a client of kind k may see, tail after text after opening.
Transcripts(k) ==
    { <<"opening">> \o [i \in 1..n |-> "chunk"] \o tail \o <<"[DONE]">> :
          n \in IF k.buffered THEN {0} ELSE 0..MaxChunks,
          tail \in {<<"error">>} \cup
                   { (IF k.buffered THEN <<"structured">> ELSE <<>>) \o <<reason>>
                        \o (IF k.usage THEN <<"usage">> ELSE <<>>) :
                     reason \in {"stop", "length", "tool_calls"} } }

\* What a client reads is always the beginning of a well-formed stream, whoever
\* else is served, stalls or leaves; a stream that ends short of [DONE] ends so
\* only because its worker died, and it is never told it was "cancelled",
\* however slowly it reads.
StreamsWellFormed ==
    \A r \in Clients :
        /\ \E t \in Transcripts(kind[r]) : IsPrefix(got[r], t)
        /\ client[r] = "ended" /\ reply[r] = "Sse" /\ worker[r] # "panicked" =>
              got[r] \in Transcripts(kind[r])

\* 429 is answered only while as many workers run as there are slots.
BusyOnlyWhenFull ==
    [][\A r \in Clients : reply'[r] = "Busy" /\ reply[r] # "Busy" =>
          Cardinality({q \in Clients : Holding(q)}) >= Slots]_vars

\* A client that leaves gives its slot back, even if it left with its channel
\* full and its worker waiting in blocking_send.
LeaversFreeSlots ==
    \A r \in Clients : (client[r] = "left" /\ Holding(r)) ~> ~Holding(r)

\* An attentive client of an admitted request is answered in full, whatever the
\* clients of other slots do, unless it leaves or its worker dies.
ReadersAnswered ==
    \A r \in Attentive :
        (client[r] = "connected") ~> (client[r] \in {"ended", "left"})
=============================================================================
