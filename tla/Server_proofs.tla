---------------------------- MODULE Server_proofs ----------------------------
(***************************************************************************)
(* Proofs about Server: for every set of clients, number of slots, channel *)
(* capacity and length of completions, slots are conserved, 429 is honest, *)
(* and whatever the others do a client reads the beginning of a            *)
(* well-formed stream.                                                     *)
(***************************************************************************)
EXTENDS Server, SequenceTheorems, FiniteSetTheorems, TLAPS

-----------------------------------------------------------------------------
(* Sequences of events. *)

LEMMA ConcatIsPrefix ==
    ASSUME NEW s \in Seq(Events), NEW u \in Seq(Events)
    PROVE  IsPrefix(s, s \o u)
<1> DEFINE t == s \o u
<1>1. /\ Len(s) \in Nat /\ Len(u) \in Nat /\ t \in Seq(Events) /\ Len(t) = Len(s) + Len(u)
      /\ \A i \in 1..(Len(s) + Len(u)) : t[i] = IF i <= Len(s) THEN s[i] ELSE u[i - Len(s)]
    BY LenProperties, ConcatProperties
<1> HIDE DEF t
<1>2. \A i \in 1..Len(s) : t[i] = s[i] /\ s[i] \in Events
    BY <1>1, ElementOfSeq
<1>3. SubSeq(s, 1, Len(s)) = s
    BY SubSeqFull
<1> DEFINE prefix == SubSeq(t, 1, Len(s))
<1>4. /\ prefix \in Seq(Events) /\ Len(prefix) = (IF 1 <= Len(s) THEN Len(s) - 1 + 1 ELSE 0)
      /\ \A i \in 1..(Len(s) - 1 + 1) : prefix[i] = t[1 + i - 1]
    BY <1>1, <1>2, SubSeqProperties
<1> HIDE DEF prefix
<1>5. Len(prefix) = Len(s) /\ \A i \in 1..Len(s) : prefix[i] = s[i]
    BY <1>1, <1>2, <1>4
<1>6. prefix = s
    BY <1>4, <1>5, SeqEqual
<1> QED
    BY <1>1, <1>3, <1>6 DEF IsPrefix, t, prefix

\* An event that moves from one sequence to the one before it.
LEMMA EventMoves ==
    ASSUME NEW h \in Seq(Events), NEW s \in Seq(Events), s # <<>>
    PROVE  /\ Head(s) \in Events /\ Tail(s) \in Seq(Events) /\ Len(Tail(s)) = Len(s) - 1
           /\ Append(h, Head(s)) \in Seq(Events)
           /\ Append(h, Head(s)) \o Tail(s) = h \o s
<1>1. /\ Head(s) \in Events /\ Tail(s) \in Seq(Events) /\ Len(Tail(s)) = Len(s) - 1
    BY HeadTailProperties
<1>2. /\ <<Head(s)>> \in Seq(Events) /\ Append(h, Head(s)) = h \o <<Head(s)>>
      /\ Append(h, Head(s)) \in Seq(Events)
    BY <1>1, AppendIsConcat, AppendProperties
<1>3. <<Head(s)>> \o Tail(s) = s
    BY HeadTailAppend
<1>4. (h \o <<Head(s)>>) \o Tail(s) = h \o (<<Head(s)>> \o Tail(s))
    BY <1>1, <1>2, ConcatAssociative
<1> QED
    BY <1>1, <1>2, <1>3, <1>4

LEMMA AppendsLast ==
    ASSUME NEW a \in Seq(Events), NEW b \in Seq(Events), NEW e \in Events
    PROVE  a \o Append(b, e) = Append(a \o b, e)
<1>1. <<e>> \in Seq(Events) /\ a \o b \in Seq(Events)
    BY ConcatProperties
<1>2. Append(b, e) = b \o <<e>> /\ Append(a \o b, e) = (a \o b) \o <<e>>
    BY <1>1, AppendIsConcat
<1>3. (a \o b) \o <<e>> = a \o (b \o <<e>>)
    BY <1>1, ConcatAssociative
<1> QED
    BY <1>2, <1>3

Text(n) == [i \in 1..n |-> "chunk"]
Streamed(n) == <<"opening">> \o Text(n)

LEMMA Texts ==
    ASSUME NEW n \in Nat
    PROVE  /\ Text(n) \in Seq(Events) /\ Len(Text(n)) = n
           /\ Streamed(n) \in Seq(Events)
           /\ Append(Streamed(n), "chunk") = Streamed(n + 1)
           /\ Streamed(0) = <<"opening">>
<1>1. \A m \in Nat : Text(m) \in Seq(Events) /\ Len(Text(m)) = m /\ \A i \in 1..m : Text(m)[i] = "chunk"
    BY DEF Text, Events
<1>2. <<"opening">> \in Seq(Events) /\ <<"chunk">> \in Seq(Events) /\ "chunk" \in Events
    BY DEF Events
<1>3. \A m \in Nat : Streamed(m) \in Seq(Events)
    BY <1>1, <1>2, ConcatProperties DEF Streamed
<1>4. Append(Text(n), "chunk") = Text(n + 1)
  <2>1. /\ Append(Text(n), "chunk") \in Seq(Events) /\ Len(Append(Text(n), "chunk")) = n + 1
        /\ \A i \in 1..(n + 1) : Append(Text(n), "chunk")[i] = "chunk"
      BY <1>1, <1>2, AppendProperties
  <2> QED
      BY <1>1, <2>1, SeqEqual
<1>5. Append(Streamed(n), "chunk") = Streamed(n + 1)
  <2>1. Append(Streamed(n), "chunk") = (<<"opening">> \o Text(n)) \o <<"chunk">>
      BY <1>2, <1>3, AppendIsConcat DEF Streamed
  <2>2. (<<"opening">> \o Text(n)) \o <<"chunk">> = <<"opening">> \o (Text(n) \o <<"chunk">>)
    <3>1. Text(n) \in Seq(Events)
        BY <1>1
    <3> QED
        BY <1>2, <3>1, ConcatAssociative
  <2>3. Text(n) \o <<"chunk">> = Text(n + 1)
      BY <1>1, <1>2, <1>4, AppendIsConcat
  <2> QED
      BY <2>1, <2>2, <2>3 DEF Streamed
<1>6. Streamed(0) = <<"opening">>
  <2>1. Text(0) = <<>>
      BY <1>1, EmptySeq
  <2> QED
      BY <1>2, <2>1, ConcatEmptySeq DEF Streamed
<1> QED
    BY <1>1, <1>3, <1>5, <1>6

-----------------------------------------------------------------------------
(* Streams and their beginnings. *)

Begins(s, k) == \E u \in Seq(Events) : s \o u \in Transcripts(k)

\* How many chunks a client of kind k may see.
Lengths(k) == IF k.buffered THEN {0} ELSE 0..MaxChunks

Closing(k, outcome) ==
    IF outcome = "error" THEN <<"error">>
    ELSE (IF k.buffered THEN <<"structured">> ELSE <<>>) \o <<outcome>>
            \o (IF k.usage THEN <<"usage">> ELSE <<>>)

Closings(k) ==
    {<<"error">>} \cup
    { (IF k.buffered THEN <<"structured">> ELSE <<>>) \o <<reason>>
         \o (IF k.usage THEN <<"usage">> ELSE <<>>) :
      reason \in {"stop", "length", "tool_calls"} }

LEMMA TailsClose ==
    ASSUME NEW k \in Kinds, NEW outcome \in {"stop", "length", "tool_calls", "cancelled", "error"}
    PROVE  /\ Closing(k, outcome) \in Seq(Events)
           /\ Tail_(k, outcome) \in Seq(Events)
           /\ Tail_(k, outcome) = Closing(k, outcome) \o <<"[DONE]">>
<1>1. <<"[DONE]">> \in Seq(Events) /\ <<"error">> \in Seq(Events) /\ <<outcome>> \in Seq(Events)
    BY DEF Events
<1>2. (IF k.buffered THEN <<"structured">> ELSE <<>>) \in Seq(Events)
      /\ (IF k.usage THEN <<"usage">> ELSE <<>>) \in Seq(Events)
  <2>1. <<"structured">> \in Seq(Events) /\ <<"usage">> \in Seq(Events) /\ <<>> \in Seq(Events)
      BY DEF Events
  <2> QED
      BY <2>1
<1>3. Closing(k, outcome) \in Seq(Events)
    BY <1>1, <1>2, ConcatProperties DEF Closing
<1>4. Tail_(k, outcome) = Closing(k, outcome) \o <<"[DONE]">>
  <2>1. CASE outcome = "error"
    <3>1. <<"error", "[DONE]">> = <<"error">> \o <<"[DONE]">>
        OBVIOUS
    <3> QED
        BY <2>1, <3>1 DEF Tail_, Closing
  <2>2. CASE outcome # "error"
      BY <2>2 DEF Tail_, Closing
  <2> QED
      BY <2>1, <2>2
<1> QED
    BY <1>1, <1>3, <1>4, ConcatProperties

LEMMA WholeStreams ==
    ASSUME NEW k \in Kinds, NEW n \in Lengths(k),
           NEW outcome \in {"stop", "length", "tool_calls", "error"}
    PROVE  Streamed(n) \o Tail_(k, outcome) \in Transcripts(k)
<1>1. n \in Nat
    BY ServerAssumption DEF Lengths
<1>2. Streamed(n) \in Seq(Events) /\ <<"[DONE]">> \in Seq(Events)
    BY <1>1, Texts DEF Events
<1>3. /\ Closing(k, outcome) \in Seq(Events)
      /\ Tail_(k, outcome) = Closing(k, outcome) \o <<"[DONE]">>
    BY TailsClose
<1>4. Streamed(n) \o Tail_(k, outcome) = (Streamed(n) \o Closing(k, outcome)) \o <<"[DONE]">>
    BY <1>2, <1>3, ConcatAssociative
<1>5. Closing(k, outcome) \in Closings(k)
    BY DEF Closing, Closings
<1>6. Transcripts(k) = { (Streamed(m) \o tail) \o <<"[DONE]">> : m \in Lengths(k), tail \in Closings(k) }
    BY DEF Transcripts, Lengths, Closings, Streamed, Text
<1> QED
    BY <1>4, <1>5, <1>6

\* What is sent after n chunks begins a stream, and so does nothing at all.
LEMMA Beginnings ==
    ASSUME NEW k \in Kinds
    PROVE  /\ \A n \in Lengths(k) : Begins(Streamed(n), k)
           /\ Begins(<<>>, k)
<1>1. /\ Tail_(k, "stop") \in Seq(Events)
      /\ \A n \in Lengths(k) : Streamed(n) \o Tail_(k, "stop") \in Transcripts(k)
    BY TailsClose, WholeStreams
<1>2. 0 \in Lengths(k)
    BY ServerAssumption DEF Lengths
<1>3. Streamed(0) \o Tail_(k, "stop") \in Seq(Events)
    BY <1>1, Texts, ConcatProperties
<1>4. Begins(<<>>, k)
    BY <1>1, <1>2, <1>3, ConcatEmptySeq DEF Begins
<1> QED
    BY <1>1, <1>4 DEF Begins

\* The beginning of a beginning.
LEMMA BeginsEarlier ==
    ASSUME NEW k \in Kinds, NEW s \in Seq(Events), NEW u \in Seq(Events), Begins(s \o u, k)
    PROVE  Begins(s, k)
<1>1. PICK v \in Seq(Events) : (s \o u) \o v \in Transcripts(k)
    BY DEF Begins
<1>2. u \o v \in Seq(Events) /\ (s \o u) \o v = s \o (u \o v)
    BY ConcatProperties, ConcatAssociative
<1> QED
    BY <1>1, <1>2 DEF Begins

LEMMA BeginsIsPrefix ==
    ASSUME NEW k \in Kinds, NEW s \in Seq(Events), Begins(s, k)
    PROVE  \E t \in Transcripts(k) : IsPrefix(s, t)
BY ConcatIsPrefix DEF Begins
-----------------------------------------------------------------------------
(* The inductive invariant. *)

Types ==
    /\ permits \in 0..Slots
    /\ kind \in [Clients -> Kinds]
    /\ reply \in [Clients -> {"none", "Invalid", "Busy", "Sse", "Json", "Internal"}]
    /\ worker \in [Clients -> {"none", "opening", "engine", "callback", "closing",
                                "returned", "panicked"}]
    /\ chunks \in [Clients -> 0..MaxChunks]
    /\ stopped \in [Clients -> BOOLEAN]
    /\ client \in [Clients -> {"none", "connected", "left", "ended"}]
    /\ queue \in [Clients -> Seq(Events)] /\ got \in [Clients -> Seq(Events)]
    /\ todo \in [Clients -> Seq(Events)]

Holders == {r \in Clients : Holding(r)}
SlotsConserved == permits + Cardinality(Holders) = Slots

\* What was sent to a client that is still connected.
Sent(r) == got[r] \o queue[r]

\* At each stage of the worker, what was sent and what is still to be sent make
\* up a stream.
StreamInv(r) ==
    /\ worker[r] = "opening" => Sent(r) = <<>> /\ chunks[r] = 0 /\ stopped[r] = FALSE
    /\ worker[r] = "engine" =>
          /\ stopped[r] = FALSE /\ chunks[r] \in Lengths(kind[r])
          /\ Sent(r) = Streamed(chunks[r])
    /\ worker[r] = "callback" =>
          /\ stopped[r] = FALSE /\ chunks[r] > 0 /\ chunks[r] \in Lengths(kind[r])
          /\ Sent(r) = Streamed(chunks[r] - 1)
    /\ worker[r] = "closing" => Sent(r) \o todo[r] \in Transcripts(kind[r])
    /\ worker[r] = "returned" => Sent(r) \in Transcripts(kind[r])
    /\ worker[r] = "panicked" => Begins(Sent(r), kind[r])

ClientInv(r) ==
    /\ Len(queue[r]) <= Buffer
    /\ client[r] = "none" => worker[r] = "none" /\ chunks[r] = 0 /\ stopped[r] = FALSE
    /\ client[r] = "connected" => worker[r] # "none"
    /\ client[r] # "connected" => queue[r] = <<>>
    /\ client[r] \in {"none", "left"} => got[r] = <<>>
    /\ reply[r] = "Sse" => kind[r].stream
    /\ ~kind[r].stream => /\ got[r] = <<>> /\ queue[r] = <<>>
                          /\ worker[r] \notin {"opening", "callback", "closing"}
    /\ client[r] = "connected" /\ kind[r].stream => StreamInv(r)
    /\ client[r] = "ended" =>
          /\ Begins(got[r], kind[r])
          /\ reply[r] = "Sse" /\ worker[r] # "panicked" => got[r] \in Transcripts(kind[r])

IInv == Types /\ SlotsConserved /\ \A r \in Clients : ClientInv(r)

\* Nothing of client q changes.
Kept(q) ==
    /\ kind'[q] = kind[q] /\ reply'[q] = reply[q] /\ worker'[q] = worker[q]
    /\ todo'[q] = todo[q] /\ chunks'[q] = chunks[q] /\ stopped'[q] = stopped[q]
    /\ queue'[q] = queue[q] /\ got'[q] = got[q] /\ client'[q] = client[q]

LEMMA InitIInv == Init => IInv
<1> SUFFICES ASSUME Init PROVE IInv
    OBVIOUS
<1> USE DEF Init
<1>1. <<>> \in Seq(Events) /\ Len(<<>>) = 0 /\ Plain \in Kinds /\ ~Plain.stream
    BY EmptySeq DEF Plain, Kinds
<1>2. Types
    BY <1>1, ServerAssumption DEF Types
<1>3. SlotsConserved
  <2>1. Holders = {}
      BY DEF Holders, Holding
  <2> QED
      BY <2>1, FS_EmptySet, ServerAssumption DEF SlotsConserved
<1>4. \A r \in Clients : ClientInv(r)
    BY <1>1, ServerAssumption DEF ClientInv
<1> QED
    BY <1>2, <1>3, <1>4 DEF IInv

LEMMA Framed ==
    ASSUME NEW q \in Clients, ClientInv(q), Kept(q)
    PROVE  ClientInv(q)'
<1>1. Sent(q)' = Sent(q)
    BY DEF Sent, Kept
<1>2. Transcripts(kind[q])' = Transcripts(kind[q]) /\ Lengths(kind[q])' = Lengths(kind[q])
    BY DEF Transcripts, Lengths, Kept
<1>3. Begins(Sent(q), kind[q])' = Begins(Sent(q), kind[q])
    BY <1>1, <1>2 DEF Begins
<1>4. Begins(got[q], kind[q])' = Begins(got[q], kind[q])
    BY <1>2 DEF Begins, Kept
<1>5. StreamInv(q) => StreamInv(q)'
    BY <1>1, <1>2, <1>3 DEF StreamInv, Kept, Streamed, Text
<1> QED
    BY <1>2, <1>4, <1>5 DEF ClientInv, Kept

\* A step of one client leaves the others alone.
LEMMA OneClient ==
    ASSUME IInv, NEW r \in Clients, Types', SlotsConserved', ClientInv(r)',
           \A q \in Clients \ {r} : Kept(q)
    PROVE  IInv'
<1>1. ASSUME NEW q \in Clients PROVE ClientInv(q)'
    BY <1>1, Framed DEF IInv
<1> QED
    BY <1>1 DEF IInv

-----------------------------------------------------------------------------
(* Slots. *)

LEMMA HoldersFinite == IsFiniteSet(Holders) /\ Cardinality(Holders) \in Nat
<1>1. Holders \in SUBSET Clients
    BY DEF Holders
<1> QED
    BY <1>1, FS_Subset, FS_CardinalityType, ServerAssumption

\* A permit is taken by a worker that starts, given back by one that ends, and
\* moved by nothing else.
LEMMA PermitTaken ==
    ASSUME IInv, NEW r \in Clients, ~Holding(r), permits > 0, permits' = permits - 1,
           NEW w \in {"opening", "engine"}, worker' = [worker EXCEPT ![r] = w]
    PROVE  SlotsConserved' /\ permits' \in 0..Slots
<1>1. Holders' = Holders \cup {r} /\ r \notin Holders
    BY DEF IInv, Types, Holders, Holding
<1>2. Cardinality(Holders') = Cardinality(Holders) + 1
    BY <1>1, HoldersFinite, FS_AddElement
<1> QED
    BY <1>2, HoldersFinite, ServerAssumption DEF IInv, Types, SlotsConserved

LEMMA PermitDropped ==
    ASSUME IInv, NEW r \in Clients, Holding(r), DropPermit(r),
           NEW w \in {"returned", "panicked"}, worker' = [worker EXCEPT ![r] = w]
    PROVE  SlotsConserved' /\ permits' \in 0..Slots
<1>1. Holders' = Holders \ {r} /\ r \in Holders
    BY DEF IInv, Types, Holders, Holding
<1>2. Cardinality(Holders') = Cardinality(Holders) - 1
    BY <1>1, HoldersFinite, FS_RemoveElement
<1>3. Cardinality(Holders) > 0
    BY <1>1, HoldersFinite, FS_EmptySet
<1> QED
    BY <1>2, <1>3, HoldersFinite, ServerAssumption DEF IInv, Types, SlotsConserved, DropPermit

LEMMA PermitKept ==
    ASSUME IInv, UNCHANGED permits, \A q \in Clients : Holding(q)' = Holding(q)
    PROVE  SlotsConserved' /\ permits' \in 0..Slots
<1>1. Holders' = Holders
    BY DEF Holders
<1> QED
    BY <1>1 DEF IInv, Types, SlotsConserved
-----------------------------------------------------------------------------
(* One lemma per action. *)

\* A request that gets no slot is answered at once.
LEMMA RefuseStep ==
    ASSUME IInv, NEW r \in Clients, Reject(r) \/ Busy(r)
    PROVE  IInv'
<1> USE DEF Reject, Busy, workerVars
<1>1. \A q \in Clients \ {r} : Kept(q)
    BY DEF IInv, Types, Kept
<1>2. Types'
    BY DEF IInv, Types
<1>3. SlotsConserved'
    BY PermitKept DEF Holding
<1>4. ClientInv(r)'
  <2>1. /\ client[r] = "none" /\ client'[r] = "ended" /\ got'[r] = <<>> /\ queue'[r] = <<>>
        /\ worker'[r] = "none" /\ reply'[r] \in {"Invalid", "Busy"} /\ kind'[r] \in Kinds
      BY DEF IInv, Types, ClientInv
  <2>2. Begins(<<>>, kind'[r])
      BY <2>1, Beginnings
  <2>3. Begins(got[r], kind[r])'
      BY <2>1, <2>2
  <2> QED
      BY <2>1, <2>3, EmptySeq, ServerAssumption DEF ClientInv
<1> QED
    BY <1>1, <1>2, <1>3, <1>4, OneClient

LEMMA AdmitStep ==
    ASSUME IInv, NEW r \in Clients, NEW k \in Kinds, Admit(r, k)
    PROVE  IInv'
<1> USE DEF Admit
<1>1. \A q \in Clients \ {r} : Kept(q)
    BY DEF IInv, Types, Kept
<1>2. /\ worker[r] = "none" /\ chunks[r] = 0 /\ stopped[r] = FALSE
      /\ got[r] = <<>> /\ queue[r] = <<>>
    BY DEF IInv, ClientInv
<1>3. SlotsConserved' /\ permits' \in 0..Slots
    BY <1>2, PermitTaken DEF Holding
<1>4. Types'
    BY <1>3 DEF IInv, Types
<1>5. ClientInv(r)'
  <2>1. /\ client'[r] = "connected" /\ kind'[r] = k
        /\ worker'[r] = IF k.stream THEN "opening" ELSE "engine"
        /\ reply'[r] = IF k.stream THEN "Sse" ELSE "none"
        /\ chunks'[r] = 0 /\ stopped'[r] = FALSE /\ got'[r] = <<>> /\ queue'[r] = <<>>
      BY <1>2 DEF IInv, Types
  <2>2. Sent(r)' = <<>>
      BY <2>1, EmptySeq, ConcatEmptySeq DEF Sent
  <2>3. k.stream => StreamInv(r)'
      BY <2>1, <2>2 DEF StreamInv
  <2> QED
      BY <2>1, <2>3, EmptySeq, ServerAssumption DEF ClientInv
<1> QED
    BY <1>1, <1>3, <1>4, <1>5, OneClient

\* What a client that is connected is sent.
LEMMA Sends ==
    ASSUME IInv, NEW r \in Clients, NEW ok \in BOOLEAN, CanSend(r, ok), NEW e \in Events,
           queue' = Delivered(r, ok, e), UNCHANGED <<got, client>>
    PROVE  /\ ok <=> client[r] = "connected"
           /\ queue' \in [Clients -> Seq(Events)] /\ Len(queue'[r]) <= Buffer
           /\ \A q \in Clients \ {r} : queue'[q] = queue[q]
           /\ client[r] # "connected" => queue'[r] = queue[r]
           /\ client[r] = "connected" => Sent(r)' = Append(Sent(r), e)
           /\ Sent(r) \in Seq(Events)
<1>1. /\ queue \in [Clients -> Seq(Events)] /\ queue[r] \in Seq(Events) /\ got[r] \in Seq(Events)
      /\ Len(queue[r]) \in Nat /\ Buffer \in Nat /\ Len(queue[r]) <= Buffer
    BY LenProperties, ServerAssumption DEF IInv, Types, ClientInv
<1>2. Append(queue[r], e) \in Seq(Events) /\ Len(Append(queue[r], e)) = Len(queue[r]) + 1
    BY <1>1, AppendProperties
<1>3. Sent(r) \in Seq(Events) /\ <<e>> \in Seq(Events)
    BY <1>1, ConcatProperties DEF Sent
<1>4. got[r] \o Append(queue[r], e) = Append(Sent(r), e)
    BY <1>1, AppendsLast DEF Sent
<1>5. CASE ok
  <2>1. client[r] = "connected" /\ Len(queue[r]) < Buffer
      BY <1>5 DEF CanSend
  <2>2. queue' = [queue EXCEPT ![r] = Append(queue[r], e)]
      BY <1>5 DEF Delivered
  <2>3. queue'[r] = Append(queue[r], e)
      BY <1>1, <2>2
  <2>4. Len(queue'[r]) <= Buffer
      BY <1>1, <1>2, <2>1, <2>3
  <2>5. Sent(r)' = Append(Sent(r), e)
      BY <1>4, <2>3 DEF Sent
  <2> QED
      BY <1>1, <1>2, <1>3, <1>5, <2>1, <2>2, <2>4, <2>5
<1>6. CASE ~ok
    BY <1>1, <1>3, <1>6 DEF CanSend, Delivered
<1> QED
    BY <1>5, <1>6

\* A worker whose client is gone may do what it likes.
LEMMA Gone ==
    ASSUME IInv, NEW r \in Clients, client[r] # "connected", queue'[r] = queue[r],
           UNCHANGED <<kind, reply, got, client>>, worker[r] \notin {"none", "panicked"},
           worker'[r] \notin {"opening", "callback", "closing"} \/ kind[r].stream
    PROVE  ClientInv(r)'
<1>1. /\ ClientInv(r) /\ client[r] # "none"
    BY DEF IInv, ClientInv
<1>2. client[r] = "ended" => Begins(got[r], kind[r])
    BY <1>1 DEF ClientInv
<1>3. (client[r] = "ended" => Begins(got[r], kind[r]))'
    BY <1>2
<1>4. client[r] = "ended" /\ reply[r] = "Sse" => got[r] \in Transcripts(kind[r])
    BY <1>1 DEF ClientInv
<1>5. (client[r] = "ended" /\ reply[r] = "Sse" => got[r] \in Transcripts(kind[r]))'
    BY <1>4
<1> QED
    BY <1>1, <1>3, <1>5 DEF ClientInv

\* The opening event, or a client that has left by now.
LEMMA SendOpeningStep ==
    ASSUME IInv, NEW r \in Clients, SendOpening(r)
    PROVE  IInv'
<1> USE DEF SendOpening
<1>1. PICK ok \in BOOLEAN :
          /\ CanSend(r, ok)
          /\ queue' = Delivered(r, ok, "opening")
          /\ worker' = [worker EXCEPT ![r] = IF ok THEN "engine" ELSE "returned"]
          /\ IF ok THEN UNCHANGED permits ELSE DropPermit(r)
    OBVIOUS
<1>2. /\ ok <=> client[r] = "connected"
      /\ queue' \in [Clients -> Seq(Events)] /\ Len(queue'[r]) <= Buffer
      /\ \A q \in Clients \ {r} : queue'[q] = queue[q]
      /\ client[r] # "connected" => queue'[r] = queue[r]
      /\ client[r] = "connected" => Sent(r)' = Append(Sent(r), "opening")
    BY <1>1, Sends DEF Events
<1>3. \A q \in Clients \ {r} : Kept(q)
    BY <1>1, <1>2 DEF IInv, Types, Kept
<1>4. SlotsConserved' /\ permits' \in 0..Slots
  <2>1. CASE ok
      BY <1>1, <2>1, PermitKept DEF Holding, IInv, Types
  <2>2. CASE ~ok
    <3>1. worker' = [worker EXCEPT ![r] = "returned"] /\ DropPermit(r) /\ Holding(r)
        BY <1>1, <2>2 DEF Holding
    <3> QED
        BY <3>1, PermitDropped
  <2> QED
      BY <2>1, <2>2
<1>5. Types'
    BY <1>1, <1>2, <1>4 DEF IInv, Types
<1>6. ClientInv(r)'
  <2>1. kind[r].stream /\ client[r] # "none"
      BY DEF IInv, ClientInv
  <2>2. CASE client[r] = "connected"
    <3>1. Sent(r)' = Streamed(0)
      <4>1. Sent(r) = <<>>
          BY <2>1, <2>2 DEF IInv, ClientInv, StreamInv
      <4>2. Append(<<>>, "opening") = <<"opening">>
          OBVIOUS
      <4> QED
          BY <1>2, <2>2, <4>1, <4>2, Texts
    <3>2. worker'[r] = "engine" /\ chunks'[r] = 0 /\ stopped'[r] = FALSE /\ kind' = kind
        BY <1>1, <1>2, <2>1, <2>2 DEF IInv, Types, ClientInv, StreamInv
    <3>3. StreamInv(r)'
        BY <3>1, <3>2, ServerAssumption DEF StreamInv, Lengths
    <3> QED
        BY <1>2, <2>1, <2>2, <3>2, <3>3 DEF IInv, ClientInv
  <2>3. CASE client[r] # "connected"
    <3>1. worker'[r] = "returned" /\ queue'[r] = queue[r]
        BY <1>1, <1>2, <2>3 DEF IInv, Types
    <3> QED
        BY <2>3, <3>1, Gone
  <2> QED
      BY <2>2, <2>3
<1> QED
    BY <1>3, <1>4, <1>5, <1>6, OneClient

LEMMA ProduceChunkStep ==
    ASSUME IInv, NEW r \in Clients, ProduceChunk(r)
    PROVE  IInv'
<1> USE DEF ProduceChunk
<1>1. \A q \in Clients \ {r} : Kept(q)
    BY DEF IInv, Types, Kept
<1>2. SlotsConserved'
    BY PermitKept DEF Holding, IInv, Types
<1>3. /\ chunks[r] \in Nat /\ MaxChunks \in Nat /\ chunks'[r] = chunks[r] + 1
      /\ chunks' = [chunks EXCEPT ![r] = chunks[r] + 1] /\ worker'[r] = "callback"
    BY ServerAssumption DEF IInv, Types
<1>4. Types'
  <2>1. chunks[r] + 1 \in 0..MaxChunks
      BY <1>3
  <2> QED
      BY <1>3, <2>1 DEF IInv, Types
<1>5. ClientInv(r)'
  <2>1. CASE client[r] = "connected"
    <3>1. StreamInv(r) /\ stopped[r] = FALSE /\ Sent(r) = Streamed(chunks[r])
        BY <2>1 DEF IInv, ClientInv, StreamInv
    <3>2. Sent(r)' = Sent(r)
        BY DEF Sent
    <3>3. chunks'[r] > 0 /\ chunks'[r] \in Lengths(kind[r]) /\ chunks'[r] - 1 = chunks[r]
        BY <1>3 DEF Lengths
    <3>4. StreamInv(r)'
        BY <1>3, <3>1, <3>2, <3>3 DEF StreamInv
    <3> QED
        BY <1>3, <2>1, <3>4 DEF IInv, ClientInv
  <2>2. CASE client[r] # "connected"
      BY <2>2, Gone
  <2> QED
      BY <2>1, <2>2
<1> QED
    BY <1>1, <1>2, <1>4, <1>5, OneClient

LEMMA SendChunkStep ==
    ASSUME IInv, NEW r \in Clients, SendChunk(r)
    PROVE  IInv'
<1> USE DEF SendChunk
<1>1. PICK ok \in BOOLEAN :
          /\ CanSend(r, ok)
          /\ queue' = Delivered(r, ok, "chunk")
          /\ stopped' = [stopped EXCEPT ![r] = ~ok]
    OBVIOUS
<1>2. /\ ok <=> client[r] = "connected"
      /\ queue' \in [Clients -> Seq(Events)] /\ Len(queue'[r]) <= Buffer
      /\ \A q \in Clients \ {r} : queue'[q] = queue[q]
      /\ client[r] # "connected" => queue'[r] = queue[r]
      /\ client[r] = "connected" => Sent(r)' = Append(Sent(r), "chunk")
    BY <1>1, Sends DEF Events
<1>3. \A q \in Clients \ {r} : Kept(q)
    BY <1>1, <1>2 DEF IInv, Types, Kept
<1>4. SlotsConserved'
    BY PermitKept DEF Holding, IInv, Types
<1>5. Types'
    BY <1>1, <1>2 DEF IInv, Types
<1>6. worker'[r] = "engine" /\ kind[r].stream
    BY DEF IInv, Types, ClientInv
<1>7. ClientInv(r)'
  <2>1. CASE client[r] = "connected"
    <3>1. /\ chunks[r] > 0 /\ chunks[r] \in Lengths(kind[r]) /\ Sent(r) = Streamed(chunks[r] - 1)
          /\ chunks[r] \in Nat
        BY <1>6, <2>1, ServerAssumption DEF IInv, Types, ClientInv, StreamInv
    <3>2. Sent(r)' = Streamed(chunks[r])
      <4>1. chunks[r] - 1 \in Nat /\ (chunks[r] - 1) + 1 = chunks[r]
          BY <3>1
      <4> QED
          BY <1>2, <2>1, <3>1, <4>1, Texts
    <3>3. stopped'[r] = FALSE
        BY <1>1, <1>2, <2>1 DEF IInv, Types
    <3>4. StreamInv(r)'
        BY <1>6, <3>1, <3>2, <3>3 DEF StreamInv
    <3> QED
        BY <1>2, <1>6, <2>1, <3>4 DEF IInv, ClientInv
  <2>2. CASE client[r] # "connected"
      BY <1>2, <1>6, <2>2, Gone
  <2> QED
      BY <2>1, <2>2
<1> QED
    BY <1>3, <1>4, <1>5, <1>7, OneClient

\* Inference ends; a client that still reads was never stopped, so it is not
\* told it was cancelled.
LEMMA EngineEndsStep ==
    ASSUME IInv, NEW r \in Clients, NEW outcome \in FinishReasons(r) \cup {"error"},
           EngineEnds(r, outcome)
    PROVE  IInv'
<1> USE DEF EngineEnds
<1>1. \A q \in Clients \ {r} : Kept(q)
    BY DEF IInv, Types, Kept
<1>2. SlotsConserved'
    BY PermitKept DEF Holding, IInv, Types
<1>3. Tail_(kind[r], outcome) \in Seq(Events)
    BY TailsClose DEF FinishReasons, IInv, Types
<1>4. Types'
    BY <1>3 DEF IInv, Types
<1>5. worker'[r] = "closing" /\ todo'[r] = Tail_(kind[r], outcome)
    BY DEF IInv, Types
<1>6. ClientInv(r)'
  <2>1. CASE client[r] = "connected"
    <3>1. /\ stopped[r] = FALSE /\ chunks[r] \in Lengths(kind[r]) /\ kind[r] \in Kinds
          /\ Sent(r) = Streamed(chunks[r])
        BY <2>1 DEF IInv, Types, ClientInv, StreamInv
    <3>2. outcome \in {"stop", "length", "tool_calls", "error"}
        BY <3>1 DEF FinishReasons
    <3>3. Sent(r) \o Tail_(kind[r], outcome) \in Transcripts(kind[r])
        BY <3>1, <3>2, WholeStreams
    <3>4. Sent(r)' = Sent(r)
        BY DEF Sent
    <3>5. (Sent(r) \o todo[r])' = Sent(r) \o Tail_(kind[r], outcome)
        BY <1>5, <3>4
    <3>6. (Sent(r) \o todo[r] \in Transcripts(kind[r]))'
        BY <3>3, <3>5
    <3>7. StreamInv(r)'
        BY <1>5, <3>6 DEF StreamInv
    <3> QED
        BY <1>5, <2>1, <3>7 DEF IInv, ClientInv
  <2>2. CASE client[r] # "connected"
      BY <1>5, <2>2, Gone
  <2> QED
      BY <2>1, <2>2
<1> QED
    BY <1>1, <1>2, <1>4, <1>6, OneClient

\* A worker without a stream answers, or dies, and its client was sent nothing.
LEMMA AnswerStep ==
    ASSUME IInv, NEW r \in Clients, NEW outcome \in {"completion", "error"},
           Respond(r, outcome) \/ (WorkerPanics(r) /\ ~kind[r].stream)
    PROVE  IInv'
<1> USE DEF Respond, WorkerPanics
<1>1. \A q \in Clients \ {r} : Kept(q)
    BY DEF IInv, Types, Kept
<1>2. SlotsConserved' /\ permits' \in 0..Slots
    BY PermitDropped DEF Holding
<1>3. Types'
    BY <1>2 DEF IInv, Types
<1>4. worker'[r] \in {"returned", "panicked"} /\ kind' = kind /\ got' = got /\ queue' = queue
    BY DEF IInv, Types
<1>5. ClientInv(r)'
  <2>1. CASE client[r] = "connected"
    <3>1. /\ got[r] = <<>> /\ queue[r] = <<>> /\ kind[r] \in Kinds /\ client'[r] = "ended"
          /\ reply'[r] \in {"Internal", "Json"}
        BY <2>1 DEF IInv, Types, ClientInv
    <3>2. Begins(got[r], kind[r])
        BY <3>1, Beginnings
    <3>3. (Begins(got[r], kind[r]))'
        BY <1>4, <3>2
    <3> QED
        BY <1>4, <3>1, <3>3, EmptySeq, ServerAssumption DEF ClientInv
  <2>2. CASE client[r] # "connected"
      BY <1>4, <2>2, Gone
  <2> QED
      BY <2>1, <2>2
<1> QED
    BY <1>1, <1>2, <1>3, <1>5, OneClient

\* A streaming worker that dies leaves the beginning of a stream.
LEMMA PanicStep ==
    ASSUME IInv, NEW r \in Clients, WorkerPanics(r), kind[r].stream
    PROVE  IInv'
<1> USE DEF WorkerPanics
<1>1. \A q \in Clients \ {r} : Kept(q)
    BY DEF IInv, Types, Kept
<1>2. SlotsConserved' /\ permits' \in 0..Slots
    BY PermitDropped DEF Holding
<1>3. Types'
    BY <1>2 DEF IInv, Types
<1>4. worker'[r] = "panicked" /\ UNCHANGED <<kind, got, queue, reply, client>>
    BY DEF IInv, Types
<1>5. ClientInv(r)'
  <2>1. CASE client[r] = "connected"
    <3>1. Sent(r) = Streamed(chunks[r]) /\ chunks[r] \in Lengths(kind[r]) /\ kind[r] \in Kinds
        BY <2>1 DEF IInv, Types, ClientInv, StreamInv
    <3>2. Begins(Sent(r), kind[r])
        BY <3>1, Beginnings
    <3>3. Sent(r)' = Sent(r)
        BY <1>4 DEF Sent
    <3>4. (Begins(Sent(r), kind[r]))'
        BY <1>4, <3>2, <3>3
    <3>5. StreamInv(r)'
        BY <1>4, <3>4 DEF StreamInv
    <3> QED
        BY <1>4, <2>1, <3>5 DEF IInv, ClientInv
  <2>2. CASE client[r] # "connected"
      BY <1>4, <2>2, Gone
  <2> QED
      BY <2>1, <2>2
<1> QED
    BY <1>1, <1>2, <1>3, <1>5, OneClient

LEMMA SendClosingStep ==
    ASSUME IInv, NEW r \in Clients, SendClosing(r)
    PROVE  IInv'
<1> USE DEF SendClosing
<1>1. /\ todo[r] \in Seq(Events) /\ todo[r] # <<>> /\ Head(todo[r]) \in Events
      /\ Tail(todo[r]) \in Seq(Events)
    BY HeadTailProperties DEF IInv, Types
<1>2. PICK ok \in BOOLEAN : CanSend(r, ok) /\ queue' = Delivered(r, ok, Head(todo[r]))
    OBVIOUS
<1>3. /\ queue' \in [Clients -> Seq(Events)] /\ Len(queue'[r]) <= Buffer
      /\ \A q \in Clients \ {r} : queue'[q] = queue[q]
      /\ client[r] # "connected" => queue'[r] = queue[r]
      /\ client[r] = "connected" => Sent(r)' = Append(Sent(r), Head(todo[r]))
      /\ Sent(r) \in Seq(Events)
    BY <1>1, <1>2, Sends
<1>4. \A q \in Clients \ {r} : Kept(q)
    BY <1>3 DEF IInv, Types, Kept
<1>5. SlotsConserved'
    BY PermitKept DEF Holding
<1>6. Types'
    BY <1>1, <1>3 DEF IInv, Types
<1>7. todo'[r] = Tail(todo[r]) /\ kind[r].stream
    BY DEF IInv, Types, ClientInv
<1>8. ClientInv(r)'
  <2>1. CASE client[r] = "connected"
    <3>1. Sent(r) \o todo[r] \in Transcripts(kind[r])
        BY <1>7, <2>1 DEF IInv, ClientInv, StreamInv
    <3>2. Append(Sent(r), Head(todo[r])) \o Tail(todo[r]) = Sent(r) \o todo[r]
        BY <1>1, <1>3, EventMoves
    <3>3. (Sent(r) \o todo[r])' = Sent(r) \o todo[r]
        BY <1>3, <1>7, <2>1, <3>2
    <3>4. (Sent(r) \o todo[r] \in Transcripts(kind[r]))'
        BY <3>1, <3>3
    <3>5. StreamInv(r)'
        BY <3>4 DEF StreamInv
    <3> QED
        BY <1>3, <1>7, <2>1, <3>5 DEF IInv, ClientInv
  <2>2. CASE client[r] # "connected"
      BY <1>3, <1>7, <2>2, Gone
  <2> QED
      BY <2>1, <2>2
<1> QED
    BY <1>4, <1>5, <1>6, <1>8, OneClient

LEMMA WorkerReturnsStep ==
    ASSUME IInv, NEW r \in Clients, WorkerReturns(r)
    PROVE  IInv'
<1> USE DEF WorkerReturns
<1>1. \A q \in Clients \ {r} : Kept(q)
    BY DEF IInv, Types, Kept
<1>2. SlotsConserved' /\ permits' \in 0..Slots
    BY PermitDropped DEF Holding
<1>3. Types'
    BY <1>2 DEF IInv, Types
<1>4. worker'[r] = "returned" /\ UNCHANGED <<kind, got, queue, reply, client>> /\ kind[r].stream
    BY DEF IInv, Types, ClientInv
<1>5. ClientInv(r)'
  <2>1. CASE client[r] = "connected"
    <3>1. Sent(r) \o todo[r] \in Transcripts(kind[r]) /\ todo[r] = <<>>
        BY <1>4, <2>1 DEF IInv, ClientInv, StreamInv
    <3>2. Sent(r) \in Seq(Events)
        BY ConcatProperties DEF Sent, IInv, Types
    <3>3. Sent(r) \in Transcripts(kind[r])
        BY <3>1, <3>2, ConcatEmptySeq
    <3>4. Sent(r)' = Sent(r)
        BY <1>4 DEF Sent
    <3>5. (Sent(r) \in Transcripts(kind[r]))'
        BY <1>4, <3>3, <3>4
    <3>6. StreamInv(r)'
        BY <1>4, <3>5 DEF StreamInv
    <3> QED
        BY <1>4, <2>1, <3>6 DEF IInv, ClientInv
  <2>2. CASE client[r] # "connected"
      BY <1>4, <2>2, Gone
  <2> QED
      BY <2>1, <2>2
<1> QED
    BY <1>1, <1>2, <1>3, <1>5, OneClient

\* Reading moves an event from the channel to the client.
LEMMA ReceiveStep ==
    ASSUME IInv, NEW r \in Clients, Receive(r)
    PROVE  IInv'
<1> USE DEF Receive, workerVars
<1>1. /\ queue[r] \in Seq(Events) /\ got[r] \in Seq(Events) /\ queue[r] # <<>>
      /\ queue \in [Clients -> Seq(Events)] /\ got \in [Clients -> Seq(Events)]
    BY DEF IInv, Types
<1>2. /\ Head(queue[r]) \in Events /\ Tail(queue[r]) \in Seq(Events)
      /\ Len(Tail(queue[r])) = Len(queue[r]) - 1
      /\ Append(got[r], Head(queue[r])) \in Seq(Events)
      /\ Append(got[r], Head(queue[r])) \o Tail(queue[r]) = got[r] \o queue[r]
    BY <1>1, EventMoves
<1>3. queue'[r] = Tail(queue[r]) /\ got'[r] = Append(got[r], Head(queue[r]))
    BY <1>1
<1>4. \A q \in Clients \ {r} : Kept(q)
    BY <1>1 DEF Kept
<1>5. SlotsConserved'
    BY PermitKept DEF Holding
<1>6. Types'
    BY <1>1, <1>2 DEF IInv, Types
<1>7. Sent(r)' = Sent(r)
    BY <1>2, <1>3 DEF Sent
<1>8. ClientInv(r)'
  <2>1. kind[r].stream /\ client[r] = "connected"
      BY <1>1 DEF IInv, ClientInv
  <2>2. StreamInv(r)'
    <3>1. StreamInv(r)
        BY <2>1 DEF IInv, ClientInv
    <3>2. (Begins(Sent(r), kind[r]))' <=> Begins(Sent(r), kind[r])
        BY <1>7
    <3>3. (Sent(r) \in Transcripts(kind[r]))' <=> Sent(r) \in Transcripts(kind[r])
        BY <1>7
    <3>4. (Sent(r) \o todo[r] \in Transcripts(kind[r]))' <=> Sent(r) \o todo[r] \in Transcripts(kind[r])
        BY <1>7
    <3> QED
        BY <1>7, <3>1, <3>2, <3>3, <3>4 DEF StreamInv
  <2>3. Len(queue'[r]) <= Buffer
      BY <1>1, <1>2, <1>3, LenProperties, ServerAssumption DEF IInv, ClientInv
  <2> QED
      BY <2>1, <2>2, <2>3 DEF IInv, ClientInv
<1> QED
    BY <1>4, <1>5, <1>6, <1>8, OneClient

\* The body ends when its worker has returned and everything is read.
LEMMA EndOfStreamStep ==
    ASSUME IInv, NEW r \in Clients, EndOfStream(r)
    PROVE  IInv'
<1> USE DEF EndOfStream, workerVars
<1>1. \A q \in Clients \ {r} : Kept(q)
    BY DEF IInv, Types, Kept
<1>2. SlotsConserved'
    BY PermitKept DEF Holding
<1>3. Types'
    BY DEF IInv, Types
<1>4. ClientInv(r)'
  <2>1. /\ got[r] \in Seq(Events) /\ queue[r] = <<>> /\ kind[r].stream /\ kind[r] \in Kinds
        /\ worker[r] \in {"returned", "panicked"} /\ StreamInv(r) /\ client'[r] = "ended"
      BY DEF IInv, Types, ClientInv, Holding
  <2>2. Sent(r) = got[r]
      BY <2>1, ConcatEmptySeq DEF Sent
  <2>3. worker[r] = "returned" => got[r] \in Transcripts(kind[r])
      BY <2>1, <2>2 DEF StreamInv
  <2>4. Begins(got[r], kind[r])
    <3>1. CASE worker[r] = "returned"
      <4>1. <<>> \in Seq(Events) /\ got[r] \o <<>> = got[r]
          BY <2>1, EmptySeq, ConcatEmptySeq
      <4> QED
          BY <2>3, <3>1, <4>1 DEF Begins
    <3>2. CASE worker[r] = "panicked"
        BY <2>1, <2>2, <3>2 DEF StreamInv
    <3> QED
        BY <2>1, <3>1, <3>2
  <2>5. (Begins(got[r], kind[r]))'
      BY <2>4
  <2>6. (worker[r] = "returned" => got[r] \in Transcripts(kind[r]))'
      BY <2>3
  <2> QED
      BY <2>1, <2>5, <2>6 DEF IInv, ClientInv
<1> QED
    BY <1>1, <1>2, <1>3, <1>4, OneClient

LEMMA DisconnectStep ==
    ASSUME IInv, NEW r \in Clients, Disconnect(r)
    PROVE  IInv'
<1> USE DEF Disconnect, workerVars
<1>1. <<>> \in Seq(Events) /\ Len(<<>>) = 0
    BY EmptySeq
<1>2. \A q \in Clients \ {r} : Kept(q)
    BY DEF IInv, Types, Kept
<1>3. SlotsConserved'
    BY PermitKept DEF Holding
<1>4. Types'
    BY <1>1 DEF IInv, Types
<1>5. client'[r] = "left" /\ queue'[r] = <<>> /\ got'[r] = <<>>
    BY DEF IInv, Types
<1>6. ClientInv(r)'
    BY <1>1, <1>5, ServerAssumption DEF IInv, ClientInv
<1> QED
    BY <1>2, <1>3, <1>4, <1>6, OneClient

LEMMA NextRequestStep ==
    ASSUME IInv, NEW r \in Clients, NextRequest(r)
    PROVE  IInv'
<1> USE DEF NextRequest
<1>1. <<>> \in Seq(Events) /\ Plain \in Kinds /\ ~Plain.stream
    BY EmptySeq DEF Plain, Kinds
<1>2. \A q \in Clients \ {r} : Kept(q)
    BY DEF IInv, Types, Kept
<1>3. SlotsConserved'
  <2>1. \A q \in Clients : Holding(q)' = Holding(q)
      BY DEF Holding, IInv, Types
  <2> QED
      BY <2>1, PermitKept
<1>4. Types'
    BY <1>1, ServerAssumption DEF IInv, Types
<1>5. /\ client'[r] = "none" /\ worker'[r] = "none" /\ got'[r] = <<>> /\ queue'[r] = queue[r]
      /\ chunks'[r] = 0 /\ stopped'[r] = FALSE /\ reply'[r] = "none" /\ kind'[r] = Plain
    BY DEF IInv, Types
<1>6. queue[r] = <<>> /\ Len(queue[r]) <= Buffer
    BY DEF IInv, ClientInv
<1>7. ClientInv(r)'
    BY <1>1, <1>5, <1>6 DEF ClientInv
<1> QED
    BY <1>2, <1>3, <1>4, <1>7, OneClient

LEMMA StutterStep ==
    ASSUME IInv, UNCHANGED vars
    PROVE  IInv'
<1> USE DEF vars, workerVars
<1>1. \A q \in Clients : Kept(q)
    BY DEF Kept
<1>2. Types'
    BY DEF IInv, Types
<1>3. SlotsConserved'
    BY PermitKept DEF Holding
<1>4. \A q \in Clients : ClientInv(q)'
    BY <1>1, Framed DEF IInv
<1> QED
    BY <1>2, <1>3, <1>4 DEF IInv

LEMMA NextIInv == IInv /\ [Next]_vars => IInv'
<1> SUFFICES ASSUME IInv, Next PROVE IInv'
    BY StutterStep
<1>1. PICK r \in Clients :
        \/ Reject(r)
        \/ Busy(r)
        \/ \E k \in Kinds : Admit(r, k)
        \/ Worker(r)
        \/ Client(r)
        \/ Disconnect(r)
        \/ NextRequest(r)
    BY DEF Next
<1>2. CASE Worker(r)
    BY <1>2, SendOpeningStep, ProduceChunkStep, SendChunkStep, EngineEndsStep, AnswerStep,
       PanicStep, SendClosingStep, WorkerReturnsStep
    DEF Worker
<1>3. CASE Client(r)
    BY <1>3, ReceiveStep, EndOfStreamStep DEF Client
<1> QED
    BY <1>1, <1>2, <1>3, RefuseStep, AdmitStep, DisconnectStep, NextRequestStep

LEMMA Invariance == Spec => []IInv
    BY InitIInv, NextIInv, PTL DEF Spec

-----------------------------------------------------------------------------
(* The results. *)

\* No permit is created or lost, whoever leaves, stalls or dies, and the channel
\* never holds more than its capacity.
THEOREM SlotsAreConserved == Spec => []TypeOK
<1>1. IInv => TypeOK
    BY DEF IInv, Types, ClientInv, SlotsConserved, Holders, TypeOK
<1> QED
    BY <1>1, Invariance, PTL

\* What a client reads is always the beginning of a well-formed stream, and all
\* of one when the stream ends, unless its worker died.
THEOREM StreamsStayWellFormed == Spec => []StreamsWellFormed
<1>1. ASSUME IInv PROVE StreamsWellFormed
  <2>1. ASSUME NEW r \in Clients
        PROVE  /\ \E t \in Transcripts(kind[r]) : IsPrefix(got[r], t)
               /\ client[r] = "ended" /\ reply[r] = "Sse" /\ worker[r] # "panicked" =>
                     got[r] \in Transcripts(kind[r])
    <3>1. /\ kind[r] \in Kinds /\ got[r] \in Seq(Events) /\ queue[r] \in Seq(Events)
          /\ Sent(r) \in Seq(Events) /\ <<>> \in Seq(Events)
        BY <1>1, ConcatProperties, EmptySeq DEF IInv, Types, Sent
    <3>2. Begins(got[r], kind[r])
      <4>1. CASE got[r] = <<>>
          BY <3>1, <4>1, Beginnings
      <4>2. CASE client[r] = "ended"
          BY <1>1, <4>2 DEF IInv, ClientInv
      <4>3. CASE client[r] = "connected" /\ kind[r].stream
        <5>1. StreamInv(r) /\ worker[r] # "none"
            BY <1>1, <4>3 DEF IInv, ClientInv
        <5>2. Begins(Sent(r), kind[r])
          <6>1. CASE worker[r] = "opening"
              BY <3>1, <5>1, <6>1, Beginnings DEF StreamInv
          <6>2. CASE worker[r] = "engine"
              BY <3>1, <5>1, <6>2, Beginnings DEF StreamInv
          <6>3. CASE worker[r] = "callback"
            <7>1. chunks[r] \in Lengths(kind[r]) /\ chunks[r] > 0
                BY <5>1, <6>3 DEF StreamInv
            <7>2. chunks[r] - 1 \in Lengths(kind[r])
                BY <7>1, ServerAssumption DEF Lengths
            <7> QED
                BY <3>1, <5>1, <6>3, <7>2, Beginnings DEF StreamInv
          <6>4. CASE worker[r] = "closing"
            <7>1. todo[r] \in Seq(Events)
                BY <1>1 DEF IInv, Types
            <7> QED
                BY <5>1, <6>4, <7>1 DEF StreamInv, Begins
          <6>5. CASE worker[r] = "returned"
            <7>1. Sent(r) \o <<>> = Sent(r)
                BY <3>1, ConcatEmptySeq
            <7> QED
                BY <3>1, <5>1, <6>5, <7>1 DEF StreamInv, Begins
          <6>6. CASE worker[r] = "panicked"
              BY <5>1, <6>6 DEF StreamInv
          <6> QED
              BY <1>1, <5>1, <6>1, <6>2, <6>3, <6>4, <6>5, <6>6 DEF IInv, Types
        <5> QED
            BY <3>1, <5>2, BeginsEarlier DEF Sent
      <4> QED
          BY <1>1, <4>1, <4>2, <4>3 DEF IInv, Types, ClientInv
    <3>3. client[r] = "ended" /\ reply[r] = "Sse" /\ worker[r] # "panicked" =>
              got[r] \in Transcripts(kind[r])
        BY <1>1 DEF IInv, ClientInv
    <3> QED
        BY <3>1, <3>2, <3>3, BeginsIsPrefix
  <2> QED
      BY <2>1 DEF StreamsWellFormed
<1> QED
    BY <1>1, Invariance, PTL

\* Nobody is turned away while a slot is free.
THEOREM BusyIsHonest == Spec => BusyOnlyWhenFull
<1>1. ASSUME IInv, [Next]_vars
      PROVE  [\A r \in Clients : reply'[r] = "Busy" /\ reply[r] # "Busy" =>
                Cardinality({q \in Clients : Holding(q)}) >= Slots]_vars
  <2> SUFFICES ASSUME Next, NEW r \in Clients, reply'[r] = "Busy", reply[r] # "Busy"
               PROVE  Cardinality({q \in Clients : Holding(q)}) >= Slots
      BY <1>1
  <2>1. \E q \in Clients : Busy(q)
    <3>1. reply \in [Clients -> {"none", "Invalid", "Busy", "Sse", "Json", "Internal"}]
        BY <1>1 DEF IInv, Types
    <3>2. PICK q \in Clients :
            \/ Reject(q)
            \/ Busy(q)
            \/ \E k \in Kinds : Admit(q, k)
            \/ Worker(q)
            \/ Client(q)
            \/ Disconnect(q)
            \/ NextRequest(q)
        BY DEF Next
    <3>3. ~(Reject(q) \/ (\E k \in Kinds : Admit(q, k)) \/ Disconnect(q) \/ NextRequest(q))
        BY <3>1 DEF Reject, Admit, Disconnect, NextRequest
    <3>4. ~(Worker(q) \/ Client(q))
        BY <3>1 DEF Worker, Client, SendOpening, ProduceChunk, SendChunk, EngineEnds, Respond,
                    SendClosing, WorkerReturns, WorkerPanics, Receive, EndOfStream
    <3> QED
        BY <3>2, <3>3, <3>4
  <2>2. permits = 0
      BY <2>1 DEF Busy
  <2> QED
      BY <1>1, <2>2, HoldersFinite, ServerAssumption DEF IInv, SlotsConserved, Holders
<1> QED
    BY <1>1, Invariance, PTL DEF Spec, BusyOnlyWhenFull
=============================================================================
