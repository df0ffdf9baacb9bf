-------------------------- MODULE ChatStreamProofs --------------------------
(* One request at a time on the chat page, and complete answers, for any       *)
(* number of sends and any cut of their streams into reads.                    *)
EXTENDS ChatStream, SequenceTheorems, WellFoundedInduction, TLAPS

PCs == {"idle", "token", "request", "read", "failed", "done"}

FlagsOK == dropped \in BOOLEAN /\ streaming \in BOOLEAN /\ pc \in [Sends -> PCs]

\* A running request keeps its messages on the screen, and with them the
\* suggestions away, until the history takes them.
RunningIsShown == ~dropped => \A r \in Sends : Running(r) => r \in shown

OneInv == FlagsOK /\ RunningIsShown /\ OneRequestAtATime

\* What the steps that neither start nor end a request leave alone.
flags == <<pc, shown, dropped, streaming>>

-----------------------------------------------------------------------------
\* A step that leaves the flags alone keeps the invariant.
LEMMA FlagsKept == OneInv /\ UNCHANGED flags => OneInv'
<1> SUFFICES ASSUME OneInv, UNCHANGED flags
             PROVE  OneInv'
  OBVIOUS
<1>1. pc' = pc /\ shown' = shown /\ dropped' = dropped /\ streaming' = streaming
  BY DEF flags
<1>2. \A q \in Sends : Running(q)' <=> Running(q)
  BY <1>1 DEF Running
<1>3. FlagsOK'
  BY <1>1 DEF OneInv, FlagsOK
<1> QED  BY <1>1, <1>2, <1>3 DEF OneInv, RunningIsShown, OneRequestAtATime

\* The agent's steps, the lines and the reads leave the flags alone.
LEMMA OthersKeepFlags ==
  ASSUME NEW r \in Sends,
         AgentStep(r) \/ LineStep(r) \/ Break(r) \/ Read(r)
  PROVE  UNCHANGED flags
<1>1. CASE AgentStep(r)
  BY <1>1 DEF AgentStep, WriteDelta, WriteStop, WriteTool, WriteTail, WriteError, pageVars, flags
<1>2. CASE LineStep(r)
  BY <1>2 DEF LineStep, TextLine, ThinkingLine, ToolLine, ToolUseLine, ImageLine, OtherLine,
              Taken, flags
<1>3. CASE Break(r) \/ Read(r)
  BY <1>3 DEF Break, Read, pageVars, flags
<1> QED  BY <1>1, <1>2, <1>3

\* sendMessage starts only while no request runs: by isStreaming, or since no
\* message, of a running request neither, is on the screen.
LEMMA SendKeeps ==
  ASSUME NEW r \in Sends, OneInv, Send(r)
  PROVE  OneInv'
<1>1. FlagsOK'
  BY DEF OneInv, FlagsOK, PCs, Send
<1>2. ASSUME ~dropped
      PROVE  \A q \in Sends : ~Running(q)
  BY <1>2 DEF OneInv, RunningIsShown, OneRequestAtATime, Send
<1>3. \A q \in Sends : q # r => (Running(q)' <=> Running(q))
  BY DEF OneInv, FlagsOK, Send, Running
<1>4. Running(r)' /\ r \in shown' /\ streaming' /\ dropped' = dropped
  BY DEF OneInv, FlagsOK, Send, Running
<1> QED  BY <1>1, <1>2, <1>3, <1>4 DEF OneInv, RunningIsShown, OneRequestAtATime

\* A request moves on towards its stream.
LEMMA RequestMovesKeeps ==
  ASSUME NEW r \in Sends, OneInv, TokenArrives(r) \/ ResponseArrives(r)
  PROVE  OneInv'
<1>1. FlagsOK' /\ shown' = shown /\ dropped' = dropped /\ streaming' = streaming
  BY DEF OneInv, FlagsOK, PCs, TokenArrives, ResponseArrives
<1>2. \A q \in Sends : Running(q)' <=> Running(q)
  BY DEF OneInv, FlagsOK, TokenArrives, ResponseArrives, Running
<1> QED  BY <1>1, <1>2 DEF OneInv, RunningIsShown, OneRequestAtATime

\* The finally block: the only running request ends, and isStreaming with it.
LEMMA RequestEndsKeeps ==
  ASSUME NEW r \in Sends, OneInv, SendFails(r) \/ EndOfStream(r)
  PROVE  OneInv'
<1>1. FlagsOK' /\ shown' = shown /\ dropped' = dropped /\ streaming' = FALSE
  BY DEF OneInv, FlagsOK, PCs, SendFails, EndOfStream
<1>2. Running(r) /\ ~Running(r)'
  BY DEF OneInv, FlagsOK, SendFails, EndOfStream, Running
<1>3. \A q \in Sends : q # r => (Running(q)' <=> Running(q))
  BY DEF OneInv, FlagsOK, SendFails, EndOfStream, Running
<1> QED  BY <1>1, <1>2, <1>3 DEF OneInv, RunningIsShown, OneRequestAtATime

\* The history replaces the messages: of no running request, or `dropped` is set.
LEMMA HistoryKeeps ==
  ASSUME OneInv, HistoryArrives
  PROVE  OneInv'
<1>1. pc' = pc /\ streaming' = streaming
  BY DEF HistoryArrives
<1>2. \A q \in Sends : Running(q)' <=> Running(q)
  BY <1>1 DEF Running
<1>3. CASE UNCHANGED <<shown, dropped>>
  BY <1>1, <1>3, FlagsKept DEF flags
<1>4. CASE dropped' = (dropped \/ \E q \in Sends : Running(q))
  BY <1>1, <1>2, <1>4 DEF OneInv, FlagsOK, RunningIsShown, OneRequestAtATime
<1> QED  BY <1>3, <1>4 DEF HistoryArrives

-----------------------------------------------------------------------------
\* No page starts a second request while one runs, and isStreaming is set exactly
\* while one does, unless the history has taken a running request's messages.
THEOREM OneRequest == Spec => []OneRequestAtATime
<1>1. Init => OneInv
  BY DEF Init, OneInv, FlagsOK, PCs, RunningIsShown, OneRequestAtATime, Running
<1>2. OneInv /\ [Next]_vars => OneInv'
  <2> SUFFICES ASSUME OneInv, [Next]_vars
               PROVE  OneInv'
    OBVIOUS
  <2>1. CASE UNCHANGED vars
    BY <2>1, FlagsKept DEF vars, pageVars, flags
  <2>2. CASE HistoryArrives
    BY <2>2, HistoryKeeps
  <2>3. CASE Absorb
    BY <2>3, FlagsKept DEF Absorb, flags
  <2>4. ASSUME NEW r \in Sends, Send(r) \/ PageStep(r) \/ LineStep(r) \/ AgentStep(r) \/ Break(r)
        PROVE  OneInv'
    <3>1. CASE Send(r)
      BY <3>1, SendKeeps
    <3>2. CASE TokenArrives(r) \/ ResponseArrives(r)
      BY <3>2, RequestMovesKeeps
    <3>3. CASE SendFails(r) \/ EndOfStream(r)
      BY <3>3, RequestEndsKeeps
    <3>4. CASE AgentStep(r) \/ LineStep(r) \/ Break(r) \/ Read(r)
      BY <3>4, OthersKeepFlags, FlagsKept
    <3> QED  BY <2>4, <3>1, <3>2, <3>3, <3>4 DEF PageStep
  <2> QED  BY <2>1, <2>2, <2>3, <2>4 DEF Next
<1>3. OneInv => OneRequestAtATime
  BY DEF OneInv
<1> QED  BY <1>1, <1>2, <1>3, PTL DEF Spec

-----------------------------------------------------------------------------
(* Complete answers.  Along the lines that are read and not processed and those *)
(* on the wire the deltas are numbered, from the last one processed to the last *)
(* one written.                                                                 *)

IsDelta(l) == l.type \in {"text", "thinking"}

\* c counts the deltas along q, from g on to m, and each delta has its count.
Counts(c, q, g, m) ==
  /\ c \in [0 .. Len(q) -> Nat] /\ c[0] = g /\ c[Len(q)] = m
  /\ \A i \in 1 .. Len(q) :
       /\ IsDelta(q[i]) => c[i] = c[i - 1] + 1 /\ q[i].n = c[i]
       /\ ~IsDelta(q[i]) => c[i] = c[i - 1]

Numbered(q, g, m) == \E c : Counts(c, q, g, m)

LEMMA NothingLeft ==
  ASSUME NEW g, NEW m, Numbered(<<>>, g, m)
  PROVE  g = m
  BY DEF Numbered, Counts

LEMMA NothingYet == Numbered(<<>>, 0, 0)
<1> DEFINE c == [i \in 0 .. 0 |-> 0]
<1>1. c \in [0 .. 0 -> Nat] /\ c[0] = 0
  OBVIOUS
<1> HIDE DEF c
<1>2. Counts(c, <<>>, 0, 0)
  BY <1>1 DEF Counts
<1> QED  BY <1>2 DEF Numbered

LEMMA ConcatOfAppend ==
  ASSUME NEW S, NEW p \in Seq(S), NEW q \in Seq(S), NEW x \in S
  PROVE  p \o Append(q, x) = Append(p \o q, x)
<1>1. p \o q \in Seq(S)
  BY ConcatProperties
<1>2. Append(q, x) = q \o <<x>> /\ Append(p \o q, x) = (p \o q) \o <<x>>
  BY <1>1, AppendIsConcat
<1>3. <<x>> \in Seq(S)
  OBVIOUS
<1> QED  BY <1>2, <1>3, ConcatAssociative

LEMMA TailOfConcat ==
  ASSUME NEW S, NEW p \in Seq(S), NEW q \in Seq(S), p # <<>>
  PROVE  /\ p \o q \in Seq(S) /\ p \o q # <<>> /\ (p \o q)[1] = Head(p)
         /\ Tail(p \o q) = Tail(p) \o q
<1> DEFINE t == Tail(p)
           c == p \o q
           d == t \o q
           e == Tail(c)
<1>1. /\ Len(p) \in Nat \ {0} /\ Len(q) \in Nat /\ t \in Seq(S) /\ Len(t) = Len(p) - 1
      /\ Head(p) = p[1] /\ \A i \in 1 .. Len(t) : t[i] = p[i + 1]
  OBVIOUS
<1>2. /\ c \in Seq(S) /\ Len(c) = Len(p) + Len(q)
      /\ \A i \in 1 .. Len(p) + Len(q) : c[i] = IF i <= Len(p) THEN p[i] ELSE q[i - Len(p)]
  BY ConcatProperties
<1> HIDE DEF t
<1>3. /\ d \in Seq(S) /\ Len(d) = Len(t) + Len(q)
      /\ \A i \in 1 .. Len(t) + Len(q) : d[i] = IF i <= Len(t) THEN t[i] ELSE q[i - Len(t)]
  BY <1>1, ConcatProperties
<1> HIDE DEF c, d
<1>4. c # <<>>
  BY <1>1, <1>2
<1>5. e \in Seq(S) /\ Len(e) = Len(c) - 1 /\ \A i \in 1 .. Len(e) : e[i] = c[i + 1]
  BY <1>2, <1>4, HeadTailProperties
<1> HIDE DEF e
<1>6. ASSUME NEW i \in 1 .. Len(e) PROVE e[i] = d[i]
  <2>1. i + 1 \in 1 .. Len(p) + Len(q) /\ i \in 1 .. Len(t) + Len(q) /\ e[i] = c[i + 1]
    BY <1>1, <1>2, <1>3, <1>5
  <2>2. CASE i <= Len(t)
    <3>1. i \in 1 .. Len(t) /\ i + 1 <= Len(p)
      BY <1>1, <2>2
    <3>2. t[i] = p[i + 1]
      BY <1>1, <3>1
    <3> QED  BY <1>2, <1>3, <2>1, <2>2, <3>1, <3>2
  <2>3. CASE ~(i <= Len(t))
    <3>1. ~(i + 1 <= Len(p)) /\ (i + 1) - Len(p) = i - Len(t)
      BY <1>1, <2>3
    <3>2. c[i + 1] = q[(i + 1) - Len(p)] /\ d[i] = q[i - Len(t)]
      BY <1>2, <1>3, <2>1, <2>3, <3>1
    <3> QED  BY <2>1, <3>1, <3>2
  <2> QED  BY <2>2, <2>3
<1>7. Len(e) = Len(d)
  BY <1>1, <1>2, <1>3, <1>5
<1>8. e = d
  BY <1>3, <1>5, <1>6, <1>7, SeqEqual, Zenon
<1> QED  BY <1>1, <1>2, <1>4, <1>8 DEF c, d, e, t

\* A line joins the end: the next delta, or no delta.
LEMMA LineJoins ==
  ASSUME NEW q \in Seq(Line), NEW g, NEW m \in Nat, Numbered(q, g, m), NEW x \in Line, NEW n,
         n = IF IsDelta(x) THEN m + 1 ELSE m,
         IsDelta(x) => x.n = n
  PROVE  Numbered(Append(q, x), g, n)
<1> DEFINE p == Append(q, x)
<1>1. /\ Len(q) \in Nat /\ Len(p) = Len(q) + 1 /\ p[Len(q) + 1] = x
      /\ \A i \in 1 .. Len(q) : p[i] = q[i]
  OBVIOUS
<1>2. PICK c : Counts(c, q, g, m)
  BY DEF Numbered
<1> DEFINE d == [i \in 0 .. Len(q) + 1 |-> IF i <= Len(q) THEN c[i] ELSE n]
<1> HIDE DEF p
<1>3. n \in Nat
  OBVIOUS
<1>4. d \in [0 .. Len(p) -> Nat] /\ d[0] = g /\ d[Len(p)] = n
  BY <1>1, <1>2, <1>3 DEF Counts
<1>5. ASSUME NEW i \in 1 .. Len(p)
      PROVE  /\ IsDelta(p[i]) => d[i] = d[i - 1] + 1 /\ p[i].n = d[i]
             /\ ~IsDelta(p[i]) => d[i] = d[i - 1]
  <2>1. CASE i <= Len(q)
    <3>1. i \in 1 .. Len(q) /\ d[i] = c[i] /\ d[i - 1] = c[i - 1] /\ p[i] = q[i]
      BY <1>1, <2>1
    <3> QED  BY <1>2, <3>1 DEF Counts
  <2>2. CASE i = Len(q) + 1
    <3>1. d[i] = n /\ d[i - 1] = c[Len(q)] /\ p[i] = x /\ c[Len(q)] = m
      BY <1>1, <1>2, <2>2 DEF Counts
    <3> QED  BY <3>1
  <2> QED  BY <1>1, <2>1, <2>2
<1> HIDE DEF d
<1>6. Counts(d, p, g, n)
  BY <1>4, <1>5 DEF Counts
<1> QED  BY <1>6 DEF Numbered, p

\* The first line is taken: it is the delta after the last one processed, or none.
LEMMA LineIsTaken ==
  ASSUME NEW q \in Seq(Line), NEW g, NEW m, Numbered(q, g, m), q # <<>>
  PROVE  /\ g \in Nat
         /\ IsDelta(q[1]) => q[1].n = g + 1 /\ Numbered(Tail(q), g + 1, m)
         /\ ~IsDelta(q[1]) => Numbered(Tail(q), g, m)
<1> DEFINE t == Tail(q)
<1>1. /\ Len(q) \in Nat \ {0} /\ Len(t) = Len(q) - 1
      /\ \A i \in 1 .. Len(t) : t[i] = q[i + 1]
  OBVIOUS
<1>2. PICK c : Counts(c, q, g, m)
  BY DEF Numbered
<1> DEFINE d == [i \in 0 .. Len(q) - 1 |-> c[i + 1]]
<1> HIDE DEF t
<1>3. d \in [0 .. Len(t) -> Nat] /\ d[0] = c[1] /\ d[Len(t)] = m
  BY <1>1, <1>2 DEF Counts
<1>4. ASSUME NEW i \in 1 .. Len(t)
      PROVE  /\ IsDelta(t[i]) => d[i] = d[i - 1] + 1 /\ t[i].n = d[i]
             /\ ~IsDelta(t[i]) => d[i] = d[i - 1]
  <2>1. /\ i + 1 \in 1 .. Len(q) /\ (i + 1) - 1 = i /\ t[i] = q[i + 1]
        /\ d[i] = c[i + 1] /\ d[i - 1] = c[i]
    BY <1>1
  <2>2. /\ IsDelta(q[i + 1]) => c[i + 1] = c[(i + 1) - 1] + 1 /\ q[i + 1].n = c[i + 1]
        /\ ~IsDelta(q[i + 1]) => c[i + 1] = c[(i + 1) - 1]
    BY <1>2, <2>1, Zenon DEF Counts
  <2> QED  BY <2>1, <2>2
<1> HIDE DEF d
<1>5. Counts(d, t, c[1], m)
  BY <1>3, <1>4 DEF Counts
<1>6. /\ g \in Nat
      /\ IsDelta(q[1]) => c[1] = g + 1 /\ q[1].n = c[1]
      /\ ~IsDelta(q[1]) => c[1] = g
  BY <1>1, <1>2 DEF Counts
<1>7. Numbered(t, c[1], m)
  BY <1>5 DEF Numbered
<1> QED  BY <1>6, <1>7, Zenon DEF t

-----------------------------------------------------------------------------
APCs == {"idle", "model", "tools", "images", "title", "done", "closed", "broken"}

StreamTypeOK ==
  /\ wire \in [Sends -> Seq(Line)] /\ lines \in [Sends -> Seq(Line)]
  /\ sent \in [Sends -> Nat] /\ got \in [Sends -> Nat]
  /\ apc \in [Sends -> APCs] /\ pc \in [Sends -> PCs]

Ahead(r) == lines[r] \o wire[r]

StreamOK(r) ==
  /\ Numbered(Ahead(r), got[r], sent[r])
  /\ lines[r] # <<>> => pc[r] = "read"
  /\ pc[r] = "done" => apc[r] = "closed" /\ wire[r] = <<>>

StreamInv == StreamTypeOK /\ \A r \in Sends : StreamOK(r)

\* Nothing of the stream of request q changes.
Same(q) ==
  /\ wire'[q] = wire[q] /\ lines'[q] = lines[q] /\ sent'[q] = sent[q] /\ got'[q] = got[q]
  /\ apc'[q] = apc[q] /\ pc'[q] = pc[q]

LEMMA SameKeeps ==
  ASSUME NEW q \in Sends, StreamOK(q), Same(q)
  PROVE  StreamOK(q)'
<1>1. Ahead(q)' = Ahead(q)
  BY DEF Same, Ahead
<1> QED  BY <1>1 DEF StreamOK, Same

\* A step of one request that leaves the others alone keeps the invariant if it
\* keeps the request's own part.
LEMMA OneStream ==
  ASSUME NEW r \in Sends, StreamInv, StreamTypeOK', StreamOK(r)',
         \A q \in Sends \ {r} : Same(q)
  PROVE  StreamInv'
<1>1. ASSUME NEW q \in Sends, q # r
      PROVE  StreamOK(q)'
  BY <1>1, SameKeeps DEF StreamInv
<1> QED  BY <1>1 DEF StreamInv

LEMMA PlainIsLine ==
  ASSUME NEW t \in LineTypes
  PROVE  Plain(t) \in Line /\ (t \notin {"text", "thinking"} => ~IsDelta(Plain(t)))
  BY DEF Plain, Line, IsDelta

\* The agent writes a line to the stream of a request that has not ended.
LEMMA WriteKeeps ==
  ASSUME NEW r \in Sends, NEW x \in Line, StreamInv,
         wire' = [wire EXCEPT ![r] = Append(@, x)],
         apc[r] # "closed", apc' \in [Sends -> APCs],
         \A q \in Sends \ {r} : apc'[q] = apc[q] /\ sent'[q] = sent[q],
         sent' \in [Sends -> Nat],
         \/ ~IsDelta(x) /\ sent'[r] = sent[r]
         \/ IsDelta(x) /\ x.n = sent'[r] /\ sent'[r] = sent[r] + 1,
         UNCHANGED <<lines, got, pc>>
  PROVE  StreamInv'
<1>1. StreamTypeOK'
  <2>1. Append(wire[r], x) \in Seq(Line)
    BY DEF StreamInv, StreamTypeOK
  <2>2. wire' \in [Sends -> Seq(Line)]
    BY <2>1 DEF StreamInv, StreamTypeOK
  <2> QED  BY <2>2 DEF StreamInv, StreamTypeOK
<1>2. /\ wire[r] \in Seq(Line) /\ lines[r] \in Seq(Line) /\ wire'[r] = Append(wire[r], x)
      /\ pc'[r] # "done" /\ sent[r] \in Nat
  BY DEF StreamInv, StreamTypeOK, StreamOK
<1>3. Ahead(r)' = Append(Ahead(r), x) /\ Ahead(r) \in Seq(Line)
  <2>1. lines[r] \o Append(wire[r], x) = Append(lines[r] \o wire[r], x)
    <3> DEFINE p == lines[r]
               q == wire[r]
    <3>1. p \in Seq(Line) /\ q \in Seq(Line)
      BY <1>2
    <3> HIDE DEF p, q
    <3>2. p \o Append(q, x) = Append(p \o q, x)
      BY <3>1, ConcatOfAppend
    <3> QED  BY <3>2 DEF p, q
  <2>2. lines[r] \o wire[r] \in Seq(Line)
    BY <1>2, ConcatProperties, Zenon
  <2>3. Ahead(r)' = lines[r] \o Append(wire[r], x)
    BY <1>2 DEF Ahead
  <2> QED  BY <2>1, <2>2, <2>3 DEF Ahead
<1>4. Numbered(Append(Ahead(r), x), got[r], sent'[r])
  BY <1>2, <1>3, LineJoins DEF StreamInv, StreamOK
<1>5. StreamOK(r)'
  BY <1>2, <1>3, <1>4 DEF StreamInv, StreamOK
<1>6. \A q \in Sends \ {r} : Same(q)
  BY DEF Same, StreamInv, StreamTypeOK
<1> QED  BY <1>1, <1>5, <1>6, OneStream

LEMMA AgentKeeps ==
  ASSUME NEW r \in Sends, StreamInv, AgentStep(r)
  PROVE  StreamInv'
<1>1. apc \in [Sends -> APCs] /\ sent \in [Sends -> Nat]
  BY DEF StreamInv, StreamTypeOK
<1>2. CASE WriteDelta(r)
  <2>1. PICK t \in {"text", "thinking"} : Write(r, [type |-> t, n |-> sent[r] + 1])
    BY <1>2 DEF WriteDelta
  <2> DEFINE x == [type |-> t, n |-> sent[r] + 1]
  <2>2. x \in Line /\ IsDelta(x) /\ x.n = sent[r] + 1
    BY <1>1 DEF Line, LineTypes, IsDelta
  <2>3. wire' = [wire EXCEPT ![r] = Append(@, x)]
    BY <2>1 DEF Write
  <2>4. apc[r] # "closed" /\ apc' = apc /\ sent' = [sent EXCEPT ![r] = @ + 1]
        /\ UNCHANGED <<lines, got, pc>>
    BY <1>2 DEF WriteDelta, pageVars
  <2> HIDE DEF x
  <2>5. /\ sent' \in [Sends -> Nat] /\ sent'[r] = sent[r] + 1
        /\ \A q \in Sends \ {r} : apc'[q] = apc[q] /\ sent'[q] = sent[q]
    BY <1>1, <2>4
  <2> QED  BY <1>1, <2>2, <2>3, <2>4, <2>5, WriteKeeps
<1>3. CASE WriteError(r)
  <2> DEFINE x == [type |-> "text", n |-> sent[r] + 1]
  <2>2. x \in Line /\ IsDelta(x) /\ x.n = sent[r] + 1
    BY <1>1 DEF Line, LineTypes, IsDelta
  <2>3. wire' = [wire EXCEPT ![r] = Append(@, x)]
    BY <1>3 DEF WriteError, Write
  <2>4. apc[r] # "closed" /\ apc' = [apc EXCEPT ![r] = "closed"]
        /\ sent' = [sent EXCEPT ![r] = @ + 1] /\ UNCHANGED <<lines, got, pc>>
    BY <1>3 DEF WriteError, pageVars
  <2> HIDE DEF x
  <2>5. /\ sent' \in [Sends -> Nat] /\ sent'[r] = sent[r] + 1 /\ apc' \in [Sends -> APCs]
        /\ \A q \in Sends \ {r} : apc'[q] = apc[q] /\ sent'[q] = sent[q]
    BY <1>1, <2>4 DEF APCs
  <2> QED  BY <2>2, <2>3, <2>4, <2>5, WriteKeeps
<1>4. CASE WriteStop(r) \/ WriteTool(r) \/ WriteTail(r)
  <2>1. PICK t \in LineTypes \ {"text", "thinking"} : Write(r, Plain(t))
    BY <1>4 DEF WriteStop, WriteTool, WriteTail, LineTypes
  <2>2. /\ apc[r] # "closed" /\ apc' \in [Sends -> APCs]
        /\ \A q \in Sends \ {r} : apc'[q] = apc[q]
        /\ sent' = sent /\ UNCHANGED <<lines, got, pc>>
    BY <1>1, <1>4 DEF WriteStop, WriteTool, WriteTail, APCs, pageVars
  <2>3. Plain(t) \in Line /\ ~IsDelta(Plain(t))
    BY PlainIsLine
  <2>4. wire' = [wire EXCEPT ![r] = Append(@, Plain(t))]
    BY <2>1 DEF Write
  <2> QED  BY <1>1, <2>2, <2>3, <2>4, WriteKeeps
<1> QED  BY <1>2, <1>3, <1>4 DEF AgentStep

\* The page processes one line.
LEMMA LineKeeps ==
  ASSUME NEW r \in Sends, StreamInv, LineStep(r)
  PROVE  /\ StreamInv'
         /\ IsDelta(Head(lines[r])) => Head(lines[r]).n = got[r] + 1
<1> DEFINE h == IF IsDelta(Head(lines[r])) THEN Head(lines[r]).n ELSE got[r]
<1>1. /\ lines[r] # <<>> /\ lines' = [lines EXCEPT ![r] = Tail(@)]
      /\ UNCHANGED <<wire, sent, apc, pc>>
  BY DEF LineStep, TextLine, ThinkingLine, ToolLine, ToolUseLine, ImageLine, OtherLine, Taken,
         agentVars
<1>2. got' = [got EXCEPT ![r] = h]
  <2>1. CASE TextLine(r) \/ ThinkingLine(r)
    BY <2>1 DEF TextLine, ThinkingLine, Taken, IsDelta
  <2>2. CASE ToolLine(r) \/ ToolUseLine(r) \/ ImageLine(r) \/ OtherLine(r)
    <3>1. ~IsDelta(Head(lines[r])) /\ got' = got
      BY <2>2 DEF ToolLine, ToolUseLine, ImageLine, OtherLine, Taken, IsDelta
    <3> QED  BY <3>1 DEF StreamInv, StreamTypeOK
  <2> QED  BY <2>1, <2>2 DEF LineStep
<1>3. /\ lines[r] \in Seq(Line) /\ wire[r] \in Seq(Line) /\ Tail(lines[r]) \in Seq(Line)
      /\ Head(lines[r]) \in Line
  BY <1>1 DEF StreamInv, StreamTypeOK
<1>4. /\ Ahead(r) \in Seq(Line) /\ Ahead(r) # <<>> /\ Ahead(r)[1] = Head(lines[r])
      /\ Tail(Ahead(r)) = Tail(lines[r]) \o wire[r]
  BY <1>1, <1>3, TailOfConcat DEF Ahead
<1>5. /\ IsDelta(Head(lines[r])) => Head(lines[r]).n = got[r] + 1
      /\ Numbered(Tail(lines[r]) \o wire[r], h, sent[r])
  <2>1. Numbered(Ahead(r), got[r], sent[r])
    BY DEF StreamInv, StreamOK
  <2> QED  BY <1>4, <2>1, LineIsTaken
<1>6. h \in Nat
  BY <1>3 DEF Line, StreamInv, StreamTypeOK
<1> HIDE DEF h
<1>7. StreamTypeOK' /\ \A q \in Sends \ {r} : Same(q)
  BY <1>1, <1>2, <1>3, <1>6 DEF StreamInv, StreamTypeOK, Same
<1>8. /\ lines'[r] = Tail(lines[r]) /\ got'[r] = h /\ UNCHANGED <<wire, sent, apc, pc>>
      /\ pc[r] = "read"
  BY <1>1, <1>2 DEF StreamInv, StreamTypeOK, StreamOK
<1>9. StreamOK(r)'
  BY <1>5, <1>8 DEF StreamOK, Ahead
<1> QED  BY <1>5, <1>7, <1>9, OneStream

LEMMA ReadKeeps ==
  ASSUME NEW r \in Sends, StreamInv, Read(r)
  PROVE  StreamInv'
<1>1. PICK n \in 0 .. Len(wire[r]) :
        /\ lines' = [lines EXCEPT ![r] = SubSeq(wire[r], 1, n)]
        /\ wire' = [wire EXCEPT ![r] = SubSeq(@, n + 1, Len(@))]
  BY DEF Read
<1>2. lines[r] = <<>> /\ pc[r] = "read" /\ UNCHANGED <<sent, got, apc, pc>>
  BY DEF Read, Busy, agentVars, pageVars
<1> DEFINE a == SubSeq(wire[r], 1, n)
           b == SubSeq(wire[r], n + 1, Len(wire[r]))
<1>3. wire[r] \in Seq(Line) /\ lines[r] \in Seq(Line)
  BY DEF StreamInv, StreamTypeOK
<1>4. a \in Seq(Line) /\ b \in Seq(Line) /\ a \o b = wire[r]
  <2>1. /\ Len(wire[r]) \in Nat /\ 1 \in 1 .. Len(wire[r]) + 1 /\ n \in 1 - 1 .. Len(wire[r])
        /\ Len(wire[r]) \in n .. Len(wire[r])
    BY <1>3
  <2>2. a \o b = SubSeq(wire[r], 1, Len(wire[r]))
    BY <1>3, <2>1, ConcatAdjacentSubSeq, Zenon
  <2>3. SubSeq(wire[r], 1, Len(wire[r])) = wire[r]
    BY <1>3, SubSeqFull, Zenon
  <2>4. a \in Seq(Line) /\ b \in Seq(Line)
    BY <1>3
  <2> QED  BY <2>2, <2>3, <2>4
<1>5. lines' = [lines EXCEPT ![r] = a] /\ wire' = [wire EXCEPT ![r] = b]
  BY <1>1
<1> HIDE DEF a, b
<1>6. StreamTypeOK' /\ \A q \in Sends \ {r} : Same(q)
  BY <1>2, <1>4, <1>5 DEF StreamInv, StreamTypeOK, Same
<1>7. Ahead(r)' = Ahead(r)
  <2>1. Ahead(r) = wire[r]
    BY <1>2, <1>3 DEF Ahead
  <2>2. Ahead(r)' = a \o b
    BY <1>5 DEF Ahead, StreamInv, StreamTypeOK
  <2> QED  BY <1>4, <2>1, <2>2
<1>8. StreamOK(r)'
  BY <1>2, <1>7 DEF StreamInv, StreamOK
<1> QED  BY <1>6, <1>8, OneStream

\* The request's own steps, and the end of its connection: no line moves.
LEMMA RequestKeeps ==
  ASSUME NEW r \in Sends, StreamInv,
         \/ Send(r) \/ TokenArrives(r) \/ ResponseArrives(r) \/ SendFails(r) \/ EndOfStream(r)
         \/ Break(r)
  PROVE  StreamInv'
<1>1. UNCHANGED <<wire, lines, sent, got>>
  BY DEF Send, TokenArrives, ResponseArrives, SendFails, EndOfStream, Break, agentVars, pageVars
<1>2. StreamTypeOK' /\ \A q \in Sends \ {r} : Same(q)
  BY <1>1 DEF StreamInv, StreamTypeOK, Same, APCs, PCs, agentVars, pageVars,
              Send, TokenArrives, ResponseArrives, SendFails, EndOfStream, Break
<1>3. /\ pc'[r] = "done" => apc'[r] = "closed" /\ wire[r] = <<>>
      /\ lines[r] # <<>> => pc'[r] = "read"
  BY DEF StreamInv, StreamTypeOK, StreamOK, agentVars, pageVars, Busy,
         Send, TokenArrives, ResponseArrives, SendFails, EndOfStream, Break
<1>4. Ahead(r)' = Ahead(r)
  BY <1>1 DEF Ahead
<1>5. StreamOK(r)'
  BY <1>1, <1>3, <1>4 DEF StreamInv, StreamOK
<1> QED  BY <1>2, <1>5, OneStream

LEMMA StreamInit ==
  ASSUME Init
  PROVE  StreamInv
<1>1. StreamTypeOK
  BY DEF Init, StreamTypeOK, APCs, PCs
<1>2. ASSUME NEW r \in Sends
      PROVE  StreamOK(r)
  <2>1. lines[r] = <<>> /\ wire[r] = <<>> /\ got[r] = 0 /\ sent[r] = 0 /\ pc[r] = "idle"
    BY DEF Init
  <2>2. <<>> \o <<>> = <<>>
    OBVIOUS
  <2> QED  BY <2>1, <2>2, NothingYet DEF StreamOK, Ahead
<1> QED  BY <1>1, <1>2 DEF StreamInv

LEMMA StreamStep ==
  ASSUME StreamInv, [Next]_vars
  PROVE  StreamInv'
<1>1. ASSUME UNCHANGED <<wire, lines, sent, got, apc, pc>>
      PROVE  StreamInv'
  <2>1. StreamTypeOK' /\ \A q \in Sends : Same(q)
    BY <1>1 DEF StreamInv, StreamTypeOK, Same
  <2> QED  BY <2>1, SameKeeps DEF StreamInv
<1>2. CASE UNCHANGED vars \/ Absorb \/ HistoryArrives
  BY <1>1, <1>2 DEF vars, agentVars, pageVars, Absorb, HistoryArrives
<1>3. ASSUME NEW r \in Sends, Send(r) \/ PageStep(r) \/ LineStep(r) \/ AgentStep(r) \/ Break(r)
      PROVE  StreamInv'
  BY <1>3, AgentKeeps, LineKeeps, ReadKeeps, RequestKeeps DEF PageStep
<1> QED  BY <1>2, <1>3 DEF Next

\* Whatever the network makes of a stream, an answer that ends without an error
\* has been shown to the last delta.
THEOREM AnswersAreComplete == Spec => []FinishedIsComplete
<1>1. StreamInv => FinishedIsComplete
  <2> SUFFICES ASSUME StreamInv, NEW r \in Sends, pc[r] = "done"
               PROVE  apc[r] = "closed" /\ got[r] = sent[r]
    BY DEF FinishedIsComplete
  <2>1. wire[r] = <<>> /\ lines[r] = <<>> /\ apc[r] = "closed"
    BY DEF StreamInv, StreamOK
  <2>2. <<>> \o <<>> = <<>>
    OBVIOUS
  <2>3. Numbered(Ahead(r), got[r], sent[r])
    BY DEF StreamInv, StreamOK
  <2>4. Ahead(r) = <<>>
    BY <2>1, <2>2 DEF Ahead
  <2> QED  BY <2>1, <2>3, <2>4, NothingLeft
<1> QED  BY <1>1, StreamInit, StreamStep, PTL DEF Spec
-----------------------------------------------------------------------------
(* Types.                                                                     *)

LineTyped ==
  /\ wire \in [Sends -> Seq(Line)] /\ lines \in [Sends -> Seq(Line)]
  /\ cut \in [Sends -> BOOLEAN]
  /\ \A r \in Sends : cut[r] => wire[r] # <<>>

AgentTyped == apc \in [Sends -> APCs] /\ sent \in [Sends -> Nat] /\ rounds \in [Sends -> Nat]

PageTyped ==
  /\ pc \in [Sends -> PCs] /\ shown \subseteq Sends
  /\ restored \in BOOLEAN /\ dropped \in BOOLEAN /\ loading \in BOOLEAN /\ streaming \in BOOLEAN

BubbleTyped ==
  /\ bubble \in [Sends -> Bubbles]
  /\ \A r \in Sends : \A f \in bubble[r].fading : f.id \in 1 .. stamp
  /\ stamp \in Nat /\ got \in [Sends -> Nat]
  /\ timers \in Seq([send : Sends, id : Nat \ {0}])

LEMMA PartsOfTypes == TypeOK <=> LineTyped /\ AgentTyped /\ PageTyped /\ BubbleTyped
  BY DEF TypeOK, LineTyped, AgentTyped, PageTyped, BubbleTyped, APCs, PCs

LEMMA LeastElement ==
  ASSUME NEW S \in SUBSET Nat, S # {}
  PROVE  \E m \in S : \A k \in S : m <= k
<1>1. PICK m \in S : \A k \in S : ~(<<k, m>> \in OpToRel(<, Nat))
  BY NatLessThanWellFounded, WFMin, Zenon
<1>2. \A k \in S : ~(k < m)
  BY <1>1 DEF OpToRel
<1> QED  BY <1>2

\* Of texts there is a first one: the one with the least delta.
LEMMA FirstIsOne ==
  ASSUME NEW texts, texts # {}, \A f \in texts : f.text \in SUBSET Nat
  PROVE  First(texts) \in texts
<1> DEFINE all == UNION {f.text : f \in texts}
<1>1. \E f \in texts : \A g \in texts : \A n \in g.text : \E m \in f.text : m <= n
  <2>1. CASE all = {}
    <3>1. \A g \in texts : g.text = {}
      BY <2>1
    <3> QED  BY <3>1
  <2>2. CASE all # {}
    <3>1. all \in SUBSET Nat
      OBVIOUS
    <3> HIDE DEF all
    <3>2. PICK m \in all : \A n \in all : m <= n
      BY <2>2, <3>1, LeastElement
    <3>3. PICK f \in texts : m \in f.text
      BY DEF all
    <3>4. \A g \in texts : \A n \in g.text : n \in all
      BY DEF all
    <3> QED  BY <3>2, <3>3, <3>4
  <2> QED  BY <2>1, <2>2
<1> QED  BY <1>1 DEF First

-----------------------------------------------------------------------------
\* The bubbles that the actions make.

LEMMA EmptyIsBubble == Empty \in Bubbles /\ Empty.fading = {}
<1>1. <<>> \in Seq(Steps)
  OBVIOUS
<1> QED  BY <1>1 DEF Empty, Bubbles

LEMMA StepTyped ==
  ASSUME NEW b \in Bubbles, NEW t \in {"thinking", "tool"}, NEW D \in SUBSET Nat
  PROVE  /\ Step(t, D) \in Steps /\ Step(t, D).deltas = D
         /\ Append(b.steps, Step(t, D)) \in Seq(Steps)
<1>1. Step(t, D) \in Steps /\ Step(t, D).deltas = D
  BY DEF Step, Steps
<1>2. b.steps \in Seq(Steps)
  BY DEF Bubbles
<1> QED  BY <1>1, <1>2

-----------------------------------------------------------------------------
(* Where the deltas of a bubble are.                                          *)

\* The first g deltas, each in one place; no two fading texts have one id.
Placed(b, g) ==
  /\ b.content \cup Fading(b) \cup Deltas(b.steps) = 1 .. g
  /\ b.content \cap (Fading(b) \cup Deltas(b.steps)) = {}
  /\ Fading(b) \cap Deltas(b.steps) = {}
  /\ \A f, h \in b.fading : f # h => f.id # h.id /\ f.text \cap h.text = {}

LEMMA DeltasOfAppend ==
  ASSUME NEW s \in Seq(Steps), NEW x \in Steps
  PROVE  Deltas(Append(s, x)) = Deltas(s) \cup x.deltas
<1> DEFINE p == Append(s, x)
<1>1. /\ Len(s) \in Nat /\ Len(p) = Len(s) + 1 /\ p[Len(s) + 1] = x
      /\ \A k \in 1 .. Len(s) : p[k] = s[k]
  OBVIOUS
<1> HIDE DEF p
<1>2. ASSUME NEW n \in Deltas(p)
      PROVE  n \in Deltas(s) \cup x.deltas
  <2>1. PICK k \in 1 .. Len(p) : n \in p[k].deltas
    BY DEF Deltas
  <2>2. k \in 1 .. Len(s) \/ k = Len(s) + 1
    BY <1>1
  <2> QED  BY <1>1, <2>1, <2>2 DEF Deltas
<1>3. ASSUME NEW n \in Deltas(s)
      PROVE  n \in Deltas(p)
  <2>1. PICK k \in 1 .. Len(s) : n \in s[k].deltas
    BY DEF Deltas
  <2>2. k \in 1 .. Len(p) /\ p[k] = s[k]
    BY <1>1
  <2> QED  BY <2>1, <2>2 DEF Deltas
<1>4. x.deltas \subseteq Deltas(p)
  <2>1. Len(s) + 1 \in 1 .. Len(p)
    BY <1>1
  <2> QED  BY <1>1, <2>1 DEF Deltas
<1> QED  BY <1>2, <1>3, <1>4 DEF p

\* The last step grows by a delta.
LEMMA DeltasOfLast ==
  ASSUME NEW s \in Seq(Steps), NEW n \in Nat, NEW x \in Steps, s # <<>>,
         x.deltas = s[Len(s)].deltas \cup {n}
  PROVE  /\ [s EXCEPT ![Len(s)] = x] \in Seq(Steps)
         /\ Deltas([s EXCEPT ![Len(s)] = x]) = Deltas(s) \cup {n}
<1> DEFINE p == [s EXCEPT ![Len(s)] = x]
<1>1. Len(s) \in Nat /\ Len(s) \in 1 .. Len(s)
  OBVIOUS
<1>2. /\ p \in Seq(Steps) /\ Len(p) = Len(s)
      /\ \A k \in 1 .. Len(s) : p[k] = IF k = Len(s) THEN x ELSE s[k]
  BY <1>1, ExceptSeq
<1> HIDE DEF p
<1>3. ASSUME NEW d \in Deltas(p)
      PROVE  d \in Deltas(s) \cup {n}
  <2>1. PICK k \in 1 .. Len(s) : d \in p[k].deltas
    BY <1>2 DEF Deltas
  <2>2. d \in s[k].deltas \cup {n}
    BY <1>2, <2>1
  <2> QED  BY <2>2 DEF Deltas
<1>4. ASSUME NEW d \in Deltas(s)
      PROVE  d \in Deltas(p)
  <2>1. PICK k \in 1 .. Len(s) : d \in s[k].deltas
    BY DEF Deltas
  <2>2. d \in p[k].deltas
    BY <1>2, <2>1
  <2> QED  BY <1>2, <2>2 DEF Deltas
<1>5. n \in Deltas(p)
  <2>1. n \in p[Len(s)].deltas
    BY <1>1, <1>2
  <2> QED  BY <1>1, <1>2, <2>1 DEF Deltas
<1> QED  BY <1>2, <1>3, <1>4, <1>5 DEF p

LEMMA EmptyIsPlaced == Placed(Empty, 0)
<1>1. /\ Empty.content = {} /\ Empty.fading = {} /\ Empty.steps = <<>>
  BY DEF Empty
<1>2. Deltas(<<>>) = {}
  BY DEF Deltas
<1>3. Fading(Empty) = {} /\ 1 .. 0 = {}
  BY <1>1 DEF Fading
<1> QED  BY <1>1, <1>2, <1>3 DEF Placed

\* A delta of the text.
LEMMA TextBubble ==
  ASSUME NEW b \in Bubbles, NEW n \in Nat, NEW c, c = [b EXCEPT !.content = @ \cup {n}]
  PROVE  /\ c \in Bubbles /\ c.fading = b.fading
         /\ \A g \in Nat : Placed(b, g) /\ n = g + 1 => Placed(c, n)
<1>1. /\ c \in Bubbles /\ c.fading = b.fading /\ c.steps = b.steps
      /\ c.content = b.content \cup {n}
  BY DEF Bubbles
<1>2. Fading(c) = Fading(b)
  BY <1>1 DEF Fading
<1>3. ASSUME NEW g \in Nat, Placed(b, g), n = g + 1
      PROVE  Placed(c, n)
  <2>1. 1 .. n = (1 .. g) \cup {n} /\ n \notin 1 .. g
    BY <1>3
  <2>2. /\ b.content \cup Fading(b) \cup Deltas(b.steps) = 1 .. g
        /\ b.content \cap (Fading(b) \cup Deltas(b.steps)) = {}
        /\ Fading(b) \cap Deltas(b.steps) = {}
    BY <1>3 DEF Placed
  <2>3. /\ c.content \cup Fading(c) \cup Deltas(c.steps) = 1 .. n
        /\ c.content \cap (Fading(c) \cup Deltas(c.steps)) = {}
        /\ Fading(c) \cap Deltas(c.steps) = {}
    BY <1>1, <1>2, <2>1, <2>2
  <2> QED  BY <1>1, <1>3, <2>3 DEF Placed
<1> QED  BY <1>1, <1>3

\* Steps that are the old ones and the delta n, or just the old ones.
LEMMA StepsBubble ==
  ASSUME NEW b \in Bubbles, NEW s \in Seq(Steps), NEW D \in SUBSET Nat,
         Deltas(s) = Deltas(b.steps) \cup D, NEW c, c = [b EXCEPT !.steps = s]
  PROVE  /\ c \in Bubbles /\ c.fading = b.fading
         /\ \A g \in Nat : Placed(b, g) /\ D = {} => Placed(c, g)
         /\ \A g \in Nat : Placed(b, g) /\ D = {g + 1} => Placed(c, g + 1)
<1>1. c \in Bubbles /\ c.fading = b.fading /\ c.steps = s /\ c.content = b.content
  BY DEF Bubbles
<1>2. Fading(c) = Fading(b)
  BY <1>1 DEF Fading
<1>3. ASSUME NEW g \in Nat, Placed(b, g), D = {g + 1}
      PROVE  Placed(c, g + 1)
  <2>1. 1 .. (g + 1) = (1 .. g) \cup D /\ \A n \in D : n \notin 1 .. g
    BY <1>3
  <2>2. Deltas(c.steps) = Deltas(b.steps) \cup D /\ c.content = b.content /\ c.fading = b.fading
    BY <1>1
  <2>3. /\ b.content \cup Fading(b) \cup Deltas(b.steps) = 1 .. g
        /\ b.content \cap (Fading(b) \cup Deltas(b.steps)) = {}
        /\ Fading(b) \cap Deltas(b.steps) = {}
    BY <1>3 DEF Placed
  <2>4. /\ c.content \cup Fading(c) \cup Deltas(c.steps) = 1 .. (g + 1)
        /\ c.content \cap (Fading(c) \cup Deltas(c.steps)) = {}
        /\ Fading(c) \cap Deltas(c.steps) = {}
    BY <1>2, <2>1, <2>2, <2>3
  <2> QED  BY <1>3, <2>2, <2>4 DEF Placed
<1>4. ASSUME NEW g \in Nat, Placed(b, g), D = {}
      PROVE  Placed(c, g)
  BY <1>1, <1>2, <1>4 DEF Placed
<1> QED  BY <1>1, <1>3, <1>4

LEMMA ImageBubble ==
  ASSUME NEW b \in Bubbles, NEW c, c = [b EXCEPT !.images = @ + 1]
  PROVE  /\ c \in Bubbles /\ c.fading = b.fading
         /\ \A g \in Nat : Placed(b, g) => Placed(c, g)
<1>1. c \in Bubbles /\ c.fading = b.fading /\ c.steps = b.steps /\ c.content = b.content
  BY DEF Bubbles
<1>2. Fading(c) = Fading(b)
  BY <1>1 DEF Fading
<1> QED  BY <1>1, <1>2 DEF Placed

\* A stop for tools: the text goes to the fading texts under an id of its own.
LEMMA StopPlaces ==
  ASSUME NEW b \in Bubbles, NEW i \in Nat, NEW c, NEW g \in Nat,
         c.content = {}, c.steps = b.steps,
         c.fading = b.fading \cup {[id |-> i, text |-> b.content]},
         Placed(b, g), \A f \in b.fading : f.id # i
  PROVE  Placed(c, g)
<1> DEFINE e == [id |-> i, text |-> b.content]
<1>1. c.content = {} /\ c.steps = b.steps /\ c.fading = b.fading \cup {e}
  OBVIOUS
<1>2. e.id = i /\ e.text = b.content
  OBVIOUS
<1> HIDE DEF e
<1>3. Fading(c) = Fading(b) \cup b.content
  BY <1>1, <1>2 DEF Fading
<1>4. \A f \in b.fading : f.text \cap b.content = {}
  BY DEF Placed, Fading
<1>5. \A f, h \in c.fading : f # h => f.id # h.id /\ f.text \cap h.text = {}
  BY <1>1, <1>2, <1>4 DEF Placed
<1> QED  BY <1>1, <1>3, <1>5 DEF Placed

\* The fading text f becomes the step s.
LEMMA AbsorbPlaces ==
  ASSUME NEW b \in Bubbles, NEW f \in b.fading, NEW s \in Steps, NEW c, NEW g \in Nat,
         c.content = b.content, c.fading = b.fading \ {f}, c.steps = Append(b.steps, s),
         s.deltas = f.text, Placed(b, g)
  PROVE  Placed(c, g)
<1>1. Deltas(c.steps) = Deltas(b.steps) \cup f.text
  <2>1. b.steps \in Seq(Steps)
    BY DEF Bubbles
  <2> QED  BY <2>1, DeltasOfAppend
<1>2. Fading(b) = Fading(c) \cup f.text /\ Fading(c) \cap f.text = {}
  BY DEF Fading, Placed
<1>3. \A h, k \in c.fading : h # k => h.id # k.id /\ h.text \cap k.text = {}
  BY DEF Placed
<1>4. /\ b.content \cup Fading(b) \cup Deltas(b.steps) = 1 .. g
      /\ b.content \cap (Fading(b) \cup Deltas(b.steps)) = {}
      /\ Fading(b) \cap Deltas(b.steps) = {}
  BY DEF Placed
<1>5. /\ c.content \cup Fading(c) \cup Deltas(c.steps) = 1 .. g
      /\ c.content \cap (Fading(c) \cup Deltas(c.steps)) = {}
      /\ Fading(c) \cap Deltas(c.steps) = {}
  BY <1>1, <1>2, <1>4
<1> QED  BY <1>3, <1>5 DEF Placed

-----------------------------------------------------------------------------
\* What a line makes of the bubble: of its right type, with the ids of fading
\* texts in the past, and, when the lines come in order and no two stops fall into
\* one millisecond, with every delta in its one place.
Shows(r, c) ==
  /\ c \in Bubbles /\ Update(r, c)
  /\ stamp' \in Nat /\ stamp' >= stamp
  /\ timers' \in Seq([send : Sends, id : Nat \ {0}])
  /\ \A f \in c.fading : f.id \in 1 .. stamp'
  /\ \/ UNCHANGED got
     \/ got' = [got EXCEPT ![r] = Head(lines[r]).n]
  /\ /\ r \in shown /\ OneStopPerMillisecond
     /\ IsDelta(Head(lines[r])) => Head(lines[r]).n = got[r] + 1
     /\ Placed(bubble[r], got[r])
     => Placed(c, got'[r])

LEMMA LineIsOfType ==
  ASSUME NEW r \in Sends, TypeOK, LineStep(r)
  PROVE  lines[r] # <<>> /\ Head(lines[r]) \in Line /\ Head(lines[r]).n \in Nat
<1>1. lines[r] \in Seq(Line) /\ lines[r] # <<>>
  BY DEF TypeOK, LineStep, TextLine, ThinkingLine, ToolLine, ToolUseLine, ImageLine, OtherLine,
         Taken
<1>2. Head(lines[r]) \in Line
  BY <1>1
<1> QED  BY <1>1, <1>2 DEF Line

LEMMA TextShows ==
  ASSUME NEW r \in Sends, TypeOK, TextLine(r)
  PROVE  \E c : Shows(r, c)
<1> DEFINE b == bubble[r]
           n == Head(lines[r]).n
           c == [b EXCEPT !.content = @ \cup {n}]
<1>1. /\ Update(r, c) /\ got' = [got EXCEPT ![r] = n] /\ UNCHANGED <<stamp, timers>>
      /\ Head(lines[r]).type = "text"
  BY DEF TextLine, Taken
<1>2. /\ b \in Bubbles /\ got[r] \in Nat /\ got'[r] = n /\ stamp \in Nat
      /\ timers \in Seq([send : Sends, id : Nat \ {0}])
      /\ \A f \in b.fading : f.id \in 1 .. stamp
  BY <1>1 DEF TypeOK
<1>3. n \in Nat
  BY LineIsOfType DEF LineStep
<1> HIDE DEF n
<1>4. /\ c \in Bubbles /\ c.fading = b.fading
      /\ Placed(b, got[r]) /\ n = got[r] + 1 => Placed(c, n)
  BY <1>2, <1>3, TextBubble
<1> HIDE DEF c, b
<1>5. Shows(r, c)
  BY <1>1, <1>2, <1>4 DEF Shows, IsDelta, b, n
<1> QED  BY <1>5

LEMMA ThinkingShows ==
  ASSUME NEW r \in Sends, TypeOK, ThinkingLine(r)
  PROVE  \E c : Shows(r, c)
<1> DEFINE b == bubble[r]
           n == Head(lines[r]).n
           old == b.steps
           last == Len(old)
           goesOn == last > 0 /\ old[last].type = "thinking"
           grown == IF goesOn
                    THEN [old EXCEPT ![last] = Step("thinking", @.deltas \cup {n})]
                    ELSE Append(old, Step("thinking", {n}))
           c == [b EXCEPT !.steps = grown]
<1>1. /\ Update(r, c) /\ got' = [got EXCEPT ![r] = n] /\ UNCHANGED <<stamp, timers>>
      /\ Head(lines[r]).type = "thinking"
  BY DEF ThinkingLine, Taken
<1>2. /\ b \in Bubbles /\ got[r] \in Nat /\ got'[r] = n /\ stamp \in Nat
      /\ timers \in Seq([send : Sends, id : Nat \ {0}])
      /\ \A f \in b.fading : f.id \in 1 .. stamp
  BY <1>1 DEF TypeOK
<1>3. n \in Nat
  BY LineIsOfType DEF LineStep
<1> HIDE DEF n
<1>4. grown \in Seq(Steps) /\ Deltas(grown) = Deltas(old) \cup {n}
  <2> HIDE DEF b
  <2>1. old \in Seq(Steps)
    BY <1>2 DEF Bubbles
  <2> HIDE DEF old
  <2>2. CASE goesOn
    <3> DEFINE D == old[last].deltas \cup {n}
               x == Step("thinking", D)
    <3>1. old # <<>> /\ last \in 1 .. last
      BY <2>1, <2>2
    <3>2. old[last] \in Steps
      BY <2>1, <3>1
    <3>3. D \in SUBSET Nat
      BY <1>3, <3>2 DEF Steps
    <3> HIDE DEF D
    <3>4. x \in Steps /\ x.deltas = D
      BY <1>2, <3>3, StepTyped
    <3>5. grown = [old EXCEPT ![last] = x]
      BY <2>2 DEF D
    <3> HIDE DEF x
    <3>6. x.deltas = old[last].deltas \cup {n}
      BY <3>4 DEF D
    <3> HIDE DEF grown
    <3> QED  BY <1>3, <2>1, <3>1, <3>4, <3>5, <3>6, DeltasOfLast, Zenon
  <2>3. CASE ~goesOn
    <3> DEFINE x == Step("thinking", {n})
    <3>1. {n} \in SUBSET Nat
      BY <1>3
    <3>2. x \in Steps /\ x.deltas = {n}
      BY <1>2, <3>1, StepTyped
    <3>3. grown = Append(old, x)
      BY <2>3
    <3> HIDE DEF x, grown
    <3>4. grown \in Seq(Steps)
      BY <2>1, <3>2, <3>3
    <3>5. Deltas(grown) = Deltas(old) \cup {n}
      BY <2>1, <3>2, <3>3, DeltasOfAppend, Zenon
    <3> QED  BY <3>4, <3>5
  <2> QED  BY <2>2, <2>3
<1> HIDE DEF grown
<1>5. {n} \in SUBSET Nat
  BY <1>3
<1>6. /\ c \in Bubbles /\ c.fading = b.fading
      /\ \A g \in Nat : Placed(b, g) /\ {n} = {g + 1} => Placed(c, g + 1)
  <2>1. c = [b EXCEPT !.steps = grown]
    OBVIOUS
  <2>2. Deltas(grown) = Deltas(b.steps) \cup {n}
    BY <1>4
  <2> HIDE DEF b, c
  <2> QED  BY <1>2, <1>4, <1>5, <2>1, <2>2, StepsBubble, Zenon
<1> HIDE DEF c, b
<1>7. Placed(b, got[r]) /\ n = got[r] + 1 => Placed(c, n)
  BY <1>2, <1>6
<1>8. Shows(r, c)
  BY <1>1, <1>2, <1>6, <1>7 DEF Shows, IsDelta, b, n
<1> QED  BY <1>8

LEMMA ToolShows ==
  ASSUME NEW r \in Sends, TypeOK, ToolLine(r) \/ ImageLine(r)
  PROVE  \E c : Shows(r, c)
<1> DEFINE b == bubble[r]
           x == Step("tool", {})
           s == Append(b.steps, x)
           c == IF ToolLine(r) THEN [b EXCEPT !.steps = Append(@, x)]
                               ELSE [b EXCEPT !.images = @ + 1]
<1>1. Update(r, c) /\ UNCHANGED <<got, stamp, timers>>
  BY DEF ToolLine, ImageLine
<1>2. /\ b \in Bubbles /\ got[r] \in Nat /\ stamp \in Nat
      /\ timers \in Seq([send : Sends, id : Nat \ {0}])
      /\ \A f \in b.fading : f.id \in 1 .. stamp
  BY DEF TypeOK
<1>3. /\ c \in Bubbles /\ c.fading = b.fading
      /\ Placed(b, got[r]) => Placed(c, got[r])
  <2> HIDE DEF b
  <2>1. {} \in SUBSET Nat
    OBVIOUS
  <2>2. x \in Steps /\ x.deltas = {} /\ s \in Seq(Steps) /\ b.steps \in Seq(Steps)
    BY <1>2, <2>1, StepTyped DEF Bubbles
  <2>3. Deltas(s) = Deltas(b.steps) \cup {}
    BY <2>2, DeltasOfAppend
  <2> HIDE DEF x, s
  <2>4. CASE ToolLine(r)
    <3>1. c = [b EXCEPT !.steps = s]
      BY <2>4 DEF s
    <3> QED  BY <1>2, <2>1, <2>2, <2>3, <3>1, StepsBubble
  <2>5. CASE ~ToolLine(r)
    BY <1>2, <2>5, ImageBubble
  <2> QED  BY <2>4, <2>5
<1> HIDE DEF c, b
<1>4. Shows(r, c)
  BY <1>1, <1>2, <1>3 DEF Shows, b
<1> QED  BY <1>4

\* A step that leaves the bubble alone.
LEMMA NothingShows ==
  ASSUME NEW r \in Sends, TypeOK, UNCHANGED <<bubble, stamp, timers, got>>
  PROVE  \E c : Shows(r, c)
<1> DEFINE c == bubble[r]
<1>1. /\ c \in Bubbles /\ Update(r, c) /\ stamp \in Nat
      /\ timers \in Seq([send : Sends, id : Nat \ {0}])
      /\ \A f \in c.fading : f.id \in 1 .. stamp
  BY DEF TypeOK, Update
<1>2. Shows(r, c)
  BY <1>1 DEF Shows
<1> QED  BY <1>2

LEMMA ToolUseShows ==
  ASSUME NEW r \in Sends, TypeOK, ToolUseLine(r)
  PROVE  \E c : Shows(r, c)
<1>1. CASE UNCHANGED <<bubble, stamp, timers>>
  BY <1>1, NothingShows DEF ToolUseLine
<1>2. CASE ~UNCHANGED <<bubble, stamp, timers>>
  <2> DEFINE b == bubble[r]
             e == [id |-> stamp', text |-> b.content]
             mid == [b EXCEPT !.content = {}]
             c == [b EXCEPT !.content = {}, !.fading = @ \cup {e}]
  <2>1. /\ r \in shown /\ got' = got
        /\ \/ stamp' = stamp + 1
           \/ stamp' = stamp /\ \E k \in 1 .. Len(timers) : timers[k].id = stamp
        /\ Update(r, c)
        /\ timers' = Append(timers, [send |-> r, id |-> stamp'])
    BY <1>2 DEF ToolUseLine
  <2>2. /\ b \in Bubbles /\ got[r] \in Nat /\ stamp \in Nat
        /\ timers \in Seq([send : Sends, id : Nat \ {0}])
        /\ \A f \in b.fading : f.id \in 1 .. stamp
    BY DEF TypeOK
  <2>3. stamp' \in Nat \ {0} /\ stamp' >= stamp
    <3>1. ASSUME NEW k \in 1 .. Len(timers), timers[k].id = stamp
          PROVE  stamp # 0
      <4>1. timers[k] \in [send : Sends, id : Nat \ {0}]
        BY <2>2, ElementOfSeq, Zenon
      <4> QED  BY <3>1, <4>1
    <3> QED  BY <2>1, <2>2, <3>1
  <2>4. timers' \in Seq([send : Sends, id : Nat \ {0}]) /\ timers' # timers
    <3> DEFINE t == [send |-> r, id |-> stamp']
    <3>1. t \in [send : Sends, id : Nat \ {0}]
      BY <2>3
    <3> HIDE DEF t
    <3>2. timers' = Append(timers, t)
      BY <2>1 DEF t
    <3> QED  BY <2>2, <3>1, <3>2
  <2> HIDE DEF b
  <2>5. c \in Bubbles /\ c.content = {} /\ c.steps = b.steps /\ c.fading = b.fading \cup {e}
    <3> DEFINE F == b.fading \cup {e}
    <3>1. mid \in Bubbles /\ mid.content = {} /\ mid.steps = b.steps /\ mid.fading = b.fading
      BY <2>2 DEF Bubbles
    <3>2. c = [mid EXCEPT !.fading = F]
      BY <3>1, Zenon
    <3>3. e \in [id : Nat, text : SUBSET Nat] /\ b.fading \in SUBSET [id : Nat, text : SUBSET Nat]
      BY <2>2, <2>3 DEF Bubbles
    <3> HIDE DEF c, e, mid
    <3>4. F \in SUBSET [id : Nat, text : SUBSET Nat]
      BY <3>3
    <3> HIDE DEF F
    <3>5. c \in Bubbles /\ c.content = {} /\ c.steps = b.steps /\ c.fading = F
      BY <3>1, <3>2, <3>4 DEF Bubbles
    <3> QED  BY <3>5 DEF F
  <2> HIDE DEF c
  <2>6. \A f \in c.fading : f.id \in 1 .. stamp'
    BY <2>2, <2>3, <2>5
  <2>7. OneStopPerMillisecond /\ Placed(b, got[r]) => Placed(c, got[r])
    <3> SUFFICES ASSUME OneStopPerMillisecond, Placed(b, got[r])
                 PROVE  Placed(c, got[r])
      OBVIOUS
    <3>1. stamp' = stamp + 1
      BY <2>1, <2>4 DEF OneStopPerMillisecond
    <3>2. \A f \in b.fading : f.id # stamp'
      BY <2>2, <3>1
    <3> QED  BY <2>2, <2>3, <2>5, <3>2, StopPlaces
  <2>8. Shows(r, c)
    BY <2>1, <2>2, <2>3, <2>4, <2>5, <2>6, <2>7 DEF Shows, b
  <2> QED  BY <2>8
<1> QED  BY <1>1, <1>2

LEMMA LineShows ==
  ASSUME NEW r \in Sends, TypeOK, LineStep(r)
  PROVE  \E c : Shows(r, c)
<1>1. CASE OtherLine(r)
  BY <1>1, NothingShows DEF OtherLine
<1> QED  BY <1>1, TextShows, ThinkingShows, ToolShows, ToolUseShows DEF LineStep

\* The timeout: the same for what becomes of a fading text.
LEMMA AbsorbShows ==
  ASSUME TypeOK, Absorb
  PROVE  /\ timers' \in Seq([send : Sends, id : Nat \ {0}])
         /\ \E q \in Sends, c \in Bubbles :
              /\ Update(q, c) /\ c.fading \subseteq bubble[q].fading
              /\ \A g \in Nat : Placed(bubble[q], g) => Placed(c, g)
<1> DEFINE T == [send : Sends, id : Nat \ {0}]
           t == Head(timers)
           q == t.send
           b == bubble[q]
           F == Named(t)
           s == Step("thinking", First(F).text)
           mid == [b EXCEPT !.fading = b.fading \ F]
           c == [b EXCEPT !.fading = @ \ F, !.steps = Append(@, s)]
<1>1. timers \in Seq(T) /\ timers # <<>> /\ timers' = Tail(timers)
  BY DEF TypeOK, Absorb
<1>2. timers' \in Seq(T) /\ t \in T
  <2> HIDE DEF T
  <2> QED  BY <1>1
<1>3. q \in Sends /\ b \in Bubbles
  <2>1. q \in Sends
    BY <1>2
  <2> QED  BY <2>1 DEF TypeOK
<1>4. F = {f \in b.fading : f.id = t.id}
  BY DEF Named
<1>5. CASE F = {}
  <2>1. bubble' = bubble /\ bubble \in [Sends -> Bubbles]
    BY <1>5 DEF Absorb, TypeOK
  <2> HIDE DEF q
  <2>2. Update(q, b)
    BY <1>3, <2>1 DEF Update
  <2> HIDE DEF b, T
  <2>3. b.fading \subseteq b.fading /\ \A g \in Nat : Placed(b, g) => Placed(b, g)
    OBVIOUS
  <2> QED  BY <1>2, <1>3, <2>2, <2>3, Zenon DEF b, T
<1>6. CASE F # {}
  <2>1. Update(q, c)
    BY <1>6 DEF Absorb
  <2> HIDE DEF q, b, F
  <2>2. b.fading \in SUBSET [id : Nat, text : SUBSET Nat] /\ F \in SUBSET b.fading
    BY <1>3, <1>4 DEF Bubbles
  <2>3. \A f \in F : f.text \in SUBSET Nat
    BY <2>2
  <2>4. First(F) \in F
    BY <1>6, <2>3, FirstIsOne
  <2>5. s \in Steps /\ s.deltas = First(F).text
    BY <1>3, <2>3, <2>4, StepTyped
  <2> HIDE DEF s
  <2>6. /\ mid \in Bubbles /\ mid.content = b.content /\ mid.steps = b.steps
        /\ mid.fading = b.fading \ F
    BY <1>3, <2>2 DEF Bubbles
  <2>7. c = [mid EXCEPT !.steps = Append(b.steps, s)]
    BY <2>6, Zenon
  <2> HIDE DEF mid, c
  <2>8. b.steps \in Seq(Steps)
    BY <1>3 DEF Bubbles
  <2>9. Append(b.steps, s) \in Seq(Steps)
    BY <2>5, <2>8
  <2>10. /\ c \in Bubbles /\ c.content = b.content /\ c.fading = b.fading \ F
         /\ c.steps = Append(b.steps, s)
    BY <2>6, <2>7, <2>9 DEF Bubbles
  <2>11. ASSUME NEW g \in Nat, Placed(b, g)
         PROVE  Placed(c, g)
    <3>1. F = {First(F)} /\ First(F) \in b.fading
      BY <1>4, <2>2, <2>4, <2>11 DEF Placed
    <3> QED  BY <1>3, <2>5, <2>10, <2>11, <3>1, AbsorbPlaces
  <2>12. c.fading \subseteq b.fading
    BY <2>10
  <2> HIDE DEF T
  <2> QED  BY <1>2, <1>3, <2>1, <2>10, <2>11, <2>12, Zenon DEF b, T
<1> QED  BY <1>5, <1>6

-----------------------------------------------------------------------------
\* A new bubble of one send whose fading texts have ids up to the new stamp.
LEMMA UpdateTyped ==
  ASSUME NEW r \in Sends, NEW c \in Bubbles, TypeOK, Update(r, c),
         \A f \in c.fading : f.id \in 1 .. stamp', stamp' \in Nat, stamp' >= stamp
  PROVE  /\ bubble' \in [Sends -> Bubbles]
         /\ \A q \in Sends : \A f \in bubble'[q].fading : f.id \in 1 .. stamp'
         /\ bubble'[r] = IF r \in shown THEN c ELSE bubble[r]
         /\ \A q \in Sends \ {r} : bubble'[q] = bubble[q]
<1>1. /\ bubble \in [Sends -> Bubbles] /\ stamp \in Nat
      /\ \A q \in Sends : \A f \in bubble[q].fading : f.id \in 1 .. stamp
  BY DEF TypeOK
<1>2. /\ bubble' \in [Sends -> Bubbles]
      /\ bubble'[r] = IF r \in shown THEN c ELSE bubble[r]
      /\ \A q \in Sends \ {r} : bubble'[q] = bubble[q]
  BY <1>1 DEF Update
<1>3. \A i \in 1 .. stamp : i \in 1 .. stamp'
  BY <1>1
<1> QED  BY <1>1, <1>2, <1>3

LEMMA LineKeepsTypes ==
  ASSUME NEW r \in Sends, TypeOK, LineStep(r)
  PROVE  TypeOK'
<1>1. PICK c : Shows(r, c)
  BY LineShows
<1>2. BubbleTyped'
  <2>1. /\ bubble' \in [Sends -> Bubbles]
        /\ \A q \in Sends : \A f \in bubble'[q].fading : f.id \in 1 .. stamp'
    BY <1>1, UpdateTyped DEF Shows
  <2>2. got' \in [Sends -> Nat]
    BY <1>1, LineIsOfType DEF Shows, TypeOK
  <2> QED  BY <1>1, <2>1, <2>2 DEF Shows, BubbleTyped
<1>3. /\ lines' = [lines EXCEPT ![r] = Tail(@)] /\ lines[r] # <<>>
      /\ UNCHANGED <<apc, sent, rounds, wire, cut, pc, shown, restored, dropped, loading, streaming>>
  BY DEF LineStep, TextLine, ThinkingLine, ToolLine, ToolUseLine, ImageLine, OtherLine, Taken,
         agentVars
<1>4. lines' \in [Sends -> Seq(Line)]
  <2>1. lines[r] \in Seq(Line)
    BY DEF TypeOK
  <2>2. Tail(lines[r]) \in Seq(Line)
    BY <1>3, <2>1
  <2> QED  BY <1>3, <2>2 DEF TypeOK
<1>5. LineTyped' /\ AgentTyped' /\ PageTyped'
  BY <1>3, <1>4, PartsOfTypes DEF LineTyped, AgentTyped, PageTyped
<1> QED
  BY <1>2, <1>5 DEF TypeOK, LineTyped, AgentTyped, PageTyped, BubbleTyped, APCs, PCs

LEMMA BubblesKept ==
  ASSUME TypeOK, UNCHANGED <<bubble, stamp, timers, got>>
  PROVE  BubbleTyped'
  BY DEF TypeOK, BubbleTyped

LEMMA AgentKeepsTypes ==
  ASSUME NEW r \in Sends, TypeOK, AgentStep(r)
  PROVE  TypeOK'
<1>1. /\ apc \in [Sends -> APCs] /\ sent \in [Sends -> Nat] /\ rounds \in [Sends -> Nat]
      /\ wire \in [Sends -> Seq(Line)]
  BY DEF TypeOK, APCs
<1>2. AgentTyped'
  <2>1. apc' \in [Sends -> APCs]
    BY <1>1 DEF APCs, AgentStep, WriteDelta, WriteStop, WriteTool, WriteTail, WriteError
  <2>2. sent' = sent \/ sent' = [sent EXCEPT ![r] = @ + 1]
    BY DEF AgentStep, WriteDelta, WriteStop, WriteTool, WriteTail, WriteError
  <2>3. rounds' = rounds \/ rounds' = [rounds EXCEPT ![r] = @ + 1]
    BY DEF AgentStep, WriteDelta, WriteStop, WriteTool, WriteTail, WriteError
  <2>4. sent' \in [Sends -> Nat]
    BY <1>1, <2>2
  <2>5. rounds' \in [Sends -> Nat]
    <3>1. rounds \in [Sends -> Nat] /\ rounds[r] + 1 \in Nat
      BY <1>1
    <3> QED  BY <2>3, <3>1
  <2> QED  BY <2>1, <2>4, <2>5 DEF AgentTyped
<1>3. PICK x \in Line : wire' = [wire EXCEPT ![r] = Append(@, x)]
  <2>1. \A t \in {"text", "thinking"} : [type |-> t, n |-> sent[r] + 1] \in Line
    BY <1>1 DEF Line, LineTypes
  <2>2. \A t \in LineTypes : Plain(t) \in Line
    BY DEF Line, Plain
  <2> QED  BY <2>1, <2>2 DEF AgentStep, WriteDelta, WriteStop, WriteTool, WriteTail, WriteError,
                             Write, LineTypes
<1>4. UNCHANGED <<cut, lines, pageVars>>
  BY DEF AgentStep, WriteDelta, WriteStop, WriteTool, WriteTail, WriteError
<1>5. LineTyped'
  <2>1. wire[r] \in Seq(Line)
    BY <1>1
  <2>2. Append(wire[r], x) \in Seq(Line) /\ Append(wire[r], x) # <<>>
    BY <2>1, AppendProperties
  <2> QED  BY <1>1, <1>3, <1>4, <2>2 DEF TypeOK, LineTyped
<1>6. PageTyped' /\ BubbleTyped'
  BY <1>4, BubblesKept DEF TypeOK, PageTyped, pageVars, PCs
<1> QED
  BY <1>2, <1>5, <1>6 DEF TypeOK, LineTyped, AgentTyped, PageTyped, BubbleTyped, APCs, PCs

\* The request's own steps but its reads.
LEMMA RequestKeepsTypes ==
  ASSUME NEW r \in Sends, TypeOK,
         \/ Send(r) \/ TokenArrives(r) \/ ResponseArrives(r) \/ SendFails(r) \/ EndOfStream(r)
         \/ Break(r)
  PROVE  TypeOK'
<1>1. UNCHANGED <<wire, cut, lines, sent, rounds, got, stamp, timers>>
  BY DEF Send, TokenArrives, ResponseArrives, SendFails, EndOfStream, Break, agentVars, pageVars
<1>2. LineTyped'
  BY <1>1 DEF TypeOK, LineTyped
<1>3. AgentTyped' /\ PageTyped'
  BY DEF TypeOK, AgentTyped, PageTyped, APCs, PCs, agentVars, pageVars,
         Send, TokenArrives, ResponseArrives, SendFails, EndOfStream, Break
<1>4. BubbleTyped'
  <2>1. CASE SendFails(r)
    <3> DEFINE c == [bubble[r] EXCEPT !.content = {}]
    <3>1. bubble[r] \in Bubbles /\ stamp \in Nat /\ \A f \in bubble[r].fading : f.id \in 1 .. stamp
      BY DEF TypeOK
    <3>2. c \in Bubbles /\ c.fading = bubble[r].fading
      BY <3>1 DEF Bubbles
    <3>3. Update(r, c)
      BY <2>1 DEF SendFails
    <3> HIDE DEF c
    <3>4. /\ bubble' \in [Sends -> Bubbles]
          /\ \A q \in Sends : \A f \in bubble'[q].fading : f.id \in 1 .. stamp'
      BY <1>1, <3>1, <3>2, <3>3, UpdateTyped
    <3> QED  BY <1>1, <3>4 DEF TypeOK, BubbleTyped
  <2>2. CASE ~SendFails(r)
    BY <1>1, <2>2, BubblesKept
       DEF Send, TokenArrives, ResponseArrives, EndOfStream, Break, pageVars
  <2> QED  BY <2>1, <2>2
<1> QED
  BY <1>2, <1>3, <1>4 DEF TypeOK, LineTyped, AgentTyped, PageTyped, BubbleTyped, APCs, PCs

\* A read leaves what it has begun on the wire.
LEMMA ReadKeepsTypes ==
  ASSUME NEW r \in Sends, TypeOK, Read(r)
  PROVE  TypeOK'
<1>1. PICK n \in 0 .. Len(wire[r]), half \in BOOLEAN :
        /\ half => n < Len(wire[r])
        /\ lines' = [lines EXCEPT ![r] = SubSeq(wire[r], 1, n)]
        /\ wire' = [wire EXCEPT ![r] = SubSeq(@, n + 1, Len(@))]
        /\ cut' = [cut EXCEPT ![r] = half]
  BY DEF Read
<1> DEFINE a == SubSeq(wire[r], 1, n)
           b == SubSeq(wire[r], n + 1, Len(wire[r]))
<1>2. wire[r] \in Seq(Line)
  BY DEF TypeOK
<1>3. a \in Seq(Line) /\ b \in Seq(Line) /\ (half => b # <<>>)
  <2>1. Len(wire[r]) \in Nat
    BY <1>2
  <2>2. Len(b) = IF n + 1 <= Len(wire[r]) THEN Len(wire[r]) - n ELSE 0
    BY <1>2
  <2>3. a \in Seq(Line) /\ b \in Seq(Line)
    BY <1>2
  <2>4. half => Len(b) # 0
    BY <1>1, <2>1, <2>2
  <2> HIDE DEF b
  <2> QED  BY <2>3, <2>4
<1>4. lines' = [lines EXCEPT ![r] = a] /\ wire' = [wire EXCEPT ![r] = b]
  BY <1>1
<1>5. UNCHANGED <<agentVars, pageVars>>
  BY DEF Read
<1> HIDE DEF a, b
<1>6. LineTyped'
  <2>1. /\ wire \in [Sends -> Seq(Line)] /\ lines \in [Sends -> Seq(Line)]
        /\ cut \in [Sends -> BOOLEAN] /\ \A q \in Sends : cut[q] => wire[q] # <<>>
    BY DEF TypeOK
  <2>2. /\ wire' \in [Sends -> Seq(Line)] /\ lines' \in [Sends -> Seq(Line)]
        /\ cut' \in [Sends -> BOOLEAN]
    BY <1>1, <1>3, <1>4, <2>1
  <2>3. \A q \in Sends : cut'[q] => wire'[q] # <<>>
    BY <1>1, <1>3, <1>4, <2>1
  <2> QED  BY <2>2, <2>3 DEF LineTyped
<1>7. AgentTyped' /\ PageTyped' /\ BubbleTyped'
  BY <1>5, BubblesKept DEF TypeOK, AgentTyped, PageTyped, agentVars, pageVars, APCs, PCs
<1> QED
  BY <1>6, <1>7 DEF TypeOK, LineTyped, AgentTyped, PageTyped, BubbleTyped, APCs, PCs

LEMMA AbsorbKeepsTypes ==
  ASSUME TypeOK, Absorb
  PROVE  TypeOK'
<1>1. /\ UNCHANGED <<apc, sent, rounds, wire, cut, lines, pc, shown, restored, dropped, loading,
                     streaming, stamp, got>>
  BY DEF Absorb, agentVars
<1>2. PICK q \in Sends, c \in Bubbles : Update(q, c) /\ c.fading \subseteq bubble[q].fading
  BY AbsorbShows
<1>3. stamp' = stamp /\ stamp \in Nat /\ \A f \in c.fading : f.id \in 1 .. stamp'
  BY <1>1, <1>2 DEF TypeOK
<1>4. /\ bubble' \in [Sends -> Bubbles]
      /\ \A p \in Sends : \A f \in bubble'[p].fading : f.id \in 1 .. stamp'
  BY <1>2, <1>3, UpdateTyped
<1>5. BubbleTyped'
  BY <1>1, <1>4, AbsorbShows DEF TypeOK, BubbleTyped
<1>6. LineTyped' /\ AgentTyped' /\ PageTyped'
  BY <1>1 DEF TypeOK, LineTyped, AgentTyped, PageTyped, APCs, PCs
<1> QED
  BY <1>5, <1>6 DEF TypeOK, LineTyped, AgentTyped, PageTyped, BubbleTyped, APCs, PCs

LEMMA HistoryKeepsTypes ==
  ASSUME TypeOK, HistoryArrives
  PROVE  TypeOK'
<1>1. UNCHANGED <<apc, sent, rounds, wire, cut, lines, pc, streaming, stamp, timers, got>>
  BY DEF HistoryArrives, agentVars
<1>2. PageTyped'
  BY <1>1 DEF HistoryArrives, TypeOK, PageTyped, PCs
<1>3. BubbleTyped'
  BY <1>1, EmptyIsBubble DEF HistoryArrives, TypeOK, BubbleTyped
<1>4. LineTyped' /\ AgentTyped'
  BY <1>1 DEF TypeOK, LineTyped, AgentTyped, APCs
<1> QED
  BY <1>2, <1>3, <1>4 DEF TypeOK, LineTyped, AgentTyped, PageTyped, BubbleTyped, APCs, PCs

LEMMA TypesInit ==
  ASSUME Init
  PROVE  TypeOK
<1>1. AgentTyped /\ PageTyped
  BY DEF Init, AgentTyped, PageTyped, APCs, PCs
<1>2. LineTyped
  <2>1. <<>> \in Seq(Line)
    OBVIOUS
  <2> QED  BY <2>1 DEF Init, LineTyped
<1>3. BubbleTyped
  <2>1. timers \in Seq([send : Sends, id : Nat \ {0}])
    BY DEF Init
  <2> QED  BY <2>1, EmptyIsBubble DEF Init, BubbleTyped
<1> QED  BY <1>1, <1>2, <1>3, PartsOfTypes

LEMMA TypesStep ==
  ASSUME TypeOK, [Next]_vars
  PROVE  TypeOK'
<1>1. CASE UNCHANGED vars
  BY <1>1 DEF TypeOK, vars, agentVars, pageVars
<1>2. ASSUME NEW r \in Sends, Send(r) \/ PageStep(r) \/ LineStep(r) \/ AgentStep(r) \/ Break(r)
      PROVE  TypeOK'
  BY <1>2, AgentKeepsTypes, LineKeepsTypes, ReadKeepsTypes, RequestKeepsTypes DEF PageStep
<1> QED  BY <1>1, <1>2, AbsorbKeepsTypes, HistoryKeepsTypes DEF Next

\* The state keeps its types, half a line was read of a line that is there, and a
\* fading text is named by a millisecond that has been, whatever the requests, the
\* cuts of their streams and the timers do.
THEOREM ChatTypeCorrect == Spec => []TypeOK
  BY TypesInit, TypesStep, PTL DEF Spec

-----------------------------------------------------------------------------
(* Nothing is lost.                                                           *)

\* A bubble off the screen is empty, a request that was not sent has none, and
\* on the screen, until its request fails, a bubble has its deltas in place.
ShownOK(r) ==
  /\ r \notin shown => bubble[r] = Empty
  /\ pc[r] = "idle" => r \notin shown /\ got[r] = 0
  /\ r \in shown /\ pc[r] # "failed" => Placed(bubble[r], got[r])

PlacedInv == TypeOK /\ StreamInv /\ \A r \in Sends : ShownOK(r)

\* Nothing of q's bubble changes, and q has not just been sent.
SameBubble(q) ==
  /\ bubble'[q] = bubble[q] /\ got'[q] = got[q] /\ (q \in shown' <=> q \in shown)
  /\ pc'[q] = "idle" => pc[q] = "idle"
  /\ pc'[q] # "failed" => pc[q] # "failed"

LEMMA SameBubbleKeeps ==
  ASSUME NEW q \in Sends, ShownOK(q), SameBubble(q)
  PROVE  ShownOK(q)'
  BY DEF ShownOK, SameBubble

LEMMA LinePlaces ==
  ASSUME PlacedInv, NEW r \in Sends, LineStep(r), OneStopPerMillisecond, NEW q \in Sends
  PROVE  ShownOK(q)'
<1>1. /\ TypeOK /\ StreamInv /\ ShownOK(r) /\ ShownOK(q)
      /\ lines[r] # <<>> /\ UNCHANGED <<pc, shown>>
  BY DEF PlacedInv, LineStep, TextLine, ThinkingLine, ToolLine, ToolUseLine, ImageLine, OtherLine,
         Taken
<1>2. PICK c : Shows(r, c)
  BY <1>1, LineShows
<1>3. /\ bubble'[r] = IF r \in shown THEN c ELSE bubble[r]
      /\ \A p \in Sends \ {r} : bubble'[p] = bubble[p]
  BY <1>1, <1>2, UpdateTyped DEF Shows
<1>4. \A p \in Sends \ {r} : got'[p] = got[p]
  BY <1>1, <1>2 DEF Shows, TypeOK
<1>5. pc[r] = "read"
  BY <1>1 DEF StreamInv, StreamOK
<1>6. CASE q = r
  <2>1. r \in shown => Placed(bubble[r], got[r])
    BY <1>1, <1>5 DEF ShownOK
  <2>2. r \in shown => Placed(c, got'[r])
    BY <1>1, <1>2, <2>1, LineKeeps DEF Shows
  <2> QED  BY <1>1, <1>3, <1>5, <1>6, <2>2 DEF ShownOK
<1>7. CASE q # r
  <2>1. SameBubble(q)
    BY <1>1, <1>3, <1>4, <1>7 DEF SameBubble
  <2> QED  BY <1>1, <2>1, SameBubbleKeeps
<1> QED  BY <1>6, <1>7

LEMMA AbsorbKeepsPlaces ==
  ASSUME PlacedInv, Absorb, NEW q \in Sends
  PROVE  ShownOK(q)'
<1>1. TypeOK /\ ShownOK(q) /\ UNCHANGED <<pc, shown, got, stamp>>
  BY DEF PlacedInv, Absorb
<1>2. PICK r \in Sends, c \in Bubbles :
        /\ Update(r, c) /\ c.fading \subseteq bubble[r].fading
        /\ \A g \in Nat : Placed(bubble[r], g) => Placed(c, g)
  BY <1>1, AbsorbShows
<1>3. stamp' \in Nat /\ stamp' >= stamp /\ \A f \in c.fading : f.id \in 1 .. stamp'
  BY <1>1, <1>2 DEF TypeOK
<1>4. /\ bubble'[r] = IF r \in shown THEN c ELSE bubble[r]
      /\ \A p \in Sends \ {r} : bubble'[p] = bubble[p]
  BY <1>1, <1>2, <1>3, UpdateTyped
<1>5. CASE q = r /\ r \in shown
  <2>1. got[r] \in Nat
    BY <1>1 DEF TypeOK
  <2> QED  BY <1>1, <1>2, <1>4, <1>5, <2>1 DEF ShownOK
<1>6. CASE ~(q = r /\ r \in shown)
  <2>1. SameBubble(q)
    BY <1>1, <1>4, <1>6 DEF SameBubble
  <2> QED  BY <1>1, <2>1, SameBubbleKeeps
<1> QED  BY <1>5, <1>6

\* The message of a new request is empty, and none of its deltas has come.
LEMMA SendPlaces ==
  ASSUME PlacedInv, NEW r \in Sends, Send(r), NEW q \in Sends
  PROVE  ShownOK(q)'
<1>1. /\ TypeOK /\ ShownOK(r) /\ ShownOK(q) /\ pc[r] = "idle"
      /\ pc' = [pc EXCEPT ![r] = "token"] /\ shown' = shown \cup {r} /\ UNCHANGED <<bubble, got>>
  BY DEF PlacedInv, Send
<1>2. CASE q = r
  <2>1. bubble[r] = Empty /\ got[r] = 0 /\ pc'[r] = "token"
    BY <1>1 DEF ShownOK, TypeOK
  <2> QED  BY <1>1, <1>2, <2>1, EmptyIsPlaced DEF ShownOK
<1>3. CASE q # r
  <2>1. SameBubble(q)
    BY <1>1, <1>3 DEF SameBubble, TypeOK
  <2> QED  BY <1>1, <2>1, SameBubbleKeeps
<1> QED  BY <1>2, <1>3

LEMMA FailurePlaces ==
  ASSUME PlacedInv, NEW r \in Sends, SendFails(r), NEW q \in Sends
  PROVE  ShownOK(q)'
<1>1. /\ TypeOK /\ ShownOK(r) /\ ShownOK(q)
      /\ pc' = [pc EXCEPT ![r] = "failed"] /\ UNCHANGED <<shown, got>>
  BY DEF PlacedInv, SendFails
<1>2. /\ r \notin shown => bubble' = bubble
      /\ \A p \in Sends \ {r} : bubble'[p] = bubble[p]
  BY <1>1 DEF SendFails, Update, TypeOK
<1>3. pc'[r] = "failed" /\ \A p \in Sends \ {r} : pc'[p] = pc[p]
  BY <1>1 DEF TypeOK
<1>4. CASE q = r
  BY <1>1, <1>2, <1>3, <1>4 DEF ShownOK
<1>5. CASE q # r
  <2>1. SameBubble(q)
    BY <1>1, <1>2, <1>3, <1>5 DEF SameBubble
  <2> QED  BY <1>1, <2>1, SameBubbleKeeps
<1> QED  BY <1>4, <1>5

LEMMA HistoryPlaces ==
  ASSUME PlacedInv, HistoryArrives, NEW q \in Sends
  PROVE  ShownOK(q)'
<1>1. TypeOK /\ ShownOK(q) /\ UNCHANGED <<pc, got>>
  BY DEF PlacedInv, HistoryArrives
<1>2. CASE UNCHANGED <<shown, bubble>>
  BY <1>1, <1>2 DEF ShownOK
<1>3. CASE shown' = {} /\ bubble' = [r \in Sends |-> Empty]
  BY <1>1, <1>3 DEF ShownOK
<1> QED  BY <1>2, <1>3 DEF HistoryArrives

\* What moves no line, no bubble and no message.
LEMMA OthersKeepPlaces ==
  ASSUME PlacedInv, NEW q \in Sends, UNCHANGED <<bubble, got, shown>>,
         pc'[q] = "idle" => pc[q] = "idle", pc'[q] # "failed" => pc[q] # "failed"
  PROVE  ShownOK(q)'
  BY SameBubbleKeeps DEF PlacedInv, SameBubble

LEMMA PlacedStep ==
  ASSUME PlacedInv, [Next]_vars, [OneStopPerMillisecond]_vars
  PROVE  PlacedInv'
<1>1. TypeOK' /\ StreamInv'
  BY TypesStep, StreamStep DEF PlacedInv
<1>2. ASSUME NEW q \in Sends
      PROVE  ShownOK(q)'
  <2>1. CASE UNCHANGED vars
    BY <2>1, OthersKeepPlaces DEF vars, pageVars
  <2>2. CASE Absorb
    BY <2>2, AbsorbKeepsPlaces
  <2>3. CASE HistoryArrives
    BY <2>3, HistoryPlaces
  <2>4. ASSUME NEW r \in Sends, LineStep(r)
        PROVE  ShownOK(q)'
    <3>1. lines' # lines
      <4>1. lines[r] \in Seq(Line) /\ lines[r] # <<>> /\ lines' = [lines EXCEPT ![r] = Tail(@)]
        BY <2>4 DEF PlacedInv, TypeOK, LineStep, TextLine, ThinkingLine, ToolLine, ToolUseLine,
                    ImageLine, OtherLine, Taken
      <4>2. Len(Tail(lines[r])) # Len(lines[r]) /\ lines'[r] = Tail(lines[r])
        BY <4>1 DEF PlacedInv, TypeOK
      <4> QED  BY <4>2
    <3>2. OneStopPerMillisecond
      BY <3>1 DEF vars
    <3> QED  BY <2>4, <3>2, LinePlaces
  <2>5. ASSUME NEW r \in Sends, Send(r)
        PROVE  ShownOK(q)'
    BY <2>5, SendPlaces
  <2>6. ASSUME NEW r \in Sends, SendFails(r)
        PROVE  ShownOK(q)'
    BY <2>6, FailurePlaces
  <2>7. ASSUME NEW r \in Sends, AgentStep(r) \/ Break(r) \/ Read(r)
        PROVE  ShownOK(q)'
    <3>1. UNCHANGED pageVars
      BY <2>7 DEF AgentStep, WriteDelta, WriteStop, WriteTool, WriteTail, WriteError, Break, Read
    <3> QED  BY <3>1, OthersKeepPlaces DEF pageVars
  <2>8. ASSUME NEW r \in Sends, TokenArrives(r) \/ ResponseArrives(r) \/ EndOfStream(r)
        PROVE  ShownOK(q)'
    <3>1. UNCHANGED <<bubble, got, shown>>
      BY <2>8 DEF TokenArrives, ResponseArrives, EndOfStream
    <3>2. /\ pc[r] # "failed"
          /\ \E v \in {"request", "read", "done"} : pc' = [pc EXCEPT ![r] = v]
      BY <2>8 DEF TokenArrives, ResponseArrives, EndOfStream
    <3>3. (pc'[q] = "idle" => pc[q] = "idle") /\ (pc'[q] # "failed" => pc[q] # "failed")
      BY <3>2 DEF PlacedInv, TypeOK
    <3> QED  BY <3>1, <3>3, OthersKeepPlaces
  <2> QED  BY <2>1, <2>2, <2>3, <2>4, <2>5, <2>6, <2>7, <2>8 DEF Next, PageStep
<1> QED  BY <1>1, <1>2 DEF PlacedInv

\* Of an answer on the screen no delta is lost or repeated, for any cut of the
\* stream into reads and any timing of the timers, as long as no two stops for
\* tools fall into one millisecond.
THEOREM NothingIsLost == Spec /\ [][OneStopPerMillisecond]_vars => []NothingLost
<1>1. Init => PlacedInv
  <2> SUFFICES ASSUME Init
               PROVE  PlacedInv
    OBVIOUS
  <2>1. \A r \in Sends : ShownOK(r)
    BY DEF Init, ShownOK
  <2> QED  BY <2>1, TypesInit, StreamInit DEF PlacedInv
<1>2. PlacedInv /\ [Next]_vars /\ [OneStopPerMillisecond]_vars => PlacedInv'
  BY PlacedStep
<1>3. PlacedInv => NothingLost
  <2> SUFFICES ASSUME PlacedInv, NEW r \in shown, pc[r] # "failed"
               PROVE  /\ bubble[r].content \cup Fading(bubble[r]) \cup Deltas(bubble[r].steps)
                           = 1 .. got[r]
                      /\ bubble[r].content \cap (Fading(bubble[r]) \cup Deltas(bubble[r].steps)) = {}
                      /\ Fading(bubble[r]) \cap Deltas(bubble[r].steps) = {}
    BY Zenon DEF NothingLost
  <2>1. r \in Sends
    BY DEF PlacedInv, TypeOK
  <2>2. Placed(bubble[r], got[r])
    BY <2>1 DEF PlacedInv, ShownOK
  <2> QED  BY <2>2 DEF Placed
<1> QED  BY <1>1, <1>2, <1>3, PTL DEF Spec
=============================================================================
