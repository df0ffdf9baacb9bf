----------------------------- MODULE ChatStream -----------------------------
(***************************************************************************)
(* The chat page.  ChatInterface.tsx sends a prompt to POST /invocations   *)
(* and builds the answer's bubble from the lines of the event stream that  *)
(* index.ts writes.  The page is one thread: the lines of one read() are   *)
(* processed without a pause, and between reads the timers of setTimeout,  *)
(* the answer of the history request and the user's clicks run.            *)
(***************************************************************************)
EXTENDS Naturals, Sequences, Functions

CONSTANTS
  Sends,      \* calls of sendMessage
  MaxDeltas,  \* bound: thinking and text deltas of all answers
  MaxRounds,  \* bound: rounds of tool use of all answers
  MaxWire     \* bound: lines on their way

ASSUME ConstantsAssumption ==
  MaxDeltas \in Nat /\ MaxRounds \in Nat /\ MaxWire \in Nat \ {0}

VARIABLES
  \* index.ts, for each request: where its handler is, deltas and rounds written.
  apc, sent, rounds,
  wire,       \* lines written and not read to their end
  cut,        \* the beginning of Head(wire) has been read: it is in `buffer`
  lines,      \* lines of the current read() still to be processed
  \* ChatInterface.tsx
  pc,         \* of each sendMessage
  bubble,     \* the assistant message of each send
  shown,      \* the sends whose two messages are in `messages`
  restored,   \* `messages` holds messages of the history
  loading,    \* isLoadingHistory
  streaming,  \* isStreaming
  stamp,      \* the last Date.now() used as a fadingId
  timers,     \* pending timeouts, in the order in which they fall due
  got,        \* history variable: deltas processed
  dropped     \* history variable: the history has replaced a running request's messages

agentVars == <<apc, sent, rounds>>
pageVars  == <<pc, bubble, shown, restored, loading, streaming, stamp, timers, got,
               dropped>>
vars == <<agentVars, wire, cut, lines, pageVars>>

-----------------------------------------------------------------------------
(* A text chunk or a thinking delta is its number in the stream; a bubble      *)
(* holds the deltas of its content, the intermediate texts that are fading,    *)
(* and the steps they are absorbed into.                                       *)

LineTypes == {"text", "thinking", "tool", "toolUse", "endTurn", "image", "title", "done"}
Line == [type : LineTypes, n : Nat]
Plain(t) == [type |-> t, n |-> 0]

Empty == [content |-> {}, fading |-> {}, steps |-> <<>>, images |-> 0]
Step(t, deltas) == [type |-> t, deltas |-> deltas]

\* The text that came first; no delta is in two of them.
First(texts) ==
  CHOOSE f \in texts : \A g \in texts : \A n \in g.text : \E m \in f.text : m <= n

Total(f) == FoldFunction(LAMBDA x, y : x + y, 0, f)

Running(r) == pc[r] \in {"token", "request", "read"}
Busy == \E r \in Sends : lines[r] # <<>>

\* setMessages((prev) => prev.map(...)) finds nothing once the bubble is gone.
Update(r, b) == bubble' = IF r \in shown THEN [bubble EXCEPT ![r] = b] ELSE bubble

-----------------------------------------------------------------------------
Init ==
  /\ apc = [r \in Sends |-> "idle"]
  /\ sent = [r \in Sends |-> 0]
  /\ rounds = [r \in Sends |-> 0]
  /\ wire = [r \in Sends |-> <<>>]
  /\ cut = [r \in Sends |-> FALSE]
  /\ lines = [r \in Sends |-> <<>>]
  /\ pc = [r \in Sends |-> "idle"]
  /\ bubble = [r \in Sends |-> Empty]
  /\ shown = {}
  /\ restored = FALSE
  /\ loading \in BOOLEAN   \* whether the page was opened with the id of a session
  /\ streaming = FALSE
  /\ stamp = 0
  /\ timers = <<>>
  /\ got = [r \in Sends |-> 0]
  /\ dropped = FALSE

-----------------------------------------------------------------------------
(* index.ts: the stream of one request. *)

Write(r, l) ==
  /\ Len(wire[r]) < MaxWire
  /\ wire' = [wire EXCEPT ![r] = Append(@, l)]

\* A delta of the model: thinking or text.
WriteDelta(r) ==
  /\ apc[r] = "model" /\ Total(sent) < MaxDeltas
  /\ \E t \in {"text", "thinking"} : Write(r, [type |-> t, n |-> sent[r] + 1])
  /\ sent' = [sent EXCEPT ![r] = @ + 1]
  /\ UNCHANGED <<apc, rounds, cut, lines, pageVars>>

\* The model's message stops: for tools, or at the end of its turn.
WriteStop(r) ==
  /\ apc[r] = "model"
  /\ \/ /\ Total(rounds) < MaxRounds
        /\ Write(r, Plain("toolUse"))
        /\ apc' = [apc EXCEPT ![r] = "tools"]
        /\ rounds' = [rounds EXCEPT ![r] = @ + 1]
     \/ /\ Write(r, Plain("endTurn"))
        /\ apc' = [apc EXCEPT ![r] = "images"]
        /\ UNCHANGED rounds
  /\ UNCHANGED <<sent, cut, lines, pageVars>>

\* Tools are announced, run, and the model goes on.
WriteTool(r) ==
  /\ apc[r] = "tools"
  /\ Write(r, Plain("tool"))
  /\ apc' = [apc EXCEPT ![r] = "model"]
  /\ UNCHANGED <<sent, rounds, cut, lines, pageVars>>

\* The images that the code interpreter collected, then the title of a new
\* session, then [DONE].
WriteTail(r) ==
  /\ \/ /\ apc[r] = "images" /\ rounds[r] > 0
        /\ Write(r, Plain("image"))
        /\ apc' = [apc EXCEPT ![r] = "title"]
     \/ /\ apc[r] \in {"images", "title"}
        /\ Write(r, Plain("title"))
        /\ apc' = [apc EXCEPT ![r] = "done"]
     \/ /\ apc[r] \in {"images", "title", "done"}
        /\ Write(r, Plain("done"))
        /\ apc' = [apc EXCEPT ![r] = "closed"]
  /\ UNCHANGED <<sent, rounds, cut, lines, pageVars>>

\* The catch block of a stream that has begun: an object without a type, which
\* the page shows as text, ends the response.
WriteError(r) ==
  /\ apc[r] \in {"model", "tools"}
  /\ Write(r, [type |-> "text", n |-> sent[r] + 1])
  /\ sent' = [sent EXCEPT ![r] = @ + 1]
  /\ apc' = [apc EXCEPT ![r] = "closed"]
  /\ UNCHANGED <<rounds, cut, lines, pageVars>>

\* The container or the connection goes away in the middle.
Break(r) ==
  /\ apc[r] \notin {"idle", "closed", "broken"}
  /\ apc' = [apc EXCEPT ![r] = "broken"]
  /\ UNCHANGED <<sent, rounds, wire, cut, lines, pageVars>>

-----------------------------------------------------------------------------
(* ChatInterface.tsx *)

\* sendMessage up to its first await.  The keyboard path of handleSubmit looks at
\* isStreaming only; a suggestion is offered while there are no messages.
Send(r) ==
  /\ ~Busy /\ pc[r] = "idle"
  /\ ~streaming \/ (shown = {} /\ ~restored)
  /\ pc' = [pc EXCEPT ![r] = "token"]
  /\ shown' = shown \cup {r}
  /\ streaming' = TRUE
  /\ UNCHANGED <<agentVars, wire, cut, lines, bubble, restored, dropped, loading, stamp, timers, got>>

\* fetchTokenAndUrl answers.
TokenArrives(r) ==
  /\ ~Busy /\ pc[r] = "token"
  /\ pc' = [pc EXCEPT ![r] = "request"]
  /\ UNCHANGED <<agentVars, wire, cut, lines, bubble, shown, restored, dropped, loading, streaming,
                 stamp, timers, got>>

\* The headers arrive, the reader is opened.
ResponseArrives(r) ==
  /\ ~Busy /\ pc[r] = "request"
  /\ pc' = [pc EXCEPT ![r] = "read"]
  /\ apc' = [apc EXCEPT ![r] = "model"]
  /\ UNCHANGED <<sent, rounds, wire, cut, lines, bubble, shown, restored, dropped, loading, streaming,
                 stamp, timers, got>>

\* Mutant: isStreaming is cleared at the end of the try block.
SendFailsStreaming(r) ==
  /\ ~Busy
  /\ pc[r] \in {"token", "request"} \/ (pc[r] = "read" /\ apc[r] = "broken")
  /\ pc' = [pc EXCEPT ![r] = "failed"]
  /\ Update(r, [bubble[r] EXCEPT !.content = {}])
  /\ UNCHANGED <<agentVars, wire, cut, lines, shown, restored, dropped, loading, streaming, stamp,
                 timers, got>>

\* The catch block: no token, an answer that is not ok, or read() throws.
SendFails(r) ==
  /\ ~Busy
  /\ pc[r] \in {"token", "request"} \/ (pc[r] = "read" /\ apc[r] = "broken")
  /\ pc' = [pc EXCEPT ![r] = "failed"]
  /\ Update(r, [bubble[r] EXCEPT !.content = {}])
  /\ streaming' = FALSE
  /\ UNCHANGED <<agentVars, wire, cut, lines, shown, restored, dropped, loading, stamp, timers, got>>

\* Mutant: the buffer starts empty with every read().
ReadForgetting(r) ==
  /\ ~Busy /\ pc[r] = "read"
  /\ \E n \in 0 .. Len(wire[r]), half \in BOOLEAN :
        /\ n > 0 \/ half
        /\ half => n < Len(wire[r])
        /\ lines' = [lines EXCEPT ![r] = SubSeq(wire[r], IF cut[r] THEN 2 ELSE 1, n)]
        /\ wire' = [wire EXCEPT ![r] = SubSeq(@, n + 1, Len(@))]
        /\ cut' = [cut EXCEPT ![r] = half]
  /\ UNCHANGED <<agentVars, pageVars>>

\* read() returns any part of what is on its way: n complete lines, the first of
\* them perhaps begun by the read before, and perhaps the beginning of another
\* one, which stays in `buffer`.
Read(r) ==
  /\ ~Busy /\ pc[r] = "read"
  /\ \E n \in 0 .. Len(wire[r]), half \in BOOLEAN :
        /\ n > 0 \/ (half /\ ~cut[r])
        /\ half => n < Len(wire[r])
        /\ lines' = [lines EXCEPT ![r] = SubSeq(wire[r], 1, n)]
        /\ wire' = [wire EXCEPT ![r] = SubSeq(@, n + 1, Len(@))]
        /\ cut' = [cut EXCEPT ![r] = half]
  /\ UNCHANGED <<agentVars, pageVars>>

\* The next line of the read.
Taken(r, type) ==
  /\ lines[r] # <<>>
  /\ Head(lines[r]).type = type
  /\ lines' = [lines EXCEPT ![r] = Tail(@)]
  /\ UNCHANGED <<agentVars, wire, cut, pc, shown, restored, dropped, loading, streaming>>

TextLine(r) ==
  LET n == Head(lines[r]).n
  IN  /\ Taken(r, "text")
      /\ Update(r, [bubble[r] EXCEPT !.content = @ \cup {n}])
      /\ got' = [got EXCEPT ![r] = n]
      /\ UNCHANGED <<stamp, timers>>

\* Thinking goes on in the last step when that is one of thinking.
ThinkingLine(r) ==
  LET n     == Head(lines[r]).n
      steps == bubble[r].steps
      last  == Len(steps)
      grown == IF last > 0 /\ steps[last].type = "thinking"
               THEN [steps EXCEPT ![last] = Step("thinking", @.deltas \cup {n})]
               ELSE Append(steps, Step("thinking", {n}))
  IN  /\ Taken(r, "thinking")
      /\ Update(r, [bubble[r] EXCEPT !.steps = grown])
      /\ got' = [got EXCEPT ![r] = n]
      /\ UNCHANGED <<stamp, timers>>

ToolLine(r) ==
  /\ Taken(r, "tool")
  /\ Update(r, [bubble[r] EXCEPT !.steps = Append(@, Step("tool", {}))])
  /\ UNCHANGED <<stamp, timers, got>>

\* Mutant: the content is cleared and nothing is added to fadingTexts.
ToolUseLineClearing(r) ==
  /\ Taken(r, "toolUse")
  /\ stamp' = stamp + 1
  /\ Update(r, [bubble[r] EXCEPT !.content = {}])
  /\ timers' = Append(timers, [send |-> r, id |-> stamp'])
  /\ UNCHANGED got

\* Mutant: the entry takes the id of the stop before.
ToolUseLineStale(r) ==
  LET text == IF r \in shown THEN bubble[r].content ELSE {}
  IN  /\ Taken(r, "toolUse")
      /\ UNCHANGED got
      /\ \/ /\ text # {}
            /\ stamp' = stamp + 1
            /\ Update(r, [bubble[r] EXCEPT !.content = {},
                                           !.fading = @ \cup {[id |-> stamp, text |-> text]}])
            /\ timers' = Append(timers, [send |-> r, id |-> stamp'])
         \/ text = {} /\ UNCHANGED <<bubble, stamp, timers>>

\* Intermediate text: it moves to fadingTexts under the current millisecond, the
\* one of the stop before only if that one's 800 ms are not over.
ToolUseLine(r) ==
  LET text == IF r \in shown THEN bubble[r].content ELSE {}
  IN  /\ Taken(r, "toolUse")
      /\ UNCHANGED got
      /\ \/ /\ text # {}
            /\ \/ stamp' = stamp + 1
               \/ stamp' = stamp /\ \E k \in 1 .. Len(timers) : timers[k].id = stamp
            /\ Update(r, [bubble[r] EXCEPT !.content = {},
                                           !.fading = @ \cup {[id |-> stamp', text |-> text]}])
            /\ timers' = Append(timers, [send |-> r, id |-> stamp'])
         \/ text = {} /\ UNCHANGED <<bubble, stamp, timers>>

ImageLine(r) ==
  /\ Taken(r, "image")
  /\ Update(r, [bubble[r] EXCEPT !.images = @ + 1])
  /\ UNCHANGED <<stamp, timers, got>>

\* Nothing in the bubble changes; the title goes to the session list.
OtherLine(r) ==
  /\ \E t \in {"endTurn", "title", "done"} : Taken(r, t)
  /\ UNCHANGED <<bubble, stamp, timers, got>>

\* read() returns done, and finally clears isStreaming.
EndOfStream(r) ==
  /\ ~Busy /\ pc[r] = "read"
  /\ apc[r] = "closed" /\ wire[r] = <<>>
  /\ pc' = [pc EXCEPT ![r] = "done"]
  /\ streaming' = FALSE
  /\ UNCHANGED <<agentVars, wire, cut, lines, bubble, shown, restored, dropped, loading, stamp, timers,
                 got>>

\* The texts for which a timeout was set.
Named(t) == {f \in bubble[t.send].fading : f.id = t.id}

\* Mutant: the text becomes a step and stays in fadingTexts too.
AbsorbWithoutFilter ==
  /\ ~Busy /\ timers # <<>>
  /\ LET t == Head(timers)
         b == bubble[t.send]
     IN  \/ Named(t) = {} /\ UNCHANGED bubble
         \/ /\ Named(t) # {}
            /\ Update(t.send, [b EXCEPT !.steps = Append(@, Step("thinking", First(Named(t)).text))])
  /\ timers' = Tail(timers)
  /\ UNCHANGED <<agentVars, wire, cut, lines, pc, shown, restored, dropped, loading, streaming, stamp, got>>

\* 800 ms later: the first text with the timeout's id becomes a step, and every
\* text with that id leaves fadingTexts.
Absorb ==
  /\ ~Busy /\ timers # <<>>
  /\ LET t == Head(timers)
         b == bubble[t.send]
     IN  \/ Named(t) = {} /\ UNCHANGED bubble
         \/ /\ Named(t) # {}
            /\ Update(t.send, [b EXCEPT !.fading = @ \ Named(t),
                                        !.steps = Append(@, Step("thinking", First(Named(t)).text))])
  /\ timers' = Tail(timers)
  /\ UNCHANGED <<agentVars, wire, cut, lines, pc, shown, restored, dropped, loading, streaming, stamp, got>>

\* GET /api/sessions/{id}/events answers: its messages, none when it is not ok,
\* take the place of whatever `messages` holds.  When the request is rejected
\* only isLoadingHistory changes.
HistoryArrives ==
  /\ ~Busy /\ loading
  /\ loading' = FALSE
  /\ \/ /\ restored' \in BOOLEAN
        /\ shown' = {}
        /\ bubble' = [r \in Sends |-> Empty]
        /\ dropped' = (dropped \/ \E r \in Sends : Running(r))
     \/ UNCHANGED <<restored, shown, bubble, dropped>>
  /\ UNCHANGED <<agentVars, wire, cut, lines, pc, streaming, stamp, timers, got>>

-----------------------------------------------------------------------------
AgentStep(r) ==
  WriteDelta(r) \/ WriteStop(r) \/ WriteTool(r) \/ WriteTail(r) \/ WriteError(r)

LineStep(r) ==
  TextLine(r) \/ ThinkingLine(r) \/ ToolLine(r) \/ ToolUseLine(r) \/ ImageLine(r) \/ OtherLine(r)

PageStep(r) ==
  TokenArrives(r) \/ ResponseArrives(r) \/ SendFails(r) \/ Read(r) \/ EndOfStream(r)

Next ==
  \/ \E r \in Sends : Send(r) \/ PageStep(r) \/ LineStep(r) \/ AgentStep(r) \/ Break(r)
  \/ Absorb \/ HistoryArrives

Spec == Init /\ [][Next]_vars

\* The page's thread and its timers make progress; the network and the user need
\* not.
Fairness == WF_vars(Absorb) /\ \A r \in Sends : WF_vars(LineStep(r))
FairSpec == Spec /\ Fairness

-----------------------------------------------------------------------------
\* No stop of a page falls into the millisecond of the one before.
OneStopPerMillisecond == \A r \in Sends : ToolUseLine(r) => UNCHANGED timers \/ stamp' # stamp

Deltas(seq) == UNION {seq[k].deltas : k \in 1 .. Len(seq)}
Fading(b) == UNION {f.text : f \in b.fading}

Steps == [type : {"thinking", "tool"}, deltas : SUBSET Nat]
Bubbles ==
  [content : SUBSET Nat, fading : SUBSET [id : Nat, text : SUBSET Nat], steps : Seq(Steps),
   images : Nat]

\* Everything has its type, half a line was read of a line that is there, and a
\* fading text is named by a millisecond that has been.
TypeOK ==
  /\ apc \in [Sends -> {"idle", "model", "tools", "images", "title", "done", "closed", "broken"}]
  /\ sent \in [Sends -> Nat] /\ rounds \in [Sends -> Nat] /\ got \in [Sends -> Nat]
  /\ wire \in [Sends -> Seq(Line)] /\ lines \in [Sends -> Seq(Line)]
  /\ cut \in [Sends -> BOOLEAN]
  /\ \A r \in Sends : cut[r] => wire[r] # <<>>
  /\ pc \in [Sends -> {"idle", "token", "request", "read", "failed", "done"}]
  /\ bubble \in [Sends -> Bubbles]
  /\ \A r \in Sends : \A f \in bubble[r].fading : f.id \in 1 .. stamp
  /\ shown \subseteq Sends
  /\ restored \in BOOLEAN /\ dropped \in BOOLEAN /\ loading \in BOOLEAN /\ streaming \in BOOLEAN
  /\ stamp \in Nat
  /\ timers \in Seq([send : Sends, id : Nat \ {0}])

\* Every delta of an answer on the screen is in exactly one place: its content,
\* a fading text, or a step.  Chunk boundaries, stops for tools, later deltas
\* and timers that fire in between never lose or repeat one
\* ("中間テキスト → contentクリア＆fadingTextsに追加 → 800ms後にstepsに退避").
NothingLost ==
  \A r \in shown : pc[r] # "failed" =>
    LET b == bubble[r]
    IN  /\ b.content \cup Fading(b) \cup Deltas(b.steps) = 1 .. got[r]
        /\ b.content \cap (Fading(b) \cup Deltas(b.steps)) = {}
        /\ Fading(b) \cap Deltas(b.steps) = {}

\* A request that ends without an error has shown all that the agent wrote:
\* the page has processed every line, in reads cut anywhere, before it is idle.
FinishedIsComplete ==
  \A r \in Sends : pc[r] = "done" => apc[r] = "closed" /\ got[r] = sent[r]

\* One request at a time: isStreaming, which the submit button, the keyboard and
\* the text area look at, is set exactly while a request runs, and the suggestions
\* that do not look at it are offered while none runs; unless an answer of the
\* history took a running request's messages away, which brings them back.
OneRequestAtATime ==
  ~dropped =>
    /\ \A q, r \in Sends : Running(q) /\ Running(r) => q = r
    /\ streaming = (\E r \in Sends : Running(r))

\* What was sent stays on the screen while its answer is awaited; the submit
\* button is disabled while the history is loading (ChatInterface.tsx:533).
SentIsShown == \A r \in Sends : Running(r) => r \in shown

\* Intermediate text does not stay in its fading form, whatever the stream does
\* after it.
FadingEnds == \A r \in Sends : bubble[r].fading # {} ~> bubble[r].fading = {}
=============================================================================
