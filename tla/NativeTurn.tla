----------------------------- MODULE NativeTurn -----------------------------
(***************************************************************************)
(* One turn of a guest as its host drives it: the handshake of the pinned  *)
(* protocol, the resumed conversation, the stream of events, and the       *)
(* transcript recorder that buffers, redacts and posts them to the plane.  *)
(* (internal/provider, internal/runner/transcript.go, hostACP/hostNative,  *)
(* and the plane's POST /turns/{id}/actions.)                              *)
(*                                                                         *)
(* The guest is external: it may send any event the protocol has, refuse   *)
(* any request, or close its output.  A text is a sequence of units: "x"   *)
(* is ordinary, "p" and "q" the halves of a known credential <<p, q>>, and *)
(* "q" is also a credential by itself, so that one secret contains another.*)
(* Which asks the rules allow is Guest's subject; here the gate's verdict  *)
(* is any of allow, deny and unmatched.                                    *)
(***************************************************************************)
EXTENDS Naturals, Sequences, FiniteSets

CONSTANTS TextCap,    \* transcriptTextCap, in units
          RowCap,     \* TurnActionRowCap
          MaxSeen,    \* events one guest sends
          MaxLost     \* posts lost by the network

ASSUME NativeBounds == /\ TextCap \in Nat \ {0} /\ RowCap \in Nat \ {0}
                       /\ MaxSeen \in Nat /\ MaxLost \in Nat

VARIABLES dialect,      \* "claude", "codex" or "acp": hostACP's choice
          stored,    \* the session's guest conversation, NoThread when none
          phase,     \* where the host is
          thread,    \* the conversation the guest opened
          prompted,  \* the conversation the prompt was sent to
          heardEvents,      \* events read from the guest, in order
          heard,     \* how many of them before the host returned
          buffer,    \* indexes into seen of the buffered message's chunks
          overflow,  \* the buffered message passed twice the cap
          ask,       \* the gate's verdict on the ask in progress
          answers,   \* answers written to the guest: [ev, allow]
          rows,      \* the turn's rows at the plane
          missed,    \* events whose row was refused or lost
          holds,     \* the turn is leased
          nLost

guestSide == <<dialect, stored, thread, prompted>>
streamVars == <<heardEvents, heard, ask, answers>>
recorderVars == <<buffer, overflow>>
rowVars == <<rows, missed, nLost>>
nativeVars == <<guestSide, streamVars, recorderVars, rowVars, phase, holds>>

Chunks == {<<"x">>, <<"p">>, <<"q">>}
NoThread == "none"
Silent == {"usage"}                 \* read and not recorded
Messages == {"agent", "user"}

NativeInit ==
  /\ dialect \in {"claude", "codex", "acp"} /\ stored \in {NoThread, "t1"}
  /\ (dialect = "claude" => stored = NoThread)
  /\ phase = "start" /\ thread = NoThread /\ prompted = NoThread
  /\ heardEvents = <<>> /\ heard = 0 /\ buffer = <<>> /\ overflow = FALSE
  /\ ask = "none" /\ answers = {} /\ rows = <<>> /\ missed = {}
  /\ holds = TRUE /\ nLost = 0

-----------------------------------------------------------------------------
(* Redaction *)

\* The secrets are sorted longest first, so <<p, q>> goes before q.
redact(text) ==
  LET done[i \in 0 .. Len(text)] ==
        IF i = 0 THEN <<>>
        ELSE LET out == done[i - 1]
             IN  IF text[i] # "q" THEN Append(out, text[i])
                 ELSE IF out # <<>> /\ out[Len(out)] = "p" THEN [out EXCEPT ![Len(out)] = "*"]
                 ELSE Append(out, "*")
  IN  done[Len(text)]

\* Texts one after the other, as one text.
Concat(texts) ==
  LET upTo[i \in 0 .. Len(texts)] == IF i = 0 THEN <<>> ELSE upTo[i - 1] \o texts[i]
  IN  upTo[Len(texts)]

truncateUTF8(text, n) == IF Len(text) <= n THEN text ELSE Append(SubSeq(text, 1, n), "...")

clean(text) == truncateUTF8(redact(text), TextCap)

\* The plane normalises the update and cleans its strings again.
sanitizeTurnActionBody(row) == [row EXCEPT !.text = IF row.type = "exact" THEN @ ELSE clean(@)]

-----------------------------------------------------------------------------
(* Posting a receipt to the plane *)

Row(type, lo, hi, text) == [type |-> type, from |-> lo, to |-> hi, text |-> text]

\* The fate of a post: it arrives and is answered, it is lost, or its answer
\* is.  A post is not repeated.
Fates == {"ok", "lost", "mute"}

\* IngestTurnAction: the turn is leased and under its row budget.
Ingests(n) == holds /\ n < RowCap

\* The receipts of a list, posted one after the other, that are stored.
Taken(list, sent) ==
  {i \in DOMAIN list : /\ sent[i] # "lost"
                       /\ Ingests(Len(rows) + Cardinality({j \in 1 .. (i - 1) : sent[j] # "lost"}))}

\* A list has at most two receipts: the flushed message and the row after it.
Post(list, sent) ==
  LET taken == Taken(list, sent)
      new(i) == IF i \in taken THEN <<sanitizeTurnActionBody(list[i])>> ELSE <<>>
  IN  /\ rows' = rows \o new(1) \o new(2)
      /\ missed' = missed \union UNION {list[i].from .. list[i].to : i \in DOMAIN list \ taken}
      /\ nLost' = nLost + Cardinality({i \in DOMAIN list : sent[i] # "ok"})

\* The posts of this step are within the bound, the unused fates fixed.
Within(list, sent) ==
  /\ nLost + Cardinality({i \in DOMAIN list : sent[i] # "ok"}) <= MaxLost
  /\ \A i \in DOMAIN sent \ DOMAIN list : sent[i] = "ok"

\* flushMessage's receipt: the buffered chunks as one text, cleaned whole.
LastChunk == buffer[Len(buffer)]
Joined == Concat([i \in DOMAIN buffer |-> heardEvents[buffer[i]].text])
flushMessage ==
  IF buffer = <<>> THEN <<>>
  ELSE << Row("message", Head(buffer), LastChunk,
              IF overflow THEN <<"!">> ELSE clean(Joined)) >>

\* Record of anything but a message chunk: the message goes first.
\* Mutant: the buffered message waits for the end of the turn.
Record_NoFlush(row, sent) == Within(<<row>>, sent) /\ Post(<<row>>, sent) /\ UNCHANGED recorderVars
Record(row, sent) ==
  LET list == flushMessage \o <<row>>
  IN  /\ Within(list, sent) /\ Post(list, sent)
      /\ buffer' = <<>> /\ overflow' = FALSE

\* Record returned the id of the row it posted.
Acknowledged(sent) == LET n == Len(flushMessage) + 1
                      IN  sent[n] = "ok" /\ n \in Taken(flushMessage \o <<Row("exact", 0, 0, <<>>)>>, sent)

Sends == Fates \X Fates

-----------------------------------------------------------------------------
(* The handshakes *)

\* hostACP's deferred Flush runs on every return.
Flush(end, sent) ==
  /\ Post(flushMessage, sent)
  /\ buffer' = <<>> /\ overflow' = FALSE

Return(end, sent) ==
  /\ Within(flushMessage, sent) /\ Flush(end, sent)
  /\ phase' = end /\ heard' = Len(heardEvents) /\ ask' = "none"
  /\ UNCHANGED <<guestSide, heardEvents, answers, holds>>

\* runClaude: the prompt is written before init is read.
runClaude ==
  /\ phase = "start" /\ dialect = "claude"
  /\ phase' = "init" /\ prompted' = "n1"
  /\ UNCHANGED <<dialect, stored, thread, streamVars, recorderVars, rowVars, holds>>

\* The init line names the pinned version and the new conversation.
claudeInit(sent) ==
  /\ phase = "init" /\ dialect = "claude"
  /\ \/ /\ thread' = "n1" /\ phase' = "loop"
        /\ UNCHANGED <<dialect, stored, prompted, streamVars, recorderVars, rowVars, holds>>
     \/ Return("failed", sent)

\* initialize, initialized and the login of the turn's grant.
codexInitialize(sent) ==
  /\ phase = "start" /\ dialect = "codex"
  /\ \/ phase' = "open" /\ UNCHANGED <<guestSide, streamVars, recorderVars, rowVars, holds>>
     \/ Return("failed", sent)

\* thread/start or thread/resume; a refused resume starts a new thread.
runCodex(sent) ==
  /\ phase = "open" /\ dialect = "codex"
  /\ \/ /\ thread' \in (IF stored = NoThread THEN {} ELSE {stored}) \union {"n1"}
        /\ phase' = "opened"
        /\ UNCHANGED <<dialect, stored, prompted, streamVars, recorderVars, rowVars, holds>>
     \/ Return("failed", sent)

\* initialize, and the receipt of the guest's answer, which must be stored.
acpInitialize(sent) ==
  /\ phase = "start" /\ dialect = "acp"
  /\ \/ /\ Record(Row("exact", 0, 0, <<"initialize">>), sent)
        /\ phase' = (IF Acknowledged(sent) THEN "open" ELSE "failed")
        /\ UNCHANGED <<guestSide, streamVars, holds>>
     \/ Return("failed", sent)

\* session/load, or session/new once a load was refused.
acpOpen(sent) ==
  /\ phase = "open" /\ dialect = "acp"
  /\ \/ /\ thread' \in (IF stored = NoThread THEN {} ELSE {stored}) \union {"n1"}
        /\ phase' = "opened"
        /\ UNCHANGED <<dialect, stored, prompted, streamVars, recorderVars, rowVars, holds>>
     \/ Return("failed", sent)

\* The receipt says whether the stored conversation was loaded.
ResumeReason == IF thread = stored THEN "succeeded" ELSE "refused"

\* The prompt is sent once the plane knows of the resume.
recordResume(sent) ==
  /\ phase = "opened"
  /\ LET told == Row("exact", 0, 0, <<"resume", ResumeReason>>)
     IN  IF stored = NoThread
           THEN /\ phase' = "loop" /\ prompted' = thread /\ sent = <<"ok", "ok">>
                /\ UNCHANGED <<recorderVars, rowVars>>
           ELSE /\ Record(told, sent)
                /\ IF Acknowledged(sent) THEN phase' = "loop" /\ prompted' = thread
                                         ELSE phase' = "failed" /\ UNCHANGED prompted
  /\ UNCHANGED <<dialect, stored, thread, streamVars, holds>>

-----------------------------------------------------------------------------
(* The stream *)

\* What a line of each protocol is to the transcript; other lines (deltas,
\* reasoning, plans) are skipped.  Codex repeats a message: its deltas, its
\* start and its completion carry the same text.
codexStreamEvents(line) ==
  CASE line \in {<<"item/agentMessage", "text">>, <<"item/completed", "text">>} -> "agent"
    [] line = <<"item/started", "tool">> -> "tool"
    [] line = <<"item/completed", "tool">> -> "outcome"
    [] OTHER -> "none"

claudeStreamEvents(line) ==
  CASE line = <<"assistant", "text">> -> "agent"
    [] line = <<"assistant", "tool">> -> "tool"
    [] line = <<"user", "tool">> -> "outcome"
    [] OTHER -> "none"

NormalizeSessionUpdate(line) ==
  CASE line = <<"agent_message_chunk", "text">> -> "agent"
    [] line = <<"user_message_chunk", "text">> -> "user"
    [] line = <<"tool_call", "tool">> -> "tool"
    [] line = <<"tool_call_update", "tool">> -> "outcome"
    [] OTHER -> "none"

Lines == {"item/agentMessage", "item/started", "item/completed", "assistant", "user",
          "agent_message_chunk", "user_message_chunk", "tool_call", "tool_call_update"}
           \X {"text", "tool", "reasoning"}
EventTypes == [h \in {"codex", "claude", "acp"} |->
                 {CASE h = "codex" -> codexStreamEvents(line)
                    [] h = "claude" -> claudeStreamEvents(line)
                    [] OTHER -> NormalizeSessionUpdate(line) : line \in Lines}]

Reading == phase = "loop" \/ (dialect = "acp" /\ phase = "done")
Sees(type, text) == /\ Len(heardEvents) < MaxSeen
                    /\ heardEvents' = Append(heardEvents, [type |-> type, text |-> text])

\* Record of a message chunk.  A change of speaker flushes; a message past
\* twice the cap is dropped whole.
Overflows(text) == overflow \/ Len(Joined) + Len(text) > 2 * TextCap

Speaker == IF buffer = <<>> THEN "none" ELSE heardEvents[LastChunk].type

Observe(type, text, sent) ==
  /\ Reading /\ type \in Messages \intersect EventTypes[dialect] /\ Sees(type, text)
  /\ IF Speaker \in {"none", type}
       THEN /\ overflow' = Overflows(text)
            /\ buffer' = Append(buffer, Len(heardEvents) + 1)
            /\ Within(<<>>, sent) /\ UNCHANGED rowVars
       ELSE /\ Within(flushMessage, sent) /\ Post(flushMessage, sent)
            /\ overflow' = (Len(text) > 2 * TextCap)
            /\ buffer' = <<Len(heardEvents) + 1>>
  /\ UNCHANGED <<guestSide, heard, ask, answers, phase, holds>>

\* A tool call keeps a cleaned summary of its input, an outcome its status.
ToolUpdate(type, text, sent) ==
  /\ Reading /\ type \in {"tool", "outcome"} \intersect EventTypes[dialect] /\ Sees(type, text)
  /\ LET row == Row("tool", Len(heardEvents) + 1, Len(heardEvents) + 1,
                    IF type = "outcome" THEN <<>> ELSE clean(text))
     IN  Record(row, sent)
  /\ UNCHANGED <<guestSide, heard, ask, answers, phase, holds>>

\* A usage limit is an event of the result only; a line of no known kind is
\* skipped.
UsageLimit ==
  /\ phase = "loop" /\ dialect # "acp" /\ Sees("usage", <<>>)
  /\ UNCHANGED <<guestSide, heard, ask, answers, recorderVars, rowVars, phase, holds>>

\* A network approval, a permission profile, a question to the user: refused
\* without asking anyone.
RefuseUnsupported ==
  /\ phase = "loop" /\ dialect # "acp" /\ Sees("unsupported", <<>>)
  /\ answers' = answers \union {[ev |-> Len(heardEvents) + 1, allow |-> FALSE]}
  /\ UNCHANGED <<guestSide, heard, ask, recorderVars, rowVars, phase, holds>>

\* can_use_tool or requestApproval: claudeDecide records the ask first.
AskDecide(verdict, sent) ==
  /\ phase = "loop" /\ dialect # "acp" /\ Sees("ask", <<>>)
  /\ LET row == Row("exact", Len(heardEvents) + 1, Len(heardEvents) + 1, <<"ask">>)
     IN  Record(row, sent)
  /\ ask' = verdict /\ phase' = "asked"
  /\ UNCHANGED <<guestSide, heard, answers, holds>>

Answer(allow) == /\ answers' = answers \union {[ev |-> Len(heardEvents), allow |-> allow]}
                 /\ phase' = "loop" /\ ask' = "none"

\* Matched: the rules' answer, with a receipt when they deny.
AnswerMatched(sent) ==
  /\ phase = "asked" /\ ask \in {"allow", "deny"}
  /\ IF ask = "allow" THEN sent = <<"ok", "ok">> /\ UNCHANGED <<recorderVars, rowVars>>
     ELSE LET row == Row("exact", Len(heardEvents), Len(heardEvents), <<"denied">>)
          IN  Record(row, sent)
  /\ Answer(ask = "allow")
  /\ UNCHANGED <<guestSide, heardEvents, heard, holds>>

\* Unmatched: the approval's receipt is posted; without its id, deny.
WaitsOnApproval(sent) == Acknowledged(sent)

AskHuman(sent) ==
  /\ phase = "asked" /\ ask = "unmatched"
  /\ LET row == Row("exact", Len(heardEvents), Len(heardEvents), <<"approval">>)
     IN  /\ Record(row, sent)
         /\ IF WaitsOnApproval(sent)
              THEN phase' = "waiting" /\ UNCHANGED <<answers, ask>>
              ELSE Answer(FALSE)
  /\ UNCHANGED <<guestSide, heardEvents, heard, holds>>

\* host.Wait returns a person's decision, or a refusal when the run is over.
HumanAnswers(allow) ==
  /\ phase = "waiting" /\ (allow => holds)
  /\ Answer(allow)
  /\ UNCHANGED <<guestSide, heardEvents, heard, recorderVars, rowVars, holds>>

\* The result line, turn/completed or the prompt's response.
TurnCompleted(sent) == phase = "loop" /\ Return("done", sent)

\* A failed turn, an error line, the end of the guest's output, a deadline.
StreamFails(sent) == phase \in {"loop", "waiting"} /\ Return("failed", sent)

\* The turn is cancelled, or its lease is reclaimed.
TurnLosesLease ==
  /\ holds /\ holds' = FALSE
  /\ UNCHANGED <<guestSide, streamVars, recorderVars, rowVars, phase>>

NativeNext ==
  \/ \E sent \in Sends :
       \/ claudeInit(sent) \/ codexInitialize(sent) \/ runCodex(sent)
       \/ acpInitialize(sent) \/ acpOpen(sent) \/ recordResume(sent)
       \/ \E text \in Chunks : \/ \E t \in Messages : Observe(t, text, sent)
                               \/ \E t \in {"tool", "outcome"} : ToolUpdate(t, text, sent)
       \/ \E v \in {"allow", "deny", "unmatched"} : AskDecide(v, sent)
       \/ AnswerMatched(sent) \/ AskHuman(sent)
       \/ TurnCompleted(sent) \/ StreamFails(sent)
  \/ runClaude \/ UsageLimit \/ RefuseUnsupported \/ TurnLosesLease
  \/ \E allow \in BOOLEAN : HumanAnswers(allow)

-----------------------------------------------------------------------------
(* Properties *)

\* The recorder buffers only chunks it read, and the plane stores at most
\* its row budget for one turn.
NativeTypeOK ==
  /\ dialect \in {"claude", "codex", "acp"} /\ thread \in {NoThread, "t1", "n1"}
  /\ phase \in {"start", "init", "open", "opened", "loop", "asked", "waiting", "done", "failed"}
  /\ \A i \in DOMAIN buffer : buffer[i] \in DOMAIN heardEvents
  /\ Len(rows) <= RowCap /\ heard \in 0 .. Len(heardEvents) /\ overflow \in BOOLEAN

\* The rows of a turn are in the order in which the guest said and did the
\* things they record: a message is stored before the tool call, the ask or
\* the other speaker's message that followed it, although messages are
\* buffered and everything else is posted at once.
TranscriptInOrder ==
  \A i, j \in DOMAIN rows : i < j => rows[i].to <= rows[j].from

\* A stored text holds no part of a known credential that its message held
\* whole, however the guest split the message into chunks and whatever the
\* cap cut off.
NoCredentialStored ==
  \A i \in DOMAIN rows : rows[i].type \in {"message", "tool"} =>
    LET said == Concat([k \in 1 .. (rows[i].to - rows[i].from + 1) |->
                              LET e == heardEvents[rows[i].from + k - 1]
                              IN  IF e.type \in Silent THEN <<>> ELSE e.text])
        lone == {k \in DOMAIN said : said[k] = "p" /\ (k = Len(said) \/ said[k + 1] # "q")}
    IN  /\ \A k \in DOMAIN rows[i].text : rows[i].text[k] # "q"
        /\ Cardinality({k \in DOMAIN rows[i].text : rows[i].text[k] = "p"}) <= Cardinality(lone)

\* Once the host has returned, everything the guest said before that is in
\* the turn's rows, unless the plane refused the row or the post was lost:
\* no message stays behind in the buffer of a turn that failed.
ReturnedIsRecorded ==
  phase \in {"done", "failed"} =>
    \A e \in 1 .. heard :
      heardEvents[e].type \in (Silent \union {"unsupported"}) \/ e \in missed
        \/ \E i \in DOMAIN rows : e \in rows[i].from .. rows[i].to

\* A guest whose session had a conversation is prompted only after the plane
\* stored whether that conversation was loaded, and what it stored is true.
ResumeToldFirst ==
  (stored # NoThread /\ prompted # NoThread) =>
    \E i \in DOMAIN rows :
      rows[i].text = <<"resume", IF prompted = stored THEN "succeeded" ELSE "refused">>

\* An action no rule matched runs only when the plane holds the approval
\* that a person answered; a request the host cannot judge never runs.
AllowHasReceipt ==
  [][\A a \in answers' \ answers : a.allow =>
       /\ heardEvents[a.ev].type = "ask"
       /\ (ask = "unmatched" => \E i \in DOMAIN rows : rows[i].from = a.ev /\ rows[i].text = <<"approval">>)]_nativeVars
=============================================================================
