----------------------------- MODULE GuestLink -----------------------------
(***************************************************************************)
(* The guest link (ADR 0047): TCP streams between a guest without network  *)
(* and the plane's host, multiplexed over the stdio of one exec.  The host *)
(* side reads frames in one loop, hands each to its stream's bounded queue *)
(* and serves every stream in a goroutine of its own.  The guest may send  *)
(* any frame; its process may end at any time.                             *)
(***************************************************************************)
EXTENDS Naturals, Sequences, FiniteSets

CONSTANTS GuestIds,     \* ids a guest may put in a frame
          Queue,        \* linkQueue
          MaxStreams,   \* linkMaxStreams
          MaxLinkFrames, MaxForwards

ASSUME LinkBounds == GuestIds \subseteq Nat /\ {Queue, MaxStreams, MaxLinkFrames, MaxForwards} \subseteq Nat

VARIABLES fromGuest,  \* frames on their way to the host
          frames,     \* frames the guest has sent
          served,     \* every stream made, in order: its id, channel, server and data
          streams,    \* id -> its number in served (0: none)
          lastGuest, nextHost,
          linkUp,     \* the guest's process runs
          linkClosed, \* the read loop has ended
          linkReady,  \* its ready channel is closed
          start       \* StartLink: what it saw and what it returned

linkVars == <<fromGuest, frames, served, streams, lastGuest, nextHost, linkUp, linkClosed, linkReady, start>>

LinkIds == GuestIds \cup {2 * i : i \in 1..MaxForwards}
InMap == {id \in LinkIds : streams[id] # 0}

LinkInit ==
  /\ fromGuest = <<>> /\ frames = 0 /\ served = <<>> /\ streams = [id \in LinkIds |-> 0]
  /\ lastGuest = 0 /\ nextHost = 0 /\ linkUp = TRUE /\ linkClosed = FALSE /\ linkReady = FALSE
  /\ start = "waiting"

-----------------------------------------------------------------------------
(* The guest and the pipe. *)

GuestSends(type, id) ==
  /\ linkUp /\ frames < MaxLinkFrames /\ frames' = frames + 1
  /\ fromGuest' = Append(fromGuest, [type |-> type, id |-> id, n |-> frames'])
  /\ UNCHANGED <<served, streams, lastGuest, nextHost, linkUp, linkClosed, linkReady, start>>

GuestProcessEnds ==
  /\ linkUp /\ linkUp' = FALSE
  /\ UNCHANGED <<fromGuest, frames, served, streams, lastGuest, nextHost, linkClosed, linkReady, start>>

-----------------------------------------------------------------------------
(* The host's read loop. *)

Stream(id, st) == [id |-> id, q |-> <<>>, closed |-> FALSE, st |-> st, seen |-> <<>>, got |-> <<>>]

\* The map without id; its channel is closed.
Dropped(id, ss) ==
  IF streams[id] = 0 THEN ss ELSE [ss EXCEPT ![streams[id]].closed = TRUE]

Frame(type) == ~linkClosed /\ fromGuest # <<>> /\ Head(fromGuest).type = type /\ fromGuest' = Tail(fromGuest)

ReadReady ==
  /\ Frame("ready") /\ linkReady' = TRUE
  /\ UNCHANGED <<frames, served, streams, lastGuest, nextHost, linkUp, linkClosed, start>>

\* Guest ids are odd and strictly increasing.
NewGuestId(id) == id % 2 = 1 /\ id > lastGuest

LinkFull == Cardinality(InMap) >= MaxStreams

ReadOpen ==
  LET id == Head(fromGuest).id IN
  /\ Frame("open")
  /\ lastGuest' = IF NewGuestId(id) THEN id ELSE lastGuest
  /\ IF NewGuestId(id) /\ ~LinkFull
     THEN /\ served' = Append(served, Stream(id, "dialing"))
          /\ streams' = [streams EXCEPT ![id] = Len(served')]
     ELSE UNCHANGED <<served, streams>>
  /\ UNCHANGED <<frames, nextHost, linkUp, linkClosed, linkReady, start>>

\* Mutant: a frame that finds its queue full is dropped alone.
Overflow_DropFrame(id, ss) == <<ss, streams>>

\* A stream that cannot keep up is reset.
Overflow(id, ss) == <<Dropped(id, ss), [streams EXCEPT ![id] = 0]>>

HasRoom(s) == Len(served[s].q) < Queue

\* Data, end and reset frames go to the stream's queue; without a stream
\* they are dropped.
ReadFrame(type) ==
  LET f == Head(fromGuest)
      s == streams[f.id]
      seen == [served EXCEPT ![s].seen = IF type = "data" THEN Append(@, f.n) ELSE @]
      r == IF HasRoom(s)
           THEN <<[seen EXCEPT ![s].q = Append(@, f)], streams>> ELSE Overflow(f.id, seen)
  IN
  /\ Frame(type)
  /\ IF s = 0 THEN UNCHANGED <<served, streams>> ELSE served' = r[1] /\ streams' = r[2]
  /\ UNCHANGED <<frames, lastGuest, nextHost, linkUp, linkClosed, linkReady, start>>

ClosesStreams == [s \in DOMAIN served |->
                    [served[s] EXCEPT !.closed = @ \/ \E id \in InMap : streams[id] = s]]

\* The read loop meets the end of the pipe: every stream is closed.
ReadEnds ==
  /\ ~linkClosed /\ ~linkUp /\ fromGuest = <<>> /\ linkClosed' = TRUE
  /\ served' = ClosesStreams /\ streams' = [id \in LinkIds |-> 0]
  /\ UNCHANGED <<fromGuest, frames, lastGuest, nextHost, linkUp, linkReady, start>>

-----------------------------------------------------------------------------
(* Streams. *)

\* Forward opens a stream to a guest port; a broken pipe drops it again.
LinkForward ==
  /\ ~linkClosed /\ ~LinkFull /\ nextHost < 2 * MaxForwards /\ nextHost' = nextHost + 2
  /\ IF linkUp
     THEN /\ served' = Append(served, Stream(nextHost', "serving"))
          /\ streams' = [streams EXCEPT ![nextHost'] = Len(served')]
     ELSE UNCHANGED <<served, streams>>
  /\ UNCHANGED <<fromGuest, frames, lastGuest, linkUp, linkClosed, linkReady, start>>

\* drop(id) by the server of stream s: the map's entry for its id, whatever
\* stream that is.
DropBy(s, ss) ==
  /\ served' = Dropped(served[s].id, ss) /\ streams' = [streams EXCEPT ![served[s].id] = 0]

DialServe(s, ok) ==
  /\ served[s].st = "dialing"
  /\ IF ok THEN served' = [served EXCEPT ![s].st = "serving"] /\ UNCHANGED streams
     ELSE DropBy(s, [served EXCEPT ![s].st = "done"])
  /\ UNCHANGED <<fromGuest, frames, lastGuest, nextHost, linkUp, linkClosed, linkReady, start>>

\* serve takes the next frame; a failed write and a reset end it.
ServeFrame(s, ok) ==
  LET f == Head(served[s].q)
      rest == [served EXCEPT ![s].q = Tail(@)]
  IN
  /\ served[s].st = "serving" /\ served[s].q # <<>>
  /\ CASE f.type = "data" /\ ok -> served' = [rest EXCEPT ![s].got = Append(@, f.n)] /\ UNCHANGED streams
       [] f.type = "end" /\ ok -> served' = rest /\ UNCHANGED streams
       [] OTHER -> DropBy(s, [rest EXCEPT ![s].st = "done"])
  /\ UNCHANGED <<fromGuest, frames, lastGuest, nextHost, linkUp, linkClosed, linkReady, start>>

ServeEnds(s) ==
  /\ served[s].st = "serving" /\ served[s].q = <<>> /\ served[s].closed
  /\ served' = [served EXCEPT ![s].st = "done"]
  /\ UNCHANGED <<fromGuest, frames, streams, lastGuest, nextHost, linkUp, linkClosed, linkReady, start>>

\* The goroutine reading the connection meets an error.
ConnFails(s) ==
  /\ served[s].st = "serving" /\ ~served[s].closed
  /\ DropBy(s, served)
  /\ UNCHANGED <<fromGuest, frames, lastGuest, nextHost, linkUp, linkClosed, linkReady, start>>

-----------------------------------------------------------------------------
(* StartLink. *)

\* What the select returns; an ended link is looked at once more (#643).
StartOutcome ==
  IF linkReady THEN {"ready"} ELSE IF linkClosed THEN {"failed"} ELSE {}

StartLink ==
  /\ start = "waiting" /\ start' \in StartOutcome
  /\ UNCHANGED <<fromGuest, frames, served, streams, lastGuest, nextHost, linkUp, linkClosed, linkReady>>

\* The start limit passes: the exec is stopped and StartLink waits for the
\* read loop.
StartTimesOut ==
  /\ start = "waiting" /\ start' = "closing" /\ linkUp' = FALSE
  /\ UNCHANGED <<fromGuest, frames, served, streams, lastGuest, nextHost, linkClosed, linkReady>>

StartClosed ==
  /\ start = "closing" /\ linkClosed /\ start' = "late"
  /\ UNCHANGED <<fromGuest, frames, served, streams, lastGuest, nextHost, linkUp, linkClosed, linkReady>>

LinkNext ==
  \/ \E type \in {"open", "data", "end", "reset"}, id \in GuestIds : GuestSends(type, id)
  \/ GuestSends("ready", 0) \/ GuestProcessEnds
  \/ ReadReady \/ ReadOpen \/ (\E type \in {"data", "end", "reset"} : ReadFrame(type)) \/ ReadEnds
  \/ LinkForward \/ StartLink \/ StartTimesOut \/ StartClosed
  \/ \E s \in DOMAIN served : ServeEnds(s) \/ ConnFails(s)
  \/ \E s \in DOMAIN served, ok \in BOOLEAN : DialServe(s, ok) \/ ServeFrame(s, ok)

-----------------------------------------------------------------------------
\* Variables keep their shape: the map names open streams with their ids.
LinkTypeOK ==
  /\ start \in {"waiting", "ready", "failed", "closing", "late"} /\ lastGuest \in GuestIds \union {0}
  /\ \A id \in InMap : streams[id] \in DOMAIN served /\ served[streams[id]].id = id
  /\ \A s \in DOMAIN served : Len(served[s].q) <= Queue

\* A stream's connection receives what the guest sent on it, in order and
\* without a gap: one that falls behind is cut off, never thinned out.
DeliveredIsPrefix ==
  \A s \in DOMAIN served : LET got == served[s].got
                               seen == served[s].seen
                           IN  Len(got) <= Len(seen) /\ got = SubSeq(seen, 1, Len(got))

\* The guest cannot make the host hold more streams than the bound.
StreamsBounded == Cardinality(InMap) <= MaxStreams

\* Every stream still served can be ended: the map names it, or its channel
\* is closed.  None waits for frames that can no longer come.
ServedCanEnd ==
  \A s \in DOMAIN served :
    served[s].st # "done" => served[s].closed \/ streams[served[s].id] = s

\* A link that became ready is never reported as one that did not.
ReadyIsReported == [][start' = "failed" /\ start = "waiting" => ~linkReady]_linkVars
=============================================================================
