---------------------------- MODULE PreviewLinks ----------------------------
(***************************************************************************)
(* The plane's forwards into one container: the map of previewLink         *)
(* entries, the link an entry starts once for all its callers, the host    *)
(* listener of a forwarded port, and closeForwards, which a stop or a      *)
(* removal of the container runs beside them.  (internal/env/docker.go.)   *)
(*                                                                         *)
(* A caller is one goroutine in guestAddr, or a listener's accept loop     *)
(* with the connection it handles.  One port is forwarded.  Sleeps and     *)
(* wakes of a container exclude each other, but a claim destroys it        *)
(* without that exclusion, so closeForwards may overlap itself: Closers.   *)
(***************************************************************************)
EXTENDS Naturals, FiniteSets

CONSTANTS LinkCallers,   \* goroutines
          Closers,       \* stops and removals at a time
          MaxForwardSets,\* entries made for the container
          MaxStarts      \* links started

ASSUME PreviewLinkBounds == MaxForwardSets \in Nat \ {0} /\ MaxStarts \in Nat \ {0}

VARIABLES mapped,   \* dockerForwards[id]: an entry, or 0
          entry,    \* the entries: closed, link, starting, listener
          proc,     \* link processes: "none", "up" or "down"
          at,       \* where each caller is
          mine,     \* its entry
          holding,  \* its link
          serves,   \* TRUE when it handles an accepted connection
          closer,   \* where each closeForwards is
          closes    \* the link each has taken

forwardVars == <<mapped, entry, proc, at, mine, holding, serves, closer, closes>>
callerVars == <<at, mine, holding, serves>>

ForwardSets == 1 .. MaxForwardSets
Procs == 1 .. MaxStarts
NewEntry == [closed |-> FALSE, link |-> 0, starting |-> FALSE, listener |-> "none", made |-> TRUE]

ForwardInit ==
  /\ mapped = 0
  /\ entry = [e \in ForwardSets |-> [NewEntry EXCEPT !.made = FALSE]]
  /\ proc = [p \in Procs |-> [state |-> "none", of |-> 0]]
  /\ at = [c \in LinkCallers |-> "idle"] /\ mine = [c \in LinkCallers |-> 0]
  /\ holding = [c \in LinkCallers |-> 0] /\ serves = [c \in LinkCallers |-> FALSE]
  /\ closer = [k \in Closers |-> "idle"] /\ closes = [k \in Closers |-> 0]

Goes(c, where) == at' = [at EXCEPT ![c] = where]
Leaves(c) == /\ at' = [at EXCEPT ![c] = "idle"] /\ mine' = [mine EXCEPT ![c] = 0]
             /\ holding' = [holding EXCEPT ![c] = 0] /\ serves' = [serves EXCEPT ![c] = FALSE]
Unmade == {e \in ForwardSets : ~entry[e].made}
LeastSet(S) == CHOOSE e \in S : \A f \in S : e <= f

\* guestAddr: the entry of the container, stored when there is none.
LoadOrStore(c) ==
  /\ at[c] = "idle" /\ (mapped = 0 => Unmade # {})
  /\ LET e == IF mapped = 0 THEN LeastSet(Unmade) ELSE mapped
     IN  /\ mapped' = e /\ entry' = [entry EXCEPT ![e].made = TRUE]
         /\ mine' = [mine EXCEPT ![c] = e]
  /\ Goes(c, "current")
  /\ UNCHANGED <<proc, holding, serves, closer, closes>>

\* A connection on the listener asks for the current link too.  The accept
\* loop handles one at a time.
Accept(c, e) ==
  /\ at[c] = "idle" /\ entry[e].listener = "open"
  /\ \A d \in LinkCallers : ~(serves[d] /\ mine[d] = e)
  /\ mine' = [mine EXCEPT ![c] = e] /\ serves' = [serves EXCEPT ![c] = TRUE]
  /\ Goes(c, "current")
  /\ UNCHANGED <<mapped, entry, proc, holding, closer, closes>>

\* current, under the entry's mutex: closed, live, being started, or ours to
\* start.
MustWait(e) == entry[e].starting

LinkUp(e) == entry[e].link # 0 /\ proc[entry[e].link].state = "up"

Current(c) ==
  LET e == mine[c]
  IN  /\ at[c] = "current"
      /\ \/ /\ entry[e].closed /\ Leaves(c) /\ UNCHANGED entry
         \/ /\ ~entry[e].closed /\ LinkUp(e)
            /\ holding' = [holding EXCEPT ![c] = entry[e].link] /\ Goes(c, "linked")
            /\ UNCHANGED <<entry, mine, serves>>
         \/ /\ ~entry[e].closed /\ ~LinkUp(e) /\ MustWait(e)
            /\ Goes(c, "waiting") /\ UNCHANGED <<entry, mine, holding, serves>>
         \/ /\ ~entry[e].closed /\ ~LinkUp(e) /\ ~MustWait(e)
            /\ \E p \in Procs : proc[p].state = "none"
            /\ entry' = [entry EXCEPT ![e].starting = TRUE]
            /\ Goes(c, "starting") /\ UNCHANGED <<mine, holding, serves>>
      /\ UNCHANGED <<mapped, proc, closer, closes>>

\* StartLink, outside the mutex.
LinkStarts(c) ==
  /\ at[c] = "starting"
  /\ \E p \in Procs :
       /\ proc[p].state = "none"
       /\ proc' = [proc EXCEPT ![p] = [state |-> "up", of |-> mine[c]]]
       /\ holding' = [holding EXCEPT ![c] = p]
  /\ Goes(c, "started")
  /\ UNCHANGED <<mapped, entry, mine, serves, closer, closes>>

LinkRefused(c) ==
  /\ at[c] = "starting" /\ Goes(c, "started")
  /\ UNCHANGED <<mapped, entry, proc, mine, holding, serves, closer, closes>>

\* Back under the mutex: the waiters are woken, and the link is stored
\* unless the entry was closed meanwhile.
\* Mutant: the link is stored without looking.
ClosedMeanwhile_No(e) == FALSE
ClosedMeanwhile(e) == entry[e].closed

Woken(c, d) == at[d] = "waiting" /\ mine[d] = mine[c]

StartEnds(c) ==
  LET e == mine[c]
      late == holding[c] # 0 /\ ClosedMeanwhile(e)
      next == IF holding[c] = 0 THEN "idle" ELSE IF late THEN "late" ELSE "linked"
  IN  /\ at[c] = "started"
      /\ entry' = [entry EXCEPT ![e].starting = FALSE,
                                ![e].link = IF holding[c] # 0 /\ ~late THEN holding[c] ELSE @]
      /\ at' = [d \in LinkCallers |-> IF d = c THEN next
                                      ELSE IF Woken(c, d) THEN "current" ELSE at[d]]
      /\ mine' = [mine EXCEPT ![c] = IF next = "idle" THEN 0 ELSE @]
      /\ serves' = [serves EXCEPT ![c] = IF next = "idle" THEN FALSE ELSE @]
      /\ UNCHANGED <<mapped, proc, holding, closer, closes>>

LateLinkCloses(c) ==
  /\ at[c] = "late"
  /\ proc' = [proc EXCEPT ![holding[c]].state = "down"]
  /\ Leaves(c) /\ UNCHANGED <<mapped, entry, closer, closes>>

\* guestAddr has a live link: under the mutex again, the listener is found
\* or made, unless the entry was closed.
MayListen(e) == ~entry[e].closed

GuestAddr(c) ==
  /\ at[c] = "linked" /\ ~serves[c]
  /\ entry' = [entry EXCEPT ![mine[c]].listener = IF MayListen(mine[c]) THEN "open" ELSE @]
  /\ Leaves(c) /\ UNCHANGED <<mapped, proc, closer, closes>>

\* The connection becomes a stream of the link, or is closed.
ForwardConn(c) ==
  /\ at[c] = "linked" /\ serves[c]
  /\ Leaves(c) /\ UNCHANGED <<mapped, entry, proc, closer, closes>>

\* The link's process in the guest ends.
LinkProcessEnds(p) ==
  /\ proc[p].state = "up" /\ proc' = [proc EXCEPT ![p].state = "down"]
  /\ UNCHANGED <<mapped, entry, callerVars, closer, closes>>

\* closeForwards: mark and take under the mutex, close outside, delete the
\* container's key, whatever entry it names by then.
CloseForwards(k) ==
  /\ closer[k] = "idle" /\ mapped # 0
  /\ closes' = [closes EXCEPT ![k] = entry[mapped].link] /\ closer' = [closer EXCEPT ![k] = "marked"]
  /\ entry' = [entry EXCEPT ![mapped].closed = TRUE, ![mapped].link = 0,
                            ![mapped].listener = IF @ = "open" THEN "shut" ELSE @]
  /\ UNCHANGED <<mapped, proc, callerVars>>

CloseLink(k) ==
  /\ closer[k] = "marked" /\ closer' = [closer EXCEPT ![k] = "closed"]
  /\ proc' = IF closes[k] = 0 THEN proc ELSE [proc EXCEPT ![closes[k]].state = "down"]
  /\ UNCHANGED <<mapped, entry, callerVars, closes>>

DeleteForwards(k) ==
  /\ closer[k] = "closed" /\ closer' = [closer EXCEPT ![k] = "idle"]
  /\ closes' = [closes EXCEPT ![k] = 0] /\ mapped' = 0
  /\ UNCHANGED <<entry, proc, callerVars>>

CallerStep(c) == \/ Current(c) \/ LinkRefused(c) \/ LinkStarts(c) \/ StartEnds(c)
                 \/ LateLinkCloses(c) \/ GuestAddr(c) \/ ForwardConn(c)

ForwardNext ==
  \/ \E c \in LinkCallers : LoadOrStore(c) \/ CallerStep(c) \/ \E e \in ForwardSets : Accept(c, e)
  \/ \E p \in Procs : LinkProcessEnds(p)
  \/ \E k \in Closers : CloseForwards(k) \/ CloseLink(k) \/ DeleteForwards(k)

\* Every goroutine goes on; a start returns, one way or the other.
ForwardFairness == \A c \in LinkCallers : WF_forwardVars(CallerStep(c))

-----------------------------------------------------------------------------
(* Properties *)

\* Every caller's entry has been made, every link in an entry started, and a
\* waiter waits for a start that is under way.
ForwardTypeOK ==
  /\ mapped \in 0 .. MaxForwardSets /\ (mapped # 0 => entry[mapped].made)
  /\ \A c \in LinkCallers : at[c] # "idle" => mine[c] \in ForwardSets /\ entry[mine[c]].made
  /\ \A c \in LinkCallers : at[c] = "waiting" => entry[mine[c]].starting
  /\ \A e \in ForwardSets : entry[e].link # 0 => proc[entry[e].link].of = e

\* However many callers meet an entry whose link has ended, one link is
\* started for them: no two link processes of one entry are up at once.
OneLinkPerEntry ==
  \A e \in ForwardSets : Cardinality({p \in Procs : proc[p].state = "up" /\ proc[p].of = e}) <= 1

\* After closeForwards nothing of a closed entry stays behind: no listener,
\* and no link but one that its starter or the closer is about to close.
ClosedHoldsNothing ==
  \A e \in ForwardSets : entry[e].closed =>
    /\ entry[e].listener # "open"
    /\ \A p \in Procs : (proc[p].state = "up" /\ proc[p].of = e) =>
         \/ \E c \in LinkCallers : holding[c] = p /\ at[c] \in {"started", "late"}
         \/ \E k \in Closers : closes[k] = p /\ closer[k] = "marked"

\* An entry that may still hold a listener or a link is the one the map
\* names, so the next stop of the container finds it.  With two closers it
\* fails: the second deletes the key after a caller has stored a new entry.
OpenIsFound == \A e \in ForwardSets : (entry[e].made /\ ~entry[e].closed) => mapped = e

\* A caller that waits for another's start gets its turn, whether that start
\* succeeds, fails or is overtaken by a close.
WaitersReturn == \A c \in LinkCallers : (at[c] = "waiting") ~> (at[c] # "waiting")
=============================================================================
