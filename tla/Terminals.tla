----------------------------- MODULE Terminals -----------------------------
(***************************************************************************)
(* The managed terminal of one environment: the write lease in the store,  *)
(* the shell the plane keeps in memory, and attach clients that take the   *)
(* lease, type and release it.  An acquisition reads the lease, may open a *)
(* shell and only then writes the lease; Overlap says whether another      *)
(* request runs in between.                                                *)
(***************************************************************************)
EXTENDS Naturals, FiniteSets

CONSTANTS Attachers,
          Overlap,     \* two requests of the terminal may interleave
          Cap,         \* bytes the plane keeps of a shell's output (8192)
          MaxGrants,   \* acquisitions in a behaviour
          MaxBytes,    \* bytes the shell prints
          MaxMishaps   \* archives, restarts and shells that die

ASSUME TerminalBounds == {Cap, MaxGrants, MaxBytes, MaxMishaps} \subseteq Nat

VARIABLES tlease,    \* terminal_leases: generation (0: no row) and whether it has time left
          rowAge,    \* how often the row has been deleted
          shell,     \* s.terms: the shell the plane knows, 0 for none
          running,   \* shells that run
          opened,    \* shells opened so far
          acquiring, \* per client, the generation an acquisition under way will write
          client,    \* attach clients
          printed, kept, \* bytes the shell printed; bytes the plane keeps
          mishaps

termVars == <<tlease, rowAge, shell, running, opened, acquiring, client, printed, kept, mishaps>>

NoLease == [gen |-> 0, live |-> FALSE]
Out == [at |-> "out", gen |-> 0, age |-> 0, off |-> 0, got |-> 0]

TermInit ==
  /\ tlease = NoLease /\ rowAge = 0 /\ shell = 0 /\ running = {} /\ opened = 0
  /\ acquiring = [c \in Attachers |-> 0] /\ client = [c \in Attachers |-> Out]
  /\ printed = 0 /\ kept = 0 /\ mishaps = 0

\* Another request may be served.
Free == Overlap \/ \A c \in Attachers : acquiring[c] = 0

\* The client starts to receive output: first all that is kept.
Streams(c, at) == [client[c] EXCEPT !.at = at, !.off = kept, !.got = printed]

\* attachManaged starts: the page says whether the lease is held.
FetchTerminalPage(c) ==
  /\ Free /\ client[c].at = "out"
  /\ client' = [client EXCEPT ![c] =
       IF tlease.live THEN Streams(c, "reader") ELSE [@ EXCEPT !.at = "asking"]]
  /\ UNCHANGED <<tlease, rowAge, shell, running, opened, acquiring, printed, kept, mishaps>>


NextGeneration == tlease.gen + 1

\* consoleTermLease refuses while another lease has time left.
LeaseFree == ~tlease.live

\* consoleTermLease up to its writes; a refused client attaches read-only.
AcquireManagedLease(c) ==
  /\ Free /\ client[c].at = "asking" /\ tlease.gen < MaxGrants
  /\ IF LeaseFree
     THEN /\ acquiring' = [acquiring EXCEPT ![c] = NextGeneration]
          /\ client' = [client EXCEPT ![c].at = "waiting"]
     ELSE /\ client' = [client EXCEPT ![c] = Streams(c, "reader")] /\ UNCHANGED acquiring
  /\ UNCHANGED <<tlease, rowAge, shell, running, opened, printed, kept, mishaps>>

\* stopTerm
StopTerm == running \ {shell}

\* ensureTerm: the shell is reused while it lives, else replaced.
EnsureTerm ==
  IF shell # 0 /\ shell \in running THEN UNCHANGED <<shell, running, opened, kept>>
  ELSE /\ shell' = opened + 1 /\ opened' = opened + 1
       /\ running' = StopTerm \cup {opened + 1} /\ kept' = 0

\* The rest of consoleTermLease, and the answer.
LeaseGranted(c) ==
  /\ acquiring[c] # 0 /\ acquiring' = [acquiring EXCEPT ![c] = 0]
  /\ EnsureTerm
  /\ tlease' = [gen |-> acquiring[c], live |-> TRUE]
  /\ client' = [client EXCEPT ![c] = [@ EXCEPT !.at = "checking", !.gen = acquiring[c], !.age = rowAge]]
  /\ UNCHANGED <<rowAge, printed, mishaps>>

\* The client reads the page again and gives up if its lease is not there.
LeaseChecked(c) ==
  /\ Free /\ client[c].at = "checking"
  /\ client' = [client EXCEPT ![c] =
       IF tlease.live /\ tlease.gen = client[c].gen THEN Streams(c, "writer")
       ELSE [@ EXCEPT !.at = "leaving"]]
  /\ UNCHANGED <<tlease, rowAge, shell, running, opened, acquiring, printed, kept, mishaps>>

MayType(c) == tlease.live /\ client[c].gen = tlease.gen

\* pump keeps the last Cap bytes of the output.
Trimmed == IF kept < Cap THEN kept + 1 ELSE Cap

\* consoleTermInput renews the lease it read; a refused input ends the client.
TypeLine(c) ==
  /\ Free /\ client[c].at = "writer"
  /\ IF MayType(c) /\ shell \in running
     THEN /\ printed < MaxBytes /\ printed' = printed + 1
          /\ kept' = Trimmed
          /\ UNCHANGED client
     ELSE client' = [client EXCEPT ![c].at = "leaving"] /\ UNCHANGED <<printed, kept>>
  /\ UNCHANGED <<tlease, rowAge, shell, running, opened, acquiring, mishaps>>

\* consoleTermRevoke checks the generation it is given.
RevokeAllowed(c) == tlease.gen # 0 /\ tlease.gen = client[c].gen

\* releaseManagedLease, deferred by every client that acquired.
ReleaseManagedLease(c) ==
  /\ Free /\ client[c].at \in {"writer", "leaving"}
  /\ tlease' = IF RevokeAllowed(c) THEN [tlease EXCEPT !.live = FALSE] ELSE tlease
  /\ client' = [client EXCEPT ![c] = Out]
  /\ UNCHANGED <<rowAge, shell, running, opened, acquiring, printed, kept, mishaps>>

ReaderLeaves(c) ==
  /\ client[c].at = "reader" /\ client' = [client EXCEPT ![c] = Out]
  /\ UNCHANGED <<tlease, rowAge, shell, running, opened, acquiring, printed, kept, mishaps>>

\* consoleTermOutput sends what lies past its offset into the kept bytes.
SendOutput(c) ==
  /\ client[c].at \in {"reader", "writer"} /\ kept > client[c].off
  /\ client' = [client EXCEPT ![c].off = kept, ![c].got = printed]
  /\ UNCHANGED <<tlease, rowAge, shell, running, opened, acquiring, printed, kept, mishaps>>

\* A lease runs out unless it is renewed.
LeaseRunsOut ==
  /\ tlease.live /\ Free /\ tlease' = [tlease EXCEPT !.live = FALSE]
  /\ UNCHANGED <<rowAge, shell, running, opened, acquiring, client, printed, kept, mishaps>>

\* ArchiveSession deletes the row; the environment is woken again by the
\* next page, and the generations start over.
DeleteTerminalLease ==
  /\ Free /\ mishaps < MaxMishaps /\ mishaps' = mishaps + 1
  /\ tlease' = NoLease /\ rowAge' = rowAge + 1
  /\ UNCHANGED <<shell, running, opened, acquiring, client, printed, kept>>

\* The plane restarts: it forgets its shells, which end with it, and every
\* client's stream breaks; a client that acquired goes on to release.
TermPlaneRestarts ==
  /\ mishaps < MaxMishaps /\ mishaps' = mishaps + 1
  /\ shell' = 0 /\ running' = {} /\ acquiring' = [c \in Attachers |-> 0] /\ kept' = 0
  /\ client' = [c \in Attachers |->
       IF client[c].at \in {"writer", "checking", "leaving"}
       THEN [client[c] EXCEPT !.at = "leaving"] ELSE Out]
  /\ UNCHANGED <<tlease, rowAge, opened, printed>>

\* pump meets the end of the shell's output.
ShellDies ==
  /\ shell \in running /\ mishaps < MaxMishaps /\ mishaps' = mishaps + 1
  /\ running' = running \ {shell}
  /\ UNCHANGED <<tlease, rowAge, shell, opened, acquiring, client, printed, kept>>

TermNext ==
  \/ \E c \in Attachers :
       \/ FetchTerminalPage(c) \/ AcquireManagedLease(c) \/ LeaseGranted(c) \/ LeaseChecked(c)
       \/ TypeLine(c) \/ ReleaseManagedLease(c) \/ ReaderLeaves(c) \/ SendOutput(c)
  \/ LeaseRunsOut \/ DeleteTerminalLease \/ TermPlaneRestarts \/ ShellDies

-----------------------------------------------------------------------------
\* Every variable keeps its shape; what a client has seen was printed.
TermTypeOK ==
  /\ tlease.gen \in 0..MaxGrants + 1 /\ shell \in 0..opened /\ running \subseteq 1..opened
  /\ kept \in 0..Cap /\ \A c \in Attachers : client[c].got <= printed


\* A client that detaches ends its own lease and no one else's, even when it
\* does so long after its lease ran out.  With Overlap it fails as above.
ReleaseSparesOthers ==
  [][\A c, d \in Attachers :
       /\ c # d /\ client[d].at = "writer" /\ client[d].age = rowAge /\ MayType(d)
       /\ client[c].at \in {"writer", "leaving"} /\ client[c].age = rowAge /\ client'[c] = Out
       => tlease' = tlease]_termVars

\* Every shell that runs is one the plane still knows and can stop.  Here
\* ensureTerm is one step: requests that overlap inside it are left out.
NoOrphanShells == running \subseteq {shell}

\* The write lease is exclusive: at most one client may type.  It fails:
\* archiving deletes the row, the generations start over, and a client that
\* held the first generation before may type beside the one that holds it now.
WriteLeaseExclusive ==
  \A c, d \in Attachers :
    client[c].at = "writer" /\ client[d].at = "writer" /\ MayType(c) /\ MayType(d) => c = d

\* A client that has nothing left to receive has seen everything the shell
\* printed.  It fails once the shell has printed more than the plane keeps:
\* the offset stays at the end of the kept bytes, which no longer grow.
OutputReachesClient ==
  \A c \in Attachers :
    client[c].at \in {"reader", "writer"} /\ kept <= client[c].off => client[c].got = printed
=============================================================================
