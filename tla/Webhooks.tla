------------------------------ MODULE Webhooks ------------------------------
(***************************************************************************)
(* Session webhooks: a secret minted once per session, and signed          *)
(* deliveries that wake the session's environment and queue one prompt.    *)
(* A sender repeats a delivery it got no answer for, or an error; the      *)
(* calls of one delivery may overlap, and the plane may stop inside one.   *)
(***************************************************************************)
EXTENDS Integers, FiniteSets

CONSTANTS
    Deliveries,   \* delivery ids
    Callers,      \* concurrent handlers
    MaxCalls,     \* bound on calls
    MaxFlaws      \* bound on failed wakes, pauses, archivings and crashes

VARIABLES
    secret,       \* session_webhooks: the stored secret, 0 when none
    handed,       \* history: secrets handed to callers
    minted,       \* secrets generated
    rows,         \* session_webhook_deliveries: delivery -> "none", "accepted" or "refused"
    prompted,     \* history: delivery -> prompts queued
    ok,           \* history: deliveries answered 202 to a signed call
    callers,      \* caller -> [at, delivery, signed, secret]
    hookArchived, \* the session is archived
    hookPaused,   \* its project is paused
    callsMade, flaws

hookVars == <<secret, handed, minted, rows, prompted, ok, callers, hookArchived, hookPaused,
              callsMade, flaws>>

NoCall == [at |-> "idle", delivery |-> "none", signed |-> FALSE, secret |-> 0]

HookTypeOK ==
    /\ secret \in 0 .. minted
    /\ rows \in [Deliveries -> {"none", "accepted", "refused"}]
    /\ \A d \in Deliveries : prompted[d] \in Nat
    /\ \A c \in Callers : callers[c].at \in {"idle", "put", "reget", "insert", "wake", "prompt"}

HookInit ==
    /\ secret = 0 /\ handed = {} /\ minted = 0
    /\ rows = [d \in Deliveries |-> "none"]
    /\ prompted = [d \in Deliveries |-> 0]
    /\ ok = {}
    /\ callers = [c \in Callers |-> NoCall]
    /\ hookArchived = FALSE /\ hookPaused = FALSE
    /\ callsMade = 0 /\ flaws = 0

NewCallOf(c) == callers[c].at = "idle" /\ callsMade < MaxCalls /\ callsMade' = callsMade + 1
At(c, stage) == callers' = [callers EXCEPT ![c].at = stage]
Ends(c) == callers' = [callers EXCEPT ![c] = NoCall]

-----------------------------------------------------------------------------
(* EnsureSessionWebhook: look, mint, insert or ignore, and read again. *)

EnsureSessionWebhook(c) ==
    /\ NewCallOf(c) /\ ~hookArchived
    /\ IF secret # 0
       THEN handed' = handed \cup {secret} /\ UNCHANGED <<minted, callers>>
       ELSE /\ minted' = minted + 1
            /\ callers' = [callers EXCEPT ![c].at = "put", ![c].secret = minted']
            /\ UNCHANGED handed
    /\ UNCHANGED <<secret, rows, prompted, ok, hookArchived, hookPaused, flaws>>

\* PutSessionWebhook: INSERT OR IGNORE.
PutSessionWebhook(c) ==
    /\ callers[c].at = "put"
    /\ secret' = IF secret = 0 THEN callers[c].secret ELSE secret
    /\ At(c, "reget")
    /\ UNCHANGED <<handed, minted, rows, prompted, ok, hookArchived, hookPaused, callsMade, flaws>>

\* GetSessionWebhook after the insert: what is stored is handed out.
GetSessionWebhook(c) ==
    /\ callers[c].at = "reget"
    /\ handed' = handed \cup {secret}
    /\ Ends(c)
    /\ UNCHANGED <<secret, minted, rows, prompted, ok, hookArchived, hookPaused, callsMade, flaws>>

-----------------------------------------------------------------------------
(* DeliverSessionWebhook. *)

\* The session and its secret are read, the signature is verified.  An
\* archived session and a bad signature are stored as refusals.
DeliverSessionWebhook(c, d, signed) ==
    /\ NewCallOf(c) /\ secret # 0
    /\ IF hookArchived \/ ~signed
       THEN /\ rows' = [rows EXCEPT ![d] = IF @ = "none" THEN "refused" ELSE @]
            /\ UNCHANGED callers
       ELSE /\ callers' = [callers EXCEPT ![c] =
                              [at |-> "insert", delivery |-> d, signed |-> signed, secret |-> 0]]
            /\ UNCHANGED rows
    /\ UNCHANGED <<secret, handed, minted, prompted, ok, hookArchived, hookPaused, flaws>>

\* Mutant: a known delivery goes on.
InsertWebhookDelivery_Always(c) ==
    /\ callers[c].at = "insert"
    /\ rows' = [rows EXCEPT ![callers[c].delivery] = "accepted"] /\ At(c, "wake")
    /\ UNCHANGED <<secret, handed, minted, prompted, ok, hookArchived, hookPaused, callsMade, flaws>>

\* InsertWebhookDelivery: INSERT OR IGNORE; a known delivery is answered 202.
InsertWebhookDelivery(c) ==
    /\ callers[c].at = "insert"
    /\ LET d == callers[c].delivery IN
       IF rows[d] = "none"
       THEN rows' = [rows EXCEPT ![d] = "accepted"] /\ At(c, "wake") /\ UNCHANGED ok
       ELSE ok' = ok \cup {d} /\ Ends(c) /\ UNCHANGED rows
    /\ UNCHANGED <<secret, handed, minted, prompted, hookArchived, hookPaused, callsMade, flaws>>

WakeSessionEnvironment(c) ==
    /\ callers[c].at = "wake"
    /\ At(c, "prompt")
    /\ UNCHANGED <<secret, handed, minted, rows, prompted, ok, hookArchived, hookPaused, callsMade, flaws>>

WakeFails(c) ==
    /\ callers[c].at = "wake" /\ flaws < MaxFlaws
    /\ flaws' = flaws + 1
    /\ Ends(c)
    /\ UNCHANGED <<secret, handed, minted, rows, prompted, ok, hookArchived, hookPaused, callsMade>>

\* PromptQueued: an archived session or a paused project answers 409.
PromptDelivery(c) ==
    /\ callers[c].at = "prompt"
    /\ LET d == callers[c].delivery IN
       IF hookArchived \/ hookPaused THEN UNCHANGED <<prompted, ok>>
       ELSE prompted' = [prompted EXCEPT ![d] = @ + 1] /\ ok' = ok \cup {d}
    /\ Ends(c)
    /\ UNCHANGED <<secret, handed, minted, rows, hookArchived, hookPaused, callsMade, flaws>>

HookSwitch ==
    /\ flaws < MaxFlaws /\ flaws' = flaws + 1
    /\ \/ hookArchived' = ~hookArchived /\ UNCHANGED <<hookPaused, callers>>
       \/ hookPaused' = ~hookPaused /\ UNCHANGED <<hookArchived, callers>>
       \/ /\ callers' = [c \in Callers |-> NoCall]   \* the plane stops
          /\ callers' # callers
          /\ UNCHANGED <<hookArchived, hookPaused>>
    /\ UNCHANGED <<secret, handed, minted, rows, prompted, ok, callsMade>>

HookNext ==
    \/ \E c \in Callers :
          \/ EnsureSessionWebhook(c) \/ PutSessionWebhook(c) \/ GetSessionWebhook(c)
          \/ \E d \in Deliveries, signed \in BOOLEAN : DeliverSessionWebhook(c, d, signed)
          \/ InsertWebhookDelivery(c) \/ WakeSessionEnvironment(c) \/ WakeFails(c)
          \/ PromptDelivery(c)
    \/ HookSwitch

-----------------------------------------------------------------------------
(* Properties. *)

\* Every caller is handed the secret deliveries are verified with, also when
\* two calls mint one at the same time.
HandedSecretVerifies == handed \subseteq {secret}

\* A delivery queues at most one prompt, however often it is sent.
PromptedAtMostOnce ==
    \A d \in Deliveries : prompted[d] <= 1 /\ (prompted[d] > 0 => rows[d] = "accepted")

\* A signed delivery that was answered 202 has queued its prompt, or a call
\* of it is about to.  Stated of DeliverSessionWebhook: "A valid signature
\* wakes that environment and queues a prompt containing the delivery id."
DeliveryPrompts ==
    \A d \in ok : prompted[d] = 1 \/ \E c \in Callers : callers[c].delivery = d
=============================================================================
