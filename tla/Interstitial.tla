----------------------------- MODULE Interstitial -----------------------------
(***************************************************************************)
(* The daemon's table of HTTP requests that wait for an approval           *)
(* (daemon/internal/interstitial/handler.go) and the client library that   *)
(* polls it and retries (sdk/go/client.go).                                *)
(*                                                                         *)
(* A call is one Client.Do and names the request its challenge registers.  *)
(* The proxy that answers with the challenge, its paths and cookies, and   *)
(* calls RedeemGrant when the client comes back is not in the repository,  *)
(* and neither is the channel that brings the decision: each request is    *)
(* decided once and the handler told late or more than once.  Time is what *)
(* has passed: an entry is fresh, expired, or old (5 minutes past its      *)
(* expiry), a client is overdue once maxWaitTime is over.                  *)
(***************************************************************************)
EXTENDS Naturals, FiniteSets

CONSTANT Exchanges   \* calls of Client.Do

VARIABLES
  pendingReqs,   \* keys of Handler.pendingReqs
  entry,         \* call -> its PendingRequest
  decision,      \* call -> what the approver decided
  client,        \* call -> where Do is
  saw,           \* call -> Status when ServeStatus found the entry
  overdue,       \* calls whose deadline has passed
  redeemed       \* call -> successful calls of RedeemGrant

httpVars == <<pendingReqs, entry, decision, client, saw, overdue, redeemed>>

NoRequest == [status |-> "NONE", redeemCap |-> FALSE, grant |-> FALSE, age |-> "fresh"]

HttpInit ==
  /\ pendingReqs = {}
  /\ entry = [c \in Exchanges |-> NoRequest]
  /\ decision = [c \in Exchanges |-> "none"]
  /\ client = [c \in Exchanges |-> "start"]
  /\ saw = [c \in Exchanges |-> "NONE"]
  /\ overdue = {}
  /\ redeemed = [c \in Exchanges |-> 0]

Step(c, to) == client' = [client EXCEPT ![c] = to]

-------------------------------------------------------------------------------
(***************************************************************************)
(* The handler.                                                            *)
(***************************************************************************)

RegisterPending(c) ==
  /\ pendingReqs' = pendingReqs \cup {c}
  /\ entry' = [entry EXCEPT ![c] =
                [status |-> "PENDING", redeemCap |-> TRUE, grant |-> FALSE, age |-> "fresh"]]

MarkApproved(c) ==
  /\ decision[c] = "approve" /\ c \in pendingReqs
  /\ entry' = [entry EXCEPT ![c].status = "APPROVED", ![c].grant = TRUE]
  /\ UNCHANGED <<pendingReqs, decision, client, saw, overdue, redeemed>>

MarkDenied(c) ==
  /\ decision[c] = "deny" /\ c \in pendingReqs
  /\ entry' = [entry EXCEPT ![c].status = "DENIED"]
  /\ UNCHANGED <<pendingReqs, decision, client, saw, overdue, redeemed>>

Expires(e) == e.age # "fresh" /\ e.status = "PENDING"

\* One pass over the table under its lock.
MarkExpired ==
  /\ entry' = [c \in Exchanges |->
       IF c \in pendingReqs /\ Expires(entry[c]) THEN [entry[c] EXCEPT !.status = "EXPIRED"] ELSE entry[c]]
  /\ pendingReqs' = {c \in pendingReqs : entry[c].age # "old"}
  /\ UNCHANGED <<decision, client, saw, overdue, redeemed>>

\* Mutant: the status alone says that the capability is spent.
ConsumeStatus(e) == [e EXCEPT !.status = "GRANTED"]

Consume(e) == [e EXCEPT !.status = "GRANTED", !.redeemCap = FALSE]

Redeemable(c) == c \in pendingReqs /\ entry[c].redeemCap /\ entry[c].status = "APPROVED" /\ entry[c].grant

RedeemGrant(c) ==
  /\ Redeemable(c)
  /\ entry' = [entry EXCEPT ![c] = Consume(@)]
  /\ redeemed' = [redeemed EXCEPT ![c] = @ + 1]

-------------------------------------------------------------------------------
(***************************************************************************)
(* Client.Do.                                                              *)
(***************************************************************************)

\* The answer is no challenge, or one without the URL or the cookie to poll with.
NotChallenged(c) ==
  /\ client[c] = "start"
  /\ Step(c, "returned")
  /\ UNCHANGED <<pendingReqs, entry, decision, saw, overdue, redeemed>>

Challenge(c) ==
  /\ client[c] = "start"
  /\ RegisterPending(c)
  /\ Step(c, "poll")
  /\ UNCHANGED <<decision, saw, overdue, redeemed>>

\* The caller cancels its context.
Cancelled(c) ==
  /\ client[c] = "poll"
  /\ Step(c, "failed")
  /\ UNCHANGED <<pendingReqs, entry, decision, saw, overdue, redeemed>>

\* Mutant: no deadline.
NeverTimedOut(c) == FALSE

TimedOut(c) == c \in overdue

PollEnds(c) ==
  /\ client[c] = "poll" /\ TimedOut(c)
  /\ Step(c, "failed")
  /\ UNCHANGED <<pendingReqs, entry, decision, saw, overdue, redeemed>>

\* A tick before the deadline.  ServeStatus gets hold of the entry under the
\* lock; what it does not find is PENDING.
ServeLookup(c) ==
  /\ client[c] = "poll" /\ ~ TimedOut(c)
  /\ IF c \in pendingReqs
       THEN Step(c, "status") /\ saw' = [saw EXCEPT ![c] = entry[c].status]
       ELSE UNCHANGED <<client, saw>>
  /\ UNCHANGED <<pendingReqs, entry, decision, overdue, redeemed>>

\* ServeStatus reads Status, a string of two words, after it released the lock:
\* a write at the same time may leave it the bytes of one value and the length
\* of another.
StatusRead(c) == {entry[c].status} \cup (IF entry[c].status # saw[c] THEN {"torn"} ELSE {})

\* Mutant: what is not known is a denial.
UnknownIsDenied(s) == IF s \in {"PENDING", "APPROVED", "EXPIRED"} THEN s ELSE "DENIED"

ParseStatusResponse(s) == IF s \in {"APPROVED", "DENIED", "EXPIRED"} THEN s ELSE "PENDING"

StatusArrives(c) ==
  /\ client[c] = "status"
  /\ \E s \in StatusRead(c) :
       Step(c, CASE ParseStatusResponse(s) = "APPROVED" -> "retry"
                 [] ParseStatusResponse(s) = "DENIED" -> "denied"
                 [] ParseStatusResponse(s) = "EXPIRED" -> "expired"
                 [] OTHER -> "poll")
  /\ saw' = [saw EXCEPT ![c] = "NONE"]
  /\ UNCHANGED <<pendingReqs, entry, decision, overdue, redeemed>>

\* A network error: the next tick tries again.
StatusLost(c) ==
  /\ client[c] = "status"
  /\ Step(c, "poll")
  /\ saw' = [saw EXCEPT ![c] = "NONE"]
  /\ UNCHANGED <<pendingReqs, entry, decision, overdue, redeemed>>

\* The request again, now with the redeem cookie.  When the answer is lost the
\* call fails, or the transport sends the request once more.
RetryRedeems(c) ==
  /\ client[c] = "retry"
  /\ RedeemGrant(c)
  /\ \E to \in {"returned", "failed", "retry"} : Step(c, to)
  /\ UNCHANGED <<pendingReqs, decision, saw, overdue>>

\* The challenge named no redeem path or set no redeem cookie: the request goes out
\* without the capability, and a live approval is refused.  A request of which a
\* copy was redeemed carries it.
RetryBare(c) ==
  /\ client[c] = "retry" /\ redeemed[c] = 0
  /\ Step(c, "refused")
  /\ UNCHANGED <<pendingReqs, entry, decision, saw, overdue, redeemed>>

RetryRefused(c) ==
  /\ client[c] = "retry" /\ ~ Redeemable(c)
  /\ Step(c, "refused")
  /\ UNCHANGED <<pendingReqs, entry, decision, saw, overdue, redeemed>>

-------------------------------------------------------------------------------
(***************************************************************************)
(* The approver and the clock.                                             *)
(***************************************************************************)

Decided(c) ==
  /\ client[c] # "start" /\ decision[c] = "none"
  /\ decision' \in {[decision EXCEPT ![c] = d] : d \in {"approve", "deny"}}
  /\ UNCHANGED <<pendingReqs, entry, client, saw, overdue, redeemed>>

EntryAges(c) ==
  /\ c \in pendingReqs
  /\ \/ entry[c].age = "fresh" /\ entry' = [entry EXCEPT ![c].age = "expired"]
     \/ entry[c].age = "expired" /\ entry' = [entry EXCEPT ![c].age = "old"]
  /\ UNCHANGED <<pendingReqs, decision, client, saw, overdue, redeemed>>

DeadlinePasses(c) ==
  /\ client[c] \in {"poll", "status"} /\ c \notin overdue
  /\ overdue' = overdue \cup {c}
  /\ UNCHANGED <<pendingReqs, entry, decision, client, saw, redeemed>>

HttpNext ==
  \/ \E c \in Exchanges : NotChallenged(c) \/ Challenge(c) \/ Cancelled(c) \/ PollEnds(c)
  \/ \E c \in Exchanges : ServeLookup(c) \/ StatusArrives(c) \/ StatusLost(c)
  \/ \E c \in Exchanges : RetryRedeems(c) \/ RetryBare(c) \/ RetryRefused(c)
  \/ \E c \in Exchanges : MarkApproved(c) \/ MarkDenied(c)
  \/ MarkExpired
  \/ \E c \in Exchanges : Decided(c) \/ EntryAges(c) \/ DeadlinePasses(c)

\* The ticker ticks, an HTTP exchange ends within the client's 30 s, and time
\* passes.  Nobody need decide, and nobody need call MarkExpired.
HttpFairness ==
  \A c \in Exchanges :
    /\ WF_httpVars(PollEnds(c) \/ ServeLookup(c) \/ StatusArrives(c) \/ StatusLost(c)
                     \/ RetryRedeems(c) \/ RetryBare(c) \/ RetryRefused(c))
    /\ WF_httpVars(DeadlinePasses(c))

-------------------------------------------------------------------------------
Statuses == {"NONE", "PENDING", "APPROVED", "DENIED", "EXPIRED", "GRANTED"}

HttpTypeOK ==
  /\ pendingReqs \subseteq Exchanges /\ overdue \subseteq Exchanges
  /\ entry \in [Exchanges -> [status : Statuses, redeemCap : BOOLEAN, grant : BOOLEAN,
                          age : {"fresh", "expired", "old"}]]
  /\ decision \in [Exchanges -> {"none", "approve", "deny"}]
  /\ client \in [Exchanges -> {"start", "poll", "status", "retry", "returned", "failed",
                           "refused", "denied", "expired"}]
  /\ saw \in [Exchanges -> Statuses]
  /\ redeemed \in [Exchanges -> Nat]

\* A grant is redeemed at most once, and only after an approval: also when the
\* client's transport repeats the request, and when the approval is reported
\* again after the redemption and the status is APPROVED once more (handler.go:98-118
\* and 241-272).
RedeemedOnce ==
  \A c \in Exchanges :
    /\ redeemed[c] <= 1
    /\ redeemed[c] # 0 => decision[c] = "approve"

\* What Do reports is what was decided: it comes back to redeem only after an
\* approval, and reports a denial only after one, whatever it reads while the
\* status changes under ServeStatus (handler.go:223-236, client.go:208-222).
VerdictIsTheApprovers ==
  \A c \in Exchanges :
    /\ client[c] \in {"retry", "refused"} => decision[c] = "approve"
    /\ client[c] = "denied" => decision[c] = "deny"

\* A call that is challenged comes to an end, although the status stays PENDING
\* for ever when nobody decides or the entry is removed (client.go:176-227).
DoReturns == \A c \in Exchanges : client[c] = "poll" ~> client[c] \notin {"poll", "status", "retry"}

===============================================================================
