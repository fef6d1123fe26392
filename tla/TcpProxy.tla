------------------------------ MODULE TcpProxy ------------------------------
(***************************************************************************)
(* The accept-and-hold proxy of the daemon (daemon/internal/tcpproxy).     *)
(*                                                                         *)
(* Every accepted connection has a goroutine, handleConnection, whose      *)
(* steps interleave with the others' and with those of Stop.  The two      *)
(* callbacks, the ACL check and the approval, answer as they like.  A      *)
(* connection is its own connID: 32 random bytes do not repeat.  Nothing   *)
(* ever reads a held connection before the splice, so the buffer for early *)
(* bytes stays empty.                                                      *)
(***************************************************************************)
EXTENDS Naturals, FiniteSets

CONSTANTS
  Conns,            \* client connections
  MaxPendingConns   \* Proxy.maxPendingConns

ASSUME ProxyAssumption == IsFiniteSet(Conns) /\ MaxPendingConns \in Nat

VARIABLES
  stop,           \* how far Stop is
  handler,        \* connection -> where its handleConnection is
  open,           \* connections whose socket the proxy has not closed
  activeConns,    \* Proxy.activeConns
  pendingCount,   \* Proxy.pendingCount
  writing,        \* connections with bytes the backend has not taken yet
  swept,          \* connections Stop closed
  late            \* connections accepted but not registered when Stop swept

proxyVars == <<stop, handler, open, activeConns, pendingCount, writing, swept, late>>

ProxyInit ==
  /\ stop = "no"
  /\ handler = [c \in Conns |-> "none"]
  /\ open = {}
  /\ activeConns = {}
  /\ pendingCount = 0
  /\ writing = {}
  /\ swept = {}
  /\ late = {}

\* Registered and not yet removed by the deferred function.
Counted == {c \in Conns : handler[c] \in {"approval", "dial", "splice"}}

Goto(c, at) == handler' = [handler EXCEPT ![c] = at]

-------------------------------------------------------------------------------
(***************************************************************************)
(* acceptLoop and handleConnection.                                        *)
(***************************************************************************)

\* The loop may be blocked in Accept when stopCh is closed: only the closing of
\* the listener keeps it from taking one connection more.
Accept(c) ==
  /\ stop \in {"no", "stopCh"}
  /\ handler[c] = "none"
  /\ Goto(c, "preauth")
  /\ open' = open \cup {c}
  /\ UNCHANGED <<stop, activeConns, pendingCount, writing, swept, late>>

PreAuthorized(c) ==
  /\ handler[c] = "preauth"
  /\ Goto(c, "bounds")
  /\ UNCHANGED <<stop, open, activeConns, pendingCount, writing, swept, late>>

CheckBounds(c) ==
  /\ handler[c] = "bounds"
  /\ pendingCount < MaxPendingConns
  /\ Goto(c, "register")
  /\ UNCHANGED <<stop, open, activeConns, pendingCount, writing, swept, late>>

\* The ACL refuses, the bound is reached or there is no randomness for an ID.
Shed(c) ==
  /\ handler[c] \in {"preauth", "bounds", "register"}
  /\ handler[c] = "bounds" => pendingCount >= MaxPendingConns
  /\ Goto(c, "none")
  /\ open' = open \ {c}
  /\ UNCHANGED <<stop, activeConns, pendingCount, writing, swept, late>>

RegisterHeld(c) ==
  /\ handler[c] = "register"
  /\ activeConns' = activeConns \cup {c}
  /\ pendingCount' = pendingCount + 1
  /\ Goto(c, "approval")
  /\ UNCHANGED <<stop, open, writing, swept, late>>

RequestApproval(c) ==
  /\ handler[c] = "approval"
  /\ Goto(c, "dial")
  /\ UNCHANGED <<stop, open, activeConns, pendingCount, writing, swept, late>>

Dial(c) ==
  /\ handler[c] = "dial"
  /\ Goto(c, "splice")
  /\ UNCHANGED <<stop, open, activeConns, pendingCount, writing, swept, late>>

\* Mutant: the deferred function finds its entry gone and returns.
LeaveIfRegistered(c) ==
  /\ activeConns' = activeConns \ {c}
  /\ pendingCount' = IF c \in activeConns THEN pendingCount - 1 ELSE pendingCount
  /\ Goto(c, "none")
  /\ open' = open \ {c}
  /\ writing' = writing \ {c}
  /\ swept' = swept \ {c}
  /\ late' = late \ {c}
  /\ UNCHANGED stop

\* The deferred calls.  The ghosts forget the connection.
Leave(c) ==
  /\ activeConns' = activeConns \ {c}
  /\ pendingCount' = pendingCount - 1
  /\ Goto(c, "none")
  /\ open' = open \ {c}
  /\ writing' = writing \ {c}
  /\ swept' = swept \ {c}
  /\ late' = late \ {c}
  /\ UNCHANGED stop

\* Not approved, an error, or no backend.
GiveUp(c) == handler[c] \in {"approval", "dial"} /\ Leave(c)

\* io.Copy(backend, conn) has read from the client and is in its Write, which has
\* no deadline.
CopyReads(c) ==
  /\ handler[c] = "splice"
  /\ c \in open
  /\ writing' = writing \cup {c}
  /\ UNCHANGED <<stop, handler, open, activeConns, pendingCount, swept, late>>

BackendTakes(c) ==
  /\ c \in writing
  /\ writing' = writing \ {c}
  /\ UNCHANGED <<stop, handler, open, activeConns, pendingCount, swept, late>>

\* The backend ends the connection or sends into a closed one, or the client ends
\* it and the copy that reads from it notices.
PeerCloses(c) == handler[c] = "splice" /\ Leave(c)

\* Mutant: the copy towards the backend ends without closing it.
BackendStaysOpen(c) == FALSE

\* Reading from a closed connection ends the copy towards the backend, which
\* closes the backend, which ends the copy towards the client.  A copy that is
\* in its Write does not read, and Stop does not close the backend.
CopyEnds(c) == c \notin open /\ c \notin writing

SpliceEnds(c) == handler[c] = "splice" /\ CopyEnds(c) /\ Leave(c)

-------------------------------------------------------------------------------
(***************************************************************************)
(* Stop.                                                                   *)
(***************************************************************************)

CloseStopCh ==
  /\ stop = "no"
  /\ stop' = "stopCh"
  /\ UNCHANGED <<handler, open, activeConns, pendingCount, writing, swept, late>>

CloseListener ==
  /\ stop = "stopCh"
  /\ stop' = "listener"
  /\ UNCHANGED <<handler, open, activeConns, pendingCount, writing, swept, late>>

\* Mutant: the sweep also starts the count anew, and the handlers still leave.
SweepResetsCount ==
  /\ stop = "listener"
  /\ stop' = "done"
  /\ open' = open \ activeConns
  /\ activeConns' = {}
  /\ pendingCount' = 0
  /\ swept' = activeConns
  /\ late' = {c \in Conns : handler[c] # "none"} \ activeConns
  /\ UNCHANGED <<handler, writing>>

\* Under the lock: closes what is registered and starts an empty map.
Sweep ==
  /\ stop = "listener"
  /\ stop' = "done"
  /\ open' = open \ activeConns
  /\ activeConns' = {}
  /\ swept' = activeConns
  /\ late' = {c \in Conns : handler[c] # "none"} \ activeConns
  /\ UNCHANGED <<handler, pendingCount, writing>>

ProxyNext ==
  \/ \E c \in Conns : Accept(c) \/ PreAuthorized(c) \/ CheckBounds(c) \/ Shed(c)
  \/ \E c \in Conns : RegisterHeld(c) \/ RequestApproval(c) \/ Dial(c) \/ GiveUp(c)
  \/ \E c \in Conns : CopyReads(c) \/ BackendTakes(c) \/ PeerCloses(c) \/ SpliceEnds(c)
  \/ CloseStopCh
  \/ CloseListener
  \/ Sweep

\* The callbacks and net.Dial return, and a Read from a closed connection does.
\* The peers of an open one need never end it, nor need a backend take bytes.
ProxyFairness ==
  \A c \in Conns : WF_proxyVars(RequestApproval(c) \/ Dial(c) \/ GiveUp(c) \/ SpliceEnds(c))

-------------------------------------------------------------------------------
ProxyTypeOK ==
  /\ stop \in {"no", "stopCh", "listener", "done"}
  /\ handler \in [Conns -> {"none", "preauth", "bounds", "register", "approval", "dial", "splice"}]
  /\ open \subseteq Conns /\ activeConns \subseteq Conns
  /\ writing \subseteq Conns /\ swept \subseteq Conns /\ late \subseteq Conns
  /\ pendingCount \in 0..Cardinality(Conns)

\* pendingCount, which CheckBounds compares with the bound, is the number of
\* handlers between registration and removal, also while the handlers of the
\* connections that Stop took out of the map are on their way out.  Once Stop
\* has returned, a connection is still open only if its handler had accepted and
\* not yet registered it when Stop went through the map (proxy.go:108-124, 185-195).
PendingIsHeld ==
  /\ pendingCount = Cardinality(Counted)
  /\ stop # "done" => activeConns = Counted
  /\ stop = "done" => open \subseteq late

\* A connection that Stop closed is given up, whether it was waiting for its
\* approval, dialling or being spliced, with one exception: a backend that for
\* ever leaves bytes of the client untaken keeps its handler, since Stop closes
\* the client's side alone and nothing sets a deadline (proxy.go:117, 198-220).
OnlyBackendHoldsSwept ==
  \A c \in Conns : c \in swept ~> (handler[c] = "none" \/ [](c \in writing))

===============================================================================
