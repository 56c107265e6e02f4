--------------------------------- MODULE Hub --------------------------------
(***************************************************************************)
(* The WebSocket hub: one loop that registers, unregisters and broadcasts;  *)
(* per connection an HTTP handler and two pumps; and a goroutine for every  *)
(* client whose buffer was full.  h.mu is held for reading during a         *)
(* broadcast and for writing while the map of clients changes.              *)
(***************************************************************************)
EXTENDS Integers, Sequences, FiniteSets

CONSTANTS
  Clients,          \* connections
  QueueSize,        \* capacity of h.broadcast (256 in the code)
  SendSize,         \* capacity of a client's send channel (256 in the code)
  MaxMessages       \* bound: messages that h.broadcast accepts

ASSUME SizesAssumption ==
  QueueSize \in Nat \ {0} /\ SendSize \in Nat \ {0} /\ MaxMessages \in Nat

VARIABLES
  hub,              \* "running", "closing", and "done" once h.done is closed
  cancelled,        \* the context of run
  accepted, taken,  \* messages 1..accepted entered h.broadcast, 1..taken left it
  clients,          \* h.clients
  left,             \* clients that the broadcast in progress has yet to serve
  busy,             \* clients that the loop has deleted and must close
  doomed, dropped,  \* clients with a "go removeClient"; those it has deleted
  since,            \* ghost: messages taken when the client joined
  send, closed,     \* client.send, and whether it is closed
  conn, got,        \* whether the socket is open; what writePump has put on it
  handler, reader, writer

loopVars == <<hub, cancelled, accepted, taken, left, busy>>
tableVars == <<clients, doomed, dropped>>
chanVars == <<send, closed>>
peerVars == <<conn, got>>
goVars == <<handler, reader, writer>>
vars == <<loopVars, tableVars, since, chanVars, peerVars, goVars>>

TypeOK ==
  /\ hub \in {"running", "closing", "done"} /\ cancelled \in BOOLEAN
  /\ accepted \in 0..MaxMessages /\ taken \in 0..accepted
  /\ accepted - taken <= QueueSize
  /\ left \subseteq Clients /\ busy \subseteq Clients
  /\ clients \subseteq Clients
  /\ doomed \subseteq Clients /\ dropped \subseteq Clients
  /\ since \in [Clients -> 0..MaxMessages]
  /\ send \in [Clients -> Seq(1..MaxMessages)]
  /\ got \in [Clients -> Seq(1..MaxMessages)]
  /\ \A c \in Clients : Len(send[c]) <= SendSize
  /\ closed \in [Clients -> BOOLEAN] /\ conn \in [Clients -> BOOLEAN]
  /\ handler \in [Clients -> {"none", "joining", "returned"}]
  /\ reader \in [Clients -> {"none", "reading", "leaving", "ended"}]
  /\ writer \in [Clients -> {"none", "writing", "ended"}]

Init ==
  /\ hub = "running" /\ cancelled = FALSE /\ accepted = 0 /\ taken = 0
  /\ clients = {} /\ left = {} /\ busy = {} /\ doomed = {} /\ dropped = {}
  /\ since = [c \in Clients |-> 0]
  /\ send = [c \in Clients |-> <<>>] /\ closed = [c \in Clients |-> FALSE]
  /\ conn = [c \in Clients |-> FALSE] /\ got = [c \in Clients |-> <<>>]
  /\ handler = [c \in Clients |-> "none"]
  /\ reader = [c \in Clients |-> "none"] /\ writer = [c \in Clients |-> "none"]

-----------------------------------------------------------------------------
(* Emitters and the program.                                                *)

\* When the queue is full the message is lost, which changes nothing here.
QueueOffByOne ==
  /\ accepted < MaxMessages /\ accepted - taken <= QueueSize
  /\ accepted' = accepted + 1
  /\ UNCHANGED <<hub, cancelled, taken, left, busy, tableVars, since, chanVars,
                 peerVars, goVars>>
broadcastMessage ==
  /\ accepted < MaxMessages /\ accepted - taken < QueueSize
  /\ accepted' = accepted + 1
  /\ UNCHANGED <<hub, cancelled, taken, left, busy, tableVars, since, chanVars,
                 peerVars, goVars>>

Cancel ==
  /\ ~cancelled /\ cancelled' = TRUE
  /\ UNCHANGED <<hub, accepted, taken, left, busy, tableVars, since, chanVars,
                 peerVars, goVars>>

-----------------------------------------------------------------------------
(* The loop.                                                                *)

AtSelect == hub = "running" /\ left = {} /\ busy = {}

\* The handler offers the client on h.register and starts its pumps.
Register(c) ==
  /\ AtSelect /\ handler[c] = "joining"
  /\ clients' = clients \cup {c} /\ since' = [since EXCEPT ![c] = taken]
  /\ handler' = [handler EXCEPT ![c] = "returned"]
  /\ reader' = [reader EXCEPT ![c] = "reading"]
  /\ writer' = [writer EXCEPT ![c] = "writing"]
  /\ UNCHANGED <<loopVars, doomed, dropped, chanVars, peerVars>>

\* readPump offers the client on h.unregister, then closes the socket; the loop
\* deletes the client if it is still there, and closes it after the unlock.
Unregister(c) ==
  /\ AtSelect /\ reader[c] = "leaving"
  /\ reader' = [reader EXCEPT ![c] = "ended"] /\ conn' = [conn EXCEPT ![c] = FALSE]
  /\ clients' = clients \ {c} /\ busy' = clients \cap {c}
  /\ UNCHANGED <<hub, cancelled, accepted, taken, left, doomed, dropped, since,
                 chanVars, got, handler, writer>>

\* h.mu is taken for reading, and kept until everybody is served.
BeginBroadcast ==
  /\ AtSelect /\ taken < accepted
  /\ taken' = taken + 1 /\ left' = clients
  /\ UNCHANGED <<hub, cancelled, accepted, busy, tableVars, since, chanVars,
                 peerVars, goVars>>

SendSkips(c) ==
  /\ c \in left /\ left' = left \ {c}
  /\ send' = [send EXCEPT ![c] = IF Len(@) < SendSize THEN Append(@, taken) ELSE @]
  /\ UNCHANGED <<hub, cancelled, accepted, taken, busy, tableVars, since, closed,
                 peerVars, goVars>>
Send(c) ==
  /\ c \in left /\ left' = left \ {c}
  /\ IF Len(send[c]) < SendSize
     THEN send' = [send EXCEPT ![c] = Append(@, taken)] /\ doomed' = doomed
     ELSE doomed' = doomed \cup {c} /\ send' = send
  /\ UNCHANGED <<hub, cancelled, accepted, taken, busy, clients, dropped, since,
                 closed, peerVars, goVars>>

closeAll ==
  /\ AtSelect /\ cancelled
  /\ hub' = "closing" /\ busy' = clients /\ clients' = {}
  /\ UNCHANGED <<cancelled, accepted, taken, left, doomed, dropped, since,
                 chanVars, peerVars, goVars>>

\* client.close.
Closes(c) ==
  /\ closed' = [closed EXCEPT ![c] = TRUE] /\ conn' = [conn EXCEPT ![c] = FALSE]
  /\ UNCHANGED <<hub, cancelled, accepted, taken, left, clients, since, send, got,
                 goVars>>

LoopCloses(c) ==
  c \in busy /\ busy' = busy \ {c} /\ Closes(c) /\ UNCHANGED <<doomed, dropped>>

\* The deferred calls: running is false, then h.done is closed.
Return ==
  /\ hub = "closing" /\ busy = {} /\ hub' = "done"
  /\ UNCHANGED <<cancelled, accepted, taken, left, busy, tableVars, since,
                 chanVars, peerVars, goVars>>

-----------------------------------------------------------------------------
(* removeClient in a goroutine of its own.                                  *)

RemovesUnderReaders(c) ==
  /\ c \in doomed /\ doomed' = doomed \ {c}
  /\ clients' = clients \ {c} /\ dropped' = dropped \cup (clients \cap {c})
  /\ UNCHANGED <<loopVars, since, chanVars, peerVars, goVars>>
removeClient(c) ==
  /\ c \in doomed /\ left = {} /\ doomed' = doomed \ {c}
  /\ clients' = clients \ {c} /\ dropped' = dropped \cup (clients \cap {c})
  /\ UNCHANGED <<loopVars, since, chanVars, peerVars, goVars>>

RemoverCloses(c) ==
  c \in dropped /\ dropped' = dropped \ {c} /\ Closes(c) /\ UNCHANGED <<busy, doomed>>

-----------------------------------------------------------------------------
(* The handler and the pumps of a connection.                               *)

\* isRunning, then the upgrade.
Connect(c) ==
  /\ handler[c] = "none" /\ hub # "done"
  /\ handler' = [handler EXCEPT ![c] = "joining"]
  /\ conn' = [conn EXCEPT ![c] = TRUE]
  /\ UNCHANGED <<loopVars, tableVars, since, chanVars, got, reader, writer>>

TurnedAway(c) ==
  /\ handler[c] = "joining" /\ hub = "done"
  /\ handler' = [handler EXCEPT ![c] = "returned"]
  /\ conn' = [conn EXCEPT ![c] = FALSE]
  /\ UNCHANGED <<loopVars, tableVars, since, chanVars, got, reader, writer>>

\* The peer goes away.
PeerLeaves(c) ==
  /\ reader[c] = "reading" /\ conn[c]
  /\ reader' = [reader EXCEPT ![c] = "leaving"]
  /\ UNCHANGED <<loopVars, tableVars, since, chanVars, peerVars, handler, writer>>

ReadFails(c) ==
  /\ reader[c] = "reading" /\ ~conn[c]
  /\ reader' = [reader EXCEPT ![c] = "leaving"]
  /\ UNCHANGED <<loopVars, tableVars, since, chanVars, peerVars, handler, writer>>

ReadPumpNeedsTheLoop(c) ==
  /\ reader[c] = "leaving" /\ AtSelect
  /\ reader' = [reader EXCEPT ![c] = "ended"] /\ conn' = [conn EXCEPT ![c] = FALSE]
  /\ UNCHANGED <<loopVars, tableVars, since, chanVars, got, handler, writer>>
readPumpLeaves(c) ==
  /\ reader[c] = "leaving" /\ hub = "done"
  /\ reader' = [reader EXCEPT ![c] = "ended"] /\ conn' = [conn EXCEPT ![c] = FALSE]
  /\ UNCHANGED <<loopVars, tableVars, since, chanVars, got, handler, writer>>

WriterSends(c) ==
  /\ writer[c] = "writing" /\ send[c] # <<>> /\ conn[c]
  /\ got' = [got EXCEPT ![c] = Append(@, Head(send[c]))]
  /\ send' = [send EXCEPT ![c] = Tail(@)]
  /\ UNCHANGED <<loopVars, tableVars, since, closed, conn, goVars>>

\* The socket is closed, or the peer is gone or does not read within 5 s.
WriterFails(c) ==
  /\ writer[c] = "writing" /\ send[c] # <<>>
  /\ send' = [send EXCEPT ![c] = Tail(@)] /\ got' = [got EXCEPT ![c] = <<>>]
  /\ writer' = [writer EXCEPT ![c] = "ended"] /\ conn' = [conn EXCEPT ![c] = FALSE]
  /\ UNCHANGED <<loopVars, tableVars, since, closed, handler, reader>>

WriterEnds(c) ==
  /\ writer[c] = "writing" /\ send[c] = <<>> /\ closed[c]
  /\ got' = [got EXCEPT ![c] = <<>>]
  /\ writer' = [writer EXCEPT ![c] = "ended"] /\ conn' = [conn EXCEPT ![c] = FALSE]
  /\ UNCHANGED <<loopVars, tableVars, since, chanVars, handler, reader>>

-----------------------------------------------------------------------------

Loop ==
  \/ BeginBroadcast \/ closeAll \/ Return
  \/ \E c \in Clients : Register(c) \/ Unregister(c) \/ Send(c) \/ LoopCloses(c)
Remover(c) == removeClient(c) \/ RemoverCloses(c)
Reader(c) == ReadFails(c) \/ readPumpLeaves(c)
Writer(c) == WriterSends(c) \/ WriterFails(c) \/ WriterEnds(c)

Next ==
  \/ broadcastMessage \/ Cancel \/ Loop
  \/ \E c \in Clients :
       \/ Connect(c) \/ TurnedAway(c) \/ PeerLeaves(c)
       \/ Remover(c) \/ Reader(c) \/ Writer(c)

Spec == Init /\ [][Next]_vars

\* Goroutines run, and h.mu is got by who waits for it.  With MaxMessages and a
\* finite set of Clients the loop cannot be kept from a channel that is ready, so
\* no fairness of its select is assumed.
Fairness ==
  /\ WF_vars(Loop)
  /\ \A c \in Clients :
       WF_vars(TurnedAway(c)) /\ WF_vars(Remover(c)) /\ WF_vars(Reader(c))
         /\ WF_vars(Writer(c))

FairSpec == Spec /\ Fairness

-----------------------------------------------------------------------------
(* Properties.                                                              *)

\* A send on a closed channel panics and takes the program down.  No client that
\* the broadcast has yet to serve has been closed, although goroutines delete and
\* close clients all the time: the map is deleted from under h.mu, which the
\* broadcast holds, and the channel is closed after that (websocket.go:98-106,
\* 205-214).
NoSendOnClosed == \A c \in left : ~closed[c]

\* The messages that c has been, or should have been, sent: from the first one after
\* it joined on.
Due(c) == taken - since[c] - (IF c \in left THEN 1 ELSE 0)
Run(s, n) == [k \in 1..n |-> s + k]

\* A client either gets every message since it joined, in order, or is about to
\* be thrown out: who has missed one stays in the hub only until its removeClient
\* runs.  (Until then it may get later ones, behind the gap.)
GapIsDoomed ==
  \A c \in clients \ doomed :
    writer[c] = "writing" => got[c] \o send[c] = Run(since[c], Due(c))

\* Nobody is left behind: when its socket is closed or the hub is cancelled, the
\* handler of a connection returns and both pumps end, whatever the hub is doing
\* and whoever removes the client first (websocket.go:141-146, 223-231, 246).
Gone(c) ==
  handler[c] = "returned" /\ reader[c] \in {"none", "ended"}
    /\ writer[c] \in {"none", "ended"} /\ ~conn[c]
Ending(c) ==
  \/ handler[c] = "returned" /\ ~conn[c]
  \/ handler[c] # "none" /\ cancelled
PumpsEnd == \A c \in Clients : Ending(c) ~> Gone(c)
=============================================================================
