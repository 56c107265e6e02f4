----------------------------- MODULE HubProofs ------------------------------
(***************************************************************************)
(* Proofs about Hub, for any number of connections and messages and any     *)
(* sizes of the queues.                                                     *)
(***************************************************************************)
EXTENDS Hub, SequenceTheorems, TLAPS

Messages == 1..MaxMessages

\* Who is in the map is open; whoever closes a client has taken it out before;
\* and a client whose handler has not returned is unknown to the hub.
MapInv ==
  /\ left \subseteq clients
  /\ clients \cap (busy \cup dropped) = {}
  /\ \A c \in clients : ~closed[c]
  /\ \A c \in Clients : handler[c] # "returned" =>
       /\ c \notin clients \cup busy \cup dropped /\ ~closed[c]
       /\ send[c] = <<>> /\ got[c] = <<>>

\* The message that a client is waiting for in a broadcast was taken after it
\* joined.
DueInv ==
  /\ left # {} => taken > 0
  /\ \A c \in clients : since[c] + (IF c \in left THEN 1 ELSE 0) <= taken

HubInv == TypeOK /\ MapInv /\ DueInv

-----------------------------------------------------------------------------
(* Sequences.                                                               *)

\* The next number continues a run of numbers.
LEMMA AppendContinues ==
  ASSUME NEW s \in Nat, NEW n \in Nat
  PROVE  Append(Run(s, n), s + n + 1) = Run(s, n + 1)
<1> DEFINE run == [k \in 1..n |-> s + k]
           longer == [k \in 1..(n + 1) |-> s + k]
<1>1. run \in Seq(Nat) /\ Len(run) = n
  OBVIOUS
<1>2. longer \in Seq(Nat) /\ Len(longer) = n + 1
  OBVIOUS
<1>3. Append(run, s + n + 1) \in Seq(Nat) /\ Len(Append(run, s + n + 1)) = n + 1
  BY <1>1, AppendProperties
<1>4. \A i \in 1..(n + 1) : Append(run, s + n + 1)[i] = longer[i]
  BY <1>1, AppendProperties
<1> QED BY <1>2, <1>3, <1>4, SeqEqual DEF Run

\* A message that moves from the channel to the socket leaves the stream as it is.
LEMMA MoveKeepsStream ==
  ASSUME NEW S, NEW q \in Seq(S), NEW r \in Seq(S), r # <<>>
  PROVE  Append(q, Head(r)) \o Tail(r) = q \o r
<1>1. Head(r) \in S /\ Tail(r) \in Seq(S)
  BY HeadTailProperties
<1>2. Append(q, Head(r)) = q \o <<Head(r)>>
  BY <1>1, AppendIsConcat
<1>3. <<Head(r)>> \in Seq(S)
  BY <1>1
<1>4. (q \o <<Head(r)>>) \o Tail(r) = q \o (<<Head(r)>> \o Tail(r))
  BY <1>1, <1>3, ConcatAssociative
<1>5. <<Head(r)>> \o Tail(r) = r
  <2> DEFINE t == <<Head(r)>> \o Tail(r)
  <2>1. t \in Seq(S) /\ Len(t) = Len(r)
    BY <1>1, <1>3, ConcatProperties, HeadTailProperties
  <2>2. \A i \in 1..Len(r) : t[i] = r[i]
    BY <1>1, <1>3, ConcatProperties, HeadTailProperties
  <2> QED BY <2>1, <2>2, SeqEqual
<1> QED BY <1>2, <1>4, <1>5

\* A message that enters the channel enters the stream at its end.
LEMMA AppendExtendsStream ==
  ASSUME NEW S, NEW q \in Seq(S), NEW r \in Seq(S), NEW x \in S
  PROVE  q \o Append(r, x) = Append(q \o r, x)
<1>1. <<x>> \in Seq(S) /\ q \o r \in Seq(S)
  BY ConcatProperties
<1>2. Append(r, x) = r \o <<x>> /\ Append(q \o r, x) = (q \o r) \o <<x>>
  BY <1>1, AppendIsConcat
<1> QED BY <1>1, <1>2, ConcatAssociative

-----------------------------------------------------------------------------
(* The invariant.                                                           *)

\* At the start there is no client and no message.
LEMMA InitEstablishes == Init => HubInv /\ GapIsDoomed
<1> SUFFICES ASSUME Init PROVE HubInv /\ GapIsDoomed
  OBVIOUS
<1>1. \A c \in Clients : Len(send[c]) = 0 /\ send[c] \in Seq(1..MaxMessages)
  BY DEF Init
<1>2. /\ send \in [Clients -> Seq(1..MaxMessages)]
      /\ got \in [Clients -> Seq(1..MaxMessages)]
  BY DEF Init
<1>3. TypeOK
  <2>1. \A c \in Clients : Len(send[c]) <= SendSize
    BY <1>1, SizesAssumption
  <2>2. /\ accepted \in 0..MaxMessages /\ taken \in 0..accepted
        /\ accepted - taken <= QueueSize
    BY SizesAssumption DEF Init
  <2>3. since \in [Clients -> 0..MaxMessages]
    BY SizesAssumption DEF Init
  <2> QED BY <1>2, <2>1, <2>2, <2>3 DEF Init, TypeOK
<1>4. MapInv /\ DueInv /\ GapIsDoomed
  BY DEF Init, MapInv, DueInv, GapIsDoomed, Run
<1> QED BY <1>3, <1>4 DEF HubInv

\* Emitters and the program's cancel do not touch the clients.
LEMMA OutsideKeeps ==
  ASSUME HubInv, broadcastMessage \/ Cancel
  PROVE  HubInv'
<1> USE SizesAssumption
    DEF HubInv, TypeOK, MapInv, DueInv, tableVars, chanVars, peerVars, goVars
<1>1. CASE broadcastMessage
  BY <1>1 DEF broadcastMessage
<1>2. CASE Cancel
  BY <1>2 DEF Cancel
<1> QED BY <1>1, <1>2

\* The loop takes clients out of the map before it closes them.
LEMMA LoopKeeps ==
  ASSUME HubInv, Loop
  PROVE  HubInv'
<1> USE SizesAssumption
    DEF HubInv, TypeOK, MapInv, DueInv, AtSelect, loopVars, tableVars, chanVars,
        peerVars, goVars
<1>1. CASE BeginBroadcast
  BY <1>1 DEF BeginBroadcast
<1>2. CASE closeAll
  BY <1>2 DEF closeAll
<1>3. CASE Return
  BY <1>3 DEF Return
<1>4. ASSUME NEW c \in Clients, Register(c) PROVE HubInv'
  BY <1>4 DEF Register
<1>5. ASSUME NEW c \in Clients, Unregister(c) PROVE HubInv'
  BY <1>5 DEF Unregister
<1>6. ASSUME NEW c \in Clients, Send(c) PROVE HubInv'
  <2>1. taken \in Messages /\ c \in clients
    BY <1>6 DEF Send, Messages
  <2>2. Append(send[c], taken) \in Seq(Messages)
        /\ Len(Append(send[c], taken)) = Len(send[c]) + 1
    BY <2>1, AppendProperties DEF Messages
  <2>3. Len(send[c]) \in Nat
    BY LenProperties DEF Messages
  <2>4. TypeOK'
    <3>1. CASE Len(send[c]) < SendSize
      <4>1. send' = [send EXCEPT ![c] = Append(send[c], taken)] /\ doomed' = doomed
        BY <1>6, <3>1 DEF Send
      <4>2. send' \in [Clients -> Seq(1..MaxMessages)]
        BY <4>1, <2>2 DEF Messages
      <4>3. \A d \in Clients : Len(send'[d]) <= SendSize
        BY <4>1, <2>2, <2>3, <3>1
      <4> QED BY <1>6, <4>1, <4>2, <4>3 DEF Send
    <3>2. CASE ~(Len(send[c]) < SendSize)
      <4>1. send' = send /\ doomed' = doomed \cup {c}
        BY <1>6, <3>2 DEF Send
      <4> QED BY <1>6, <4>1 DEF Send
    <3> QED BY <3>1, <3>2
  <2>5. MapInv'
    BY <1>6, <2>1 DEF Send
  <2>6. DueInv'
    BY <1>6, <2>1 DEF Send
  <2> QED BY <2>4, <2>5, <2>6
<1>7. ASSUME NEW c \in Clients, LoopCloses(c) PROVE HubInv'
  BY <1>7 DEF LoopCloses, Closes
<1> QED BY <1>1, <1>2, <1>3, <1>4, <1>5, <1>6, <1>7 DEF Loop

\* A removal waits for the broadcast and closes after the unlock.
LEMMA RemoverKeeps ==
  ASSUME HubInv, NEW c \in Clients, Remover(c)
  PROVE  HubInv'
<1> USE SizesAssumption
    DEF HubInv, TypeOK, MapInv, DueInv, loopVars, tableVars, chanVars, peerVars,
        goVars
<1>1. CASE removeClient(c)
  BY <1>1 DEF removeClient
<1>2. CASE RemoverCloses(c)
  BY <1>2 DEF RemoverCloses, Closes
<1> QED BY <1>1, <1>2 DEF Remover

\* Handlers and pumps leave the map alone.
LEMMA ConnectionKeeps ==
  ASSUME HubInv, NEW c \in Clients,
         Connect(c) \/ TurnedAway(c) \/ PeerLeaves(c) \/ Reader(c) \/ Writer(c)
  PROVE  HubInv'
<1> USE SizesAssumption
    DEF HubInv, TypeOK, MapInv, DueInv, loopVars, tableVars, chanVars, peerVars,
        goVars
<1>1. CASE Connect(c)
  BY <1>1 DEF Connect
<1>2. CASE TurnedAway(c)
  BY <1>2 DEF TurnedAway
<1>3. CASE PeerLeaves(c)
  BY <1>3 DEF PeerLeaves
<1>4. CASE Reader(c)
  <2>1. CASE ReadFails(c)
    BY <2>1 DEF ReadFails
  <2>2. CASE readPumpLeaves(c)
    BY <2>2 DEF readPumpLeaves
  <2> QED BY <1>4, <2>1, <2>2 DEF Reader
<1>5. CASE Writer(c)
  <2>1. CASE WriterEnds(c)
    BY <2>1 DEF WriterEnds
  <2>2. ASSUME send[c] # <<>>
        PROVE  /\ Head(send[c]) \in Messages /\ Tail(send[c]) \in Seq(Messages)
               /\ Len(Tail(send[c])) <= SendSize
               /\ Append(got[c], Head(send[c])) \in Seq(Messages)
    <3>1. Head(send[c]) \in Messages /\ Tail(send[c]) \in Seq(Messages)
          /\ Len(Tail(send[c])) = Len(send[c]) - 1 /\ Len(send[c]) \in Nat
      BY <2>2, HeadTailProperties, LenProperties DEF Messages
    <3> QED BY <3>1, AppendProperties DEF Messages
  <2>3. CASE WriterSends(c)
    BY <2>3, <2>2 DEF WriterSends, Messages
  <2>4. CASE WriterFails(c)
    BY <2>4, <2>2 DEF WriterFails, Messages
  <2> QED BY <1>5, <2>1, <2>3, <2>4 DEF Writer
<1> QED BY <1>1, <1>2, <1>3, <1>4, <1>5

-----------------------------------------------------------------------------
(* The stream of a client.                                                  *)

\* What neither moves a message nor lets a client in cannot open a gap.
LEMMA QuietKeepsStreams ==
  ASSUME GapIsDoomed, UNCHANGED <<taken, left, since, send, got, writer>>,
         clients' \ doomed' \subseteq clients \ doomed
  PROVE  GapIsDoomed'
  BY DEF GapIsDoomed, Due

\* A message taken for broadcast is due to everybody and not yet sent to anybody.
LEMMA BeginKeepsStreams ==
  ASSUME HubInv, GapIsDoomed, BeginBroadcast
  PROVE  GapIsDoomed'
<1>0. UNCHANGED <<clients, doomed, since, send, got, writer>>
  BY DEF BeginBroadcast, tableVars, chanVars, peerVars, goVars
<1> SUFFICES ASSUME NEW c \in clients \ doomed, writer[c] = "writing"
             PROVE  got[c] \o send[c] = Run(since[c], Due(c)')
  BY <1>0 DEF GapIsDoomed, Due
<1>1. c \notin left /\ c \in left' /\ taken' = taken + 1 /\ since' = since
  BY DEF BeginBroadcast, AtSelect
<1>2. taken \in Int /\ since[c] \in Int
  BY DEF HubInv, TypeOK
<1>3. Due(c)' = Due(c)
  BY <1>1, <1>2 DEF Due
<1> QED BY <1>3 DEF GapIsDoomed, Due

\* A client joins with nothing due and nothing sent.
LEMMA RegisterKeepsStreams ==
  ASSUME HubInv, GapIsDoomed, NEW j \in Clients, Register(j)
  PROVE  GapIsDoomed'
<1> USE DEF loopVars, chanVars, peerVars
<1> SUFFICES ASSUME NEW c \in clients' \ doomed', writer'[c] = "writing"
             PROVE  got[c] \o send[c] = Run(since'[c], Due(c)')
  BY DEF Register, GapIsDoomed, Due
<1>1. CASE c = j
  <2>1. got[c] = <<>> /\ send[c] = <<>>
    BY <1>1 DEF Register, HubInv, MapInv
  <2>2. since'[c] = taken /\ taken' = taken /\ c \notin left' /\ taken \in Int
    BY <1>1 DEF Register, AtSelect, HubInv, TypeOK
  <2>3. Due(c)' = 0
    <3>1. Due(c)' = taken - taken - 0
      BY <2>2 DEF Due
    <3> QED BY <3>1, <2>2
  <2> QED BY <2>1, <2>3 DEF Run
<1>2. CASE c # j
  <2>1. c \in clients \ doomed /\ c \in Clients /\ writer[c] = "writing"
    BY <1>2 DEF Register, HubInv, TypeOK
  <2>2. since'[c] = since[c] /\ Due(c)' = Due(c)
    BY <1>2, <2>1 DEF Register, Due, HubInv, TypeOK
  <2> QED BY <2>1, <2>2 DEF GapIsDoomed, Due
<1> QED BY <1>1, <1>2

\* A client either gets the message that is due next or is doomed.
LEMMA SendKeepsStreams ==
  ASSUME HubInv, GapIsDoomed, NEW j \in Clients, Send(j)
  PROVE  GapIsDoomed'
<1>0. UNCHANGED <<clients, taken, since, got, writer>>
  BY DEF Send, peerVars, goVars
<1> SUFFICES ASSUME NEW c \in clients \ doomed', writer[c] = "writing"
             PROVE  got[c] \o send'[c] = Run(since[c], Due(c)')
  BY <1>0 DEF GapIsDoomed, Due
<1>1. /\ c \in Clients /\ c \in clients \ doomed
      /\ taken \in Nat /\ since[c] \in Nat /\ taken' = taken /\ since' = since
      /\ left' = left \ {j}
  BY DEF Send, HubInv, TypeOK
<1>2. got[c] \o send[c] = Run(since[c], Due(c))
  BY <1>1 DEF GapIsDoomed, Due
<1>3. CASE c = j
  <2>1. send'[c] = Append(send[c], taken)
    BY <1>3 DEF Send, HubInv, TypeOK
  <2>2. /\ got[c] \in Seq(Messages) /\ send[c] \in Seq(Messages)
        /\ taken \in Messages
    <3>1. left # {}
      BY DEF Send
    <3>2. taken \in 1..MaxMessages
      BY <3>1, SizesAssumption DEF HubInv, TypeOK, DueInv
    <3>3. got[c] \in Seq(1..MaxMessages) /\ send[c] \in Seq(1..MaxMessages)
      BY <1>1 DEF HubInv, TypeOK
    <3> QED BY <3>2, <3>3 DEF Messages
  <2>3. got[c] \o send'[c] = Append(got[c] \o send[c], taken)
    <3>1. \A q, r \in Seq(Messages), x \in Messages :
            q \o Append(r, x) = Append(q \o r, x)
      BY AppendExtendsStream
    <3> QED BY <2>1, <2>2, <3>1
  <2>4. c \in left /\ c \notin left' /\ since[c] + 1 <= taken
    BY <1>1, <1>3 DEF Send, HubInv, DueInv
  <2>5. Due(c) \in Nat /\ taken = since[c] + Due(c) + 1 /\ Due(c)' = Due(c) + 1
    BY <1>1, <2>4 DEF Due
  <2> QED BY <1>1, <1>2, <2>3, <2>5, AppendContinues
<1>4. CASE c # j
  BY <1>1, <1>2, <1>4 DEF Send, Due, HubInv, TypeOK
<1> QED BY <1>3, <1>4

\* writePump moves messages in order, and forgets them only with itself.
LEMMA WriterKeepsStreams ==
  ASSUME HubInv, GapIsDoomed, NEW j \in Clients, Writer(j)
  PROVE  GapIsDoomed'
<1> USE DEF loopVars, tableVars, goVars, chanVars
<1>1. CASE WriterSends(j)
  <2> SUFFICES ASSUME NEW c \in clients \ doomed, writer[c] = "writing"
               PROVE  got'[c] \o send'[c] = Run(since[c], Due(c))
    BY <1>1 DEF WriterSends, GapIsDoomed, Due
  <2>1. c \in Clients /\ got[c] \o send[c] = Run(since[c], Due(c))
    BY DEF GapIsDoomed, Due, HubInv, TypeOK
  <2>2. CASE c = j
    <3>1. /\ got'[c] = Append(got[c], Head(send[c])) /\ send'[c] = Tail(send[c])
          /\ send[c] # <<>>
      BY <1>1, <2>2 DEF WriterSends, HubInv, TypeOK
    <3>2. got[c] \in Seq(Messages) /\ send[c] \in Seq(Messages)
      BY <2>1 DEF Messages, HubInv, TypeOK
    <3>3. got'[c] \o send'[c] = got[c] \o send[c]
      BY <3>1, <3>2, MoveKeepsStream
    <3> QED BY <2>1, <3>3
  <2>3. CASE c # j
    BY <1>1, <2>1, <2>3 DEF WriterSends, HubInv, TypeOK
  <2> QED BY <2>2, <2>3
<1>2. CASE WriterFails(j) \/ WriterEnds(j)
  <2> SUFFICES ASSUME NEW c \in clients \ doomed, writer'[c] = "writing"
               PROVE  got'[c] \o send'[c] = Run(since[c], Due(c))
    BY <1>2 DEF WriterFails, WriterEnds, GapIsDoomed, Due
  <2>1. c \in Clients /\ c # j /\ writer[c] = "writing"
    BY <1>2 DEF WriterFails, WriterEnds, HubInv, TypeOK
  <2>2. got'[c] = got[c] /\ send'[c] = send[c]
    BY <1>2, <2>1 DEF WriterFails, WriterEnds, HubInv, TypeOK
  <2> QED BY <2>1, <2>2 DEF GapIsDoomed, Due
<1> QED BY <1>1, <1>2 DEF Writer

\* No step of the hub opens a gap in the stream of a client that stays.
LEMMA NextKeepsStreams ==
  ASSUME HubInv, GapIsDoomed, [Next]_vars
  PROVE  GapIsDoomed'
<1> USE DEF vars, loopVars, tableVars, chanVars, peerVars, goVars
<1>1. CASE broadcastMessage \/ Cancel \/ closeAll \/ Return \/ UNCHANGED vars
  BY <1>1, QuietKeepsStreams DEF broadcastMessage, Cancel, closeAll, Return
<1>2. ASSUME NEW c \in Clients, Unregister(c) \/ LoopCloses(c) PROVE GapIsDoomed'
  BY <1>2, QuietKeepsStreams DEF Unregister, LoopCloses, Closes
<1>3. ASSUME NEW c \in Clients, Remover(c) PROVE GapIsDoomed'
  BY <1>3, QuietKeepsStreams DEF Remover, removeClient, RemoverCloses, Closes
<1>4. ASSUME NEW c \in Clients,
             Connect(c) \/ TurnedAway(c) \/ PeerLeaves(c) \/ Reader(c)
      PROVE  GapIsDoomed'
  BY <1>4, QuietKeepsStreams
  DEF Connect, TurnedAway, PeerLeaves, Reader, ReadFails, readPumpLeaves
<1> QED
  BY <1>1, <1>2, <1>3, <1>4, BeginKeepsStreams, RegisterKeepsStreams,
     SendKeepsStreams, WriterKeepsStreams DEF Next, Loop

\* Every step of the hub keeps the invariant.
LEMMA NextKeeps == HubInv /\ [Next]_vars => HubInv'
<1> SUFFICES ASSUME HubInv, [Next]_vars PROVE HubInv'
  OBVIOUS
<1>1. CASE Next
  BY <1>1, OutsideKeeps, LoopKeeps, RemoverKeeps, ConnectionKeeps DEF Next
<1>2. CASE UNCHANGED vars
  BY <1>2 DEF vars, loopVars, tableVars, chanVars, peerVars, goVars, HubInv,
              TypeOK, MapInv, DueInv
<1> QED BY <1>1, <1>2

\* The inductive invariant holds in every reachable state (websocket.go:64-266).
THEOREM HubInvariant == Spec => []HubInv
  BY InitEstablishes, NextKeeps, PTL DEF Spec

\* The model keeps its types, and no channel holds more than its capacity.
THEOREM HubTypeCorrect == Spec => []TypeOK
<1>1. HubInv => TypeOK
  BY DEF HubInv
<1> QED BY <1>1, HubInvariant, PTL

\* The broadcast never sends on a closed channel, however many clients are slow,
\* leave, or are thrown out at the same time (websocket.go:98-106, 205-214).
THEOREM NoSendOnClosedCorrect == Spec => []NoSendOnClosed
<1>1. HubInv => NoSendOnClosed
  BY DEF HubInv, MapInv, NoSendOnClosed
<1> QED BY <1>1, HubInvariant, PTL

\* A client that stays in the hub gets every message since it joined, in order
\* (websocket.go:97-106, 205-214, 246-253).
THEOREM GapIsDoomedCorrect == Spec => []GapIsDoomed
<1>1. HubInv /\ GapIsDoomed /\ [Next]_vars => (HubInv /\ GapIsDoomed)'
  BY NextKeeps, NextKeepsStreams
<1> QED BY <1>1, InitEstablishes, PTL DEF Spec
=============================================================================
