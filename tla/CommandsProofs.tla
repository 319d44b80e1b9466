--------------------------- MODULE CommandsProofs ----------------------------
(***************************************************************************)
(* Proofs about module Commands, for every SeqSpace and every bound.       *)
(***************************************************************************)
EXTENDS Commands, TLAPS

\* The commands of a call are some, and none of them is DISCONNECT_SOCK, which
\* only connectUdp adds (the callers of sendCommand).
LEMMA ScriptType ==
  ASSUME NEW c \in Calls
  PROVE  Script(c) \in Seq(Opcodes) /\ Script(c) # << >>
<1>1. GetAssemblyParams \in Seq(Opcodes) /\ GetAssemblyParams # << >>
  BY DEF GetAssemblyParams, Opcodes
<1>2. SetExposure \in Seq(Opcodes) /\ SetExposure # << >>
  BY DEF SetExposure, Opcodes
<1>3. ReadExposure \in Seq(Opcodes) /\ ReadExposure # << >>
  BY DEF ReadExposure, Opcodes
<1>4. WriteControlRegister \in Seq(Opcodes) /\ WriteControlRegister # << >>
  BY DEF WriteControlRegister, Opcodes
<1>5. StartReadingUnicast \in Seq(Opcodes) /\ StartReadingUnicast # << >>
  BY DEF StartReadingUnicast, Opcodes
<1>6. InitBroadcastReading \in Seq(Opcodes) /\ InitBroadcastReading # << >>
  BY DEF InitBroadcastReading, Opcodes
<1>7. <<"READ_TIMER">> \in Seq(Opcodes) /\ <<"READ_TIMER">> # << >>
  BY DEF Opcodes
<1>8. <<"STOP">> \in Seq(Opcodes) /\ <<"STOP">> # << >>
  BY DEF Opcodes
<1>9. Script(c) \in {GetAssemblyParams, SetExposure, ReadExposure, WriteControlRegister,
                     StartReadingUnicast, InitBroadcastReading, <<"READ_TIMER">>, <<"STOP">>}
  BY DEF Script, Calls, ThreadCalls
<1> QED
  BY <1>1, <1>2, <1>3, <1>4, <1>5, <1>6, <1>7, <1>8, <1>9

LEMMA TakeType ==
  ASSUME NEW s \in Seq(Opcodes), s # << >>
  PROVE  Head(s) \in Opcodes /\ Tail(s) \in Seq(Opcodes)
OBVIOUS

LEMMA LeftoverType ==
  ASSUME inbox \in Seq(Packet)
  PROVE  Leftover \in Seq(Packet)
<1>1. inbox \in [1 .. Len(inbox) -> Packet] /\ Len(inbox) \in Nat
  OBVIOUS
<1>2. \A k \in DOMAIN inbox : [inbox[k] EXCEPT !.own = FALSE] \in Packet
  BY <1>1 DEF Packet
<1>3. Leftover \in [1 .. Len(inbox) -> Packet]
  BY <1>1, <1>2 DEF Leftover
<1> QED
  BY <1>1, <1>3

LEMMA AnswerType ==
  ASSUME seqNum \in 0 .. SeqSpace - 1, NEW code \in {"ACK", "EXT", "ERR"}
  PROVE  Answer(code) \in Packet
BY DEF Answer, Packet

LEMMA AnsweredType ==
  ASSUME seqNum \in 0 .. SeqSpace - 1, inbox \in Seq(Packet),
         NEW m \in Nat, NEW answer \in [1 .. m -> Nat], Answered(answer)
  PROVE  inbox' \in Seq(Packet)
<1> DEFINE new == [k \in DOMAIN answer |-> Answer(Code(answer[k]))]
<1>1. \A k \in 1 .. m : Answer(Code(answer[k])) \in Packet
  BY AnswerType DEF Code
<1>2. new \in [1 .. m -> Packet]
  BY <1>1
<1>3. new \in Seq(Packet)
  BY <1>2
<1>4. inbox' = Leftover \o new
  BY DEF Answered
<1> QED
  BY <1>3, <1>4, LeftoverType

-----------------------------------------------------------------------------

\* The empty sequence has every type.
LEMMA EmptyType == << >> \in Seq(Packet) /\ << >> \in Seq(Opcodes)
OBVIOUS

\* The types of the sockets' variables.
SocketTypes ==
  /\ connected \in BOOLEAN /\ udp \in BOOLEAN /\ broadcast \in BOOLEAN
  /\ refused \in BOOLEAN
  /\ tcp \in {"closed", "up", "cut"}
  /\ inbox \in Seq(Packet)

\* The types of the variables that say where a call is.
CallTypes ==
  /\ pc \in {"idle", "dial", "send", "receive", "return", "terminated"}
  /\ call \in Calls \cup {"none"}
  /\ op \in Opcodes \cup {"DISCONNECT_SOCK", "none"}
  /\ script \in Seq(Opcodes)
  /\ got \in Seq(Packet)

\* The types of the other variables.
OtherTypes ==
  /\ seqNum \in 0 .. SeqSpace - 1
  /\ stale \in BOOLEAN
  /\ running \in BOOLEAN
  /\ reader \in {"none", "starting", "up"}
  /\ status \in {"none", "ALIVE", "DISCONNECTED"}
  /\ calls \in 0 .. MaxCalls
  /\ faults \in 0 .. MaxFaults

\* TypeOK in three parts.
LEMMA TypeParts == TypeOK <=> SocketTypes /\ CallTypes /\ OtherTypes
BY Zenon DEF TypeOK, SocketTypes, CallTypes, OtherTypes

\* disconnect leaves the sockets' variables with their types
\* (MasiEthernet::disconnect).
LEMMA DisconnectType == Disconnect => SocketTypes'
BY EmptyType, Zenon DEF Disconnect, SocketTypes

\* The end of a call leaves its variables with their types.
LEMMA BackType == CallTypes /\ Back /\ call' = call => CallTypes'
BY EmptyType, Zenon DEF CallTypes, Back

\* The variables have their types (TypeOK), in every behaviour of Spec.
THEOREM CommandsTypeCorrect == Spec => []TypeOK
<1>1. Init => TypeOK
  <2> SUFFICES ASSUME Init PROVE TypeOK
    OBVIOUS
  <2>1. SocketTypes
    BY EmptyType, Zenon DEF Init, SocketTypes
  <2>2. CallTypes
    BY EmptyType, Zenon DEF Init, CallTypes
  <2>3. stale \in BOOLEAN /\ running \in BOOLEAN
    BY Zenon DEF Init
  <2>4. OtherTypes
    BY <2>3, SeqSpaceAssumption, BoundsAssumption DEF Init, OtherTypes
  <2> QED
    BY <2>1, <2>2, <2>4, TypeParts
<1>2. TypeOK /\ [Next]_vars => TypeOK'
  <2> SUFFICES ASSUME TypeOK, SocketTypes, CallTypes, OtherTypes, [Next]_vars
               PROVE  TypeOK'
    BY TypeParts
  <2> USE SeqSpaceAssumption, BoundsAssumption
  <2>1. ASSUME NEW c \in Calls, Begin(c) PROVE TypeOK'
    <3>1. Script(c) \in Seq(Opcodes) /\ Head(Script(c)) \in Opcodes
          /\ Tail(Script(c)) \in Seq(Opcodes)
      BY ScriptType, TakeType
    <3>2. SocketTypes'
      BY <2>1, Zenon DEF Begin, SocketTypes, sockets
    <3>3. CallTypes'
      BY <2>1, <3>1, Zenon DEF Begin, Take, CallTypes
    <3>4. running' \in BOOLEAN
      BY <2>1, Zenon DEF Begin, OtherTypes
    <3>5. calls' \in 0 .. MaxCalls
      BY <2>1 DEF Begin, OtherTypes
    <3>6. OtherTypes'
      BY <2>1, <3>4, <3>5, Zenon DEF Begin, OtherTypes
    <3> QED
      BY <3>2, <3>3, <3>6, TypeParts, PTL
  <2>2. CASE Dial
    BY <2>2 DEF Dial, TypeOK, assemblyVars
  <2>3. CASE DialFails
    <3>1. SocketTypes'
      BY <2>3, DisconnectType, Zenon DEF DialFails, Raise, SocketTypes
    <3>2. CallTypes'
      BY <2>3, BackType, Zenon DEF DialFails, Raise
    <3>3. stale' \in BOOLEAN /\ running' \in BOOLEAN
      BY <2>3, Zenon DEF DialFails, OtherTypes
    <3>4. OtherTypes'
      BY <2>3, <3>3 DEF DialFails, Raise, Fault, OtherTypes
    <3> QED
      BY <3>1, <3>2, <3>4, TypeParts, PTL
  <2>4. CASE DialAlreadyOpen
    BY <2>4 DEF DialAlreadyOpen, TypeOK, assemblyVars
  <2>5. CASE SendRejected
    <3>1. SocketTypes'
      BY <2>5, DisconnectType, Zenon DEF SendRejected, Raise, SocketTypes, sockets
    <3>2. CallTypes'
      BY <2>5, BackType, Zenon DEF SendRejected, Raise
    <3>3. OtherTypes'
      BY <2>5, Zenon DEF SendRejected, Raise, OtherTypes
    <3> QED
      BY <3>1, <3>2, <3>3, TypeParts, PTL
  <2>6. ASSUME Request PROVE seqNum' \in 0 .. SeqSpace - 1
    BY <2>6 DEF Request, TypeOK
  <2>7. Packets(op) \in Nat /\ [k \in 1 .. Packets(op) |-> k] \in [1 .. Packets(op) -> Nat]
    BY DEF Packets
  <2>8. CASE Send
    <3>1. inbox' \in Seq(Packet)
      BY <2>7, <2>8, AnsweredType DEF Send, TypeOK
    <3> QED
      BY <2>6, <2>8, <3>1 DEF Send, Request, Cut, TypeOK, assemblyVars
  <2>9. CASE SendDisturbed
    <3>1. PICK answer \in Deliveries(Packets(op)) : Answered(answer)
      BY <2>9 DEF SendDisturbed
    <3>2. PICK m \in 0 .. Packets(op) + 1 : answer \in [1 .. m -> 1 .. Packets(op)]
      BY <3>1 DEF Deliveries
    <3>3. m \in Nat /\ answer \in [1 .. m -> Nat]
      BY <2>7, <3>2
    <3>4. inbox' \in Seq(Packet)
      BY <3>1, <3>3, AnsweredType DEF TypeOK
    <3> QED
      BY <2>6, <2>9, <3>4 DEF SendDisturbed, Request, Cut, Fault, TypeOK, assemblyVars
  <2>10. CASE SendLost
    <3>1. Leftover \in Seq(Packet) /\ <<Answer("ERR")>> \in Seq(Packet)
      BY LeftoverType, AnswerType DEF TypeOK
    <3>2. inbox' \in Seq(Packet)
      BY <2>10, <3>1 DEF SendLost
    <3> QED
      BY <2>6, <2>10, <3>2 DEF SendLost, Request, Fault, TypeOK, assemblyVars
  <2>11. CASE ReceiveFits
    <3>1. inbox' \in Seq(Packet) /\ got' \in Seq(Packet)
      BY <2>11 DEF ReceiveFits, TypeOK
    <3>2. op' \in Opcodes \cup {"DISCONNECT_SOCK", "none"} /\ script' \in Seq(Opcodes)
      BY <2>11, TakeType DEF ReceiveFits, Take, TypeOK
    <3>3. connected' \in BOOLEAN /\ running' \in BOOLEAN
      <4>1. \/ connected' = connected /\ running' = running
            \/ /\ connected' = (connected \/ op = "DISCONNECT_SOCK")
               /\ running' = (running \/ (op = "DISCONNECT_SOCK" /\ call = "connect"))
        BY <2>11 DEF ReceiveFits
      <4>2. connected \in BOOLEAN /\ running \in BOOLEAN
        BY DEF TypeOK
      <4> QED
        BY <4>1, <4>2, Zenon
    <3>4. pc' = pc \/ pc' \in {"return", "send"}
      BY <2>11 DEF ReceiveFits, Take
    <3>5. UNCHANGED <<sockets, seqNum, refused, stale, call, reader, status, calls, faults>>
      BY <2>11 DEF ReceiveFits
    <3> QED
      BY <3>1, <3>2, <3>3, <3>4, <3>5 DEF TypeOK, sockets
  <2>12. CASE ReceiveWrong
    <3>1. SocketTypes'
      <4>1. inbox # << >> => Tail(inbox) \in Seq(Packet)
        BY DEF SocketTypes
      <4> QED
        BY <2>12, <4>1, DisconnectType, Zenon DEF ReceiveWrong, Raise, SocketTypes, sockets
    <3>2. CallTypes'
      BY <2>12, BackType, Zenon DEF ReceiveWrong, Raise
    <3>3. OtherTypes'
      BY <2>12, Zenon DEF ReceiveWrong, Raise, OtherTypes
    <3> QED
      BY <3>1, <3>2, <3>3, TypeParts, PTL
  <2>13. CASE ReceiveError
    <3>1. SocketTypes'
      BY <2>13, DisconnectType, Zenon DEF ReceiveError, Raise, SocketTypes, sockets
    <3>2. CallTypes'
      BY <2>13, BackType, Zenon DEF ReceiveError, Raise
    <3>3. OtherTypes'
      BY <2>13, Zenon DEF ReceiveError, Raise, OtherTypes
    <3> QED
      BY <3>1, <3>2, <3>3, TypeParts, PTL
  <2>14. CASE ReceiveTimeout
    <3>1. SocketTypes'
      BY <2>14, DisconnectType, Zenon DEF ReceiveTimeout, SocketTypes
    <3>2. CallTypes'
      BY <2>14, BackType, Zenon DEF ReceiveTimeout
    <3>3. OtherTypes'
      BY <2>14, Zenon DEF ReceiveTimeout, OtherTypes
    <3> QED
      BY <3>1, <3>2, <3>3, TypeParts, PTL
  <2>15. CASE ExposureTooLow
    BY <2>15 DEF ExposureTooLow, Back, TypeOK, sockets, assemblyVars
  <2>16. CASE Return
    BY <2>16 DEF Return, Back, FrameConnect, Fault, TypeOK
  <2>17. CASE ReaderStart
    BY <2>17 DEF ReaderStart, FrameConnect, Fault, TypeOK, Calls
  <2>18. CASE UNCHANGED vars
    BY <2>18 DEF vars, sockets, assemblyVars, TypeOK
  <2> QED
    BY <2>1, <2>2, <2>3, <2>4, <2>5, <2>8, <2>9, <2>10, <2>11, <2>12, <2>13, <2>14,
       <2>15, <2>16, <2>17, <2>18 DEF Next, GoOn
<1> QED
  BY <1>1, <1>2, PTL DEF Spec

-----------------------------------------------------------------------------

\* SocketsInv holds in every behaviour of Spec (commandConnect, connectUdp,
\* getStatus, runUdpContext).
THEOREM SocketsCorrect == Spec => []SocketsInv
<1>1. Init => SocketsInv
  BY Zenon DEF Init, SocketsInv, Greeting
<1>2. TypeOK /\ SocketsInv /\ [Next]_vars => SocketsInv'
  <2> SUFFICES ASSUME TypeOK, SocketsInv, [Next]_vars PROVE SocketsInv'
    OBVIOUS
  <2> USE DEF SocketsInv, Greeting, TypeOK
  <2>1. ASSUME NEW c \in Calls, Begin(c) PROVE SocketsInv'
    <3>1. Head(Script(c)) \in Opcodes
      BY ScriptType, TakeType
    <3>2. Head(Script(c)) = "READ_TIMER" => c = "poll"
      BY DEF Script, Calls, ThreadCalls, GetAssemblyParams, SetExposure, ReadExposure,
             WriteControlRegister, StartReadingUnicast, InitBroadcastReading
    <3> QED
      BY <2>1, <3>1, <3>2 DEF Begin, Take, Opcodes, Calls, sockets
  <2>2. CASE Dial
    BY <2>2 DEF Dial, assemblyVars
  <2>3. CASE DialFails
    BY <2>3 DEF DialFails, Raise, Back, Disconnect
  <2>4. CASE DialAlreadyOpen
    BY <2>4 DEF DialAlreadyOpen, assemblyVars
  <2>5. CASE SendRejected
    BY <2>5 DEF SendRejected, Raise, Back, Disconnect, Forced, sockets
  <2>6. CASE Send
    BY <2>6 DEF Send, Request, Forced, assemblyVars
  <2>7. CASE SendDisturbed
    BY <2>7 DEF SendDisturbed, Request, Forced, assemblyVars
  <2>8. CASE SendLost
    BY <2>8 DEF SendLost, Request, Forced, assemblyVars
  <2>9. CASE ReceiveFits
    <3>1. script # << >> => Head(script) \in Opcodes
      BY TakeType
    <3> QED
      BY <2>9, <3>1 DEF ReceiveFits, Take, Opcodes, sockets
  <2>10. CASE ReceiveWrong
    BY <2>10 DEF ReceiveWrong, Raise, Back, Disconnect, sockets
  <2>11. CASE ReceiveError
    BY <2>11 DEF ReceiveError, Raise, Back, Disconnect, sockets
  <2>12. CASE ReceiveTimeout
    BY <2>12 DEF ReceiveTimeout, Back, Disconnect
  <2>13. CASE ExposureTooLow
    BY <2>13 DEF ExposureTooLow, Back, sockets, assemblyVars
  <2>14. CASE Return
    BY <2>14 DEF Return, Back
  <2>15. CASE ReaderStart
    BY <2>15 DEF ReaderStart
  <2>16. CASE UNCHANGED vars
    BY <2>16 DEF vars, sockets, assemblyVars
  <2> QED
    BY <2>1, <2>2, <2>3, <2>4, <2>5, <2>6, <2>7, <2>8, <2>9, <2>10, <2>11, <2>12, <2>13, <2>14,
       <2>15, <2>16 DEF Next, GoOn
<1> QED
  BY <1>1, <1>2, CommandsTypeCorrect, PTL DEF Spec

\* Between calls the UDP sockets are open if and only if the assembly counts as
\* connected, unless a connect failed (getStatus, commandConnect).
THEOREM SocketsAfterPolls == Spec => []PollsCleanUp
<1>1. TypeOK /\ SocketsInv => PollsCleanUp
  BY DEF TypeOK, SocketsInv, Greeting, PollsCleanUp
<1> QED
  BY <1>1, SocketsCorrect, CommandsTypeCorrect, PTL

\* The handler of a receive that timed out never runs within a later exchange
\* (receive, runUdpContext).
THEOREM StaleHandlerHarmless == Spec => []StaleRunsBeforeExchanges
<1>1. TypeOK /\ SocketsInv => StaleRunsBeforeExchanges
  BY DEF TypeOK, SocketsInv, Greeting, StaleRunsBeforeExchanges
<1> QED
  BY <1>1, SocketsCorrect, CommandsTypeCorrect, PTL

-----------------------------------------------------------------------------
(* An exchange takes the answers to its own request only.                  *)

\* How many requests ago the one was made that p answers, when seq_num, which
\* wraps, is n.
AgeAt(n, p) == IF p.seq < n THEN n - 1 - p.seq ELSE n - 1 - p.seq + SeqSpace

Age(p) == AgeAt(seqNum, p)

\* No packet in the socket is older than n requests.
NoOlderThan(n) == \A k \in DOMAIN inbox : Age(inbox[k]) <= n

\* Every packet in the socket answers the request under way.
AllOwn == \A k \in DOMAIN inbox : inbox[k].own

\* What the received packets say of the exchange: the answers to its request, and
\* no others, have its number; the network appends them to what was there before;
\* and once one was taken there is nothing else (MasiEthernet::receive).
ExchangeInv ==
  pc = "receive" =>
    /\ \A k \in DOMAIN inbox : inbox[k].own <=> Age(inbox[k]) = 0
    /\ \A j, k \in DOMAIN inbox : j < k /\ inbox[j].own => inbox[k].own
    /\ got # << >> => AllOwn

\* How old a packet is at most: a call with an old packet before it makes one
\* request, and ends with that packet; a poll that ends so closes the socket.
AgeInv ==
  /\ pc \in {"dial", "send", "receive", "return"} /\ call # "poll" => calls >= 1
  /\ pc = "idle" => NoOlderThan(calls)
  /\ pc \in {"dial", "send", "return"} =>
       NoOlderThan(IF call = "poll" THEN calls ELSE calls - 1)
  /\ pc = "receive" => NoOlderThan(IF call = "poll" THEN calls + 1 ELSE calls)

AnswersInv == AnswersAreOwn /\ ExchangeInv /\ AgeInv

\* The sequence numbers outlast the calls between two polls.
EnoughNumbers == MaxCalls + 1 < SeqSpace

\* The number before a wrap and after it, without the remainder (seq_num).
LEMMA Numbers ==
  ASSUME NEW n \in 0 .. SeqSpace - 1
  PROVE  /\ (n + 1) % SeqSpace = (IF n + 1 = SeqSpace THEN 0 ELSE n + 1)
         /\ (n - 1) % SeqSpace = (IF n = 0 THEN SeqSpace - 1 ELSE n - 1)
BY SeqSpaceAssumption

\* A packet has age 0 if and only if its number is that of the request under way.
LEMMA AgeRange ==
  ASSUME NEW n \in 0 .. SeqSpace - 1, NEW p \in Packet
  PROVE  /\ AgeAt(n, p) \in 0 .. SeqSpace - 1
         /\ AgeAt(n, p) = 0 <=> p.seq = (n - 1) % SeqSpace
<1>1. p.seq \in 0 .. SeqSpace - 1
  BY DEF Packet
<1> QED
  BY <1>1, Numbers, SeqSpaceAssumption DEF AgeAt

\* A request makes every packet one older, and one with its own number new.
LEMMA AgeGrows ==
  ASSUME NEW n \in 0 .. SeqSpace - 1, NEW p \in Packet
  PROVE  /\ AgeAt(n, p) < SeqSpace - 1 => AgeAt((n + 1) % SeqSpace, p) = AgeAt(n, p) + 1
         /\ p.seq = n => AgeAt((n + 1) % SeqSpace, p) = 0
<1> DEFINE m == (n + 1) % SeqSpace
<1>1. p.seq \in 0 .. SeqSpace - 1
  BY DEF Packet
<1>2. m = IF n + 1 = SeqSpace THEN 0 ELSE n + 1
  BY Numbers
<1> HIDE DEF m
<1>3. /\ AgeAt(n, p) < SeqSpace - 1 => AgeAt(m, p) = AgeAt(n, p) + 1
      /\ p.seq = n => AgeAt(m, p) = 0
  BY <1>1, <1>2, SeqSpaceAssumption DEF AgeAt
<1> QED
  BY <1>3 DEF m

\* The packets in the socket, and what is left without the first.
LEMMA InboxFacts ==
  ASSUME TypeOK
  PROVE  /\ DOMAIN inbox = 1 .. Len(inbox) /\ Len(inbox) \in Nat
         /\ \A k \in DOMAIN inbox : inbox[k] \in Packet
         /\ inbox # << >> =>
              /\ 1 \in DOMAIN inbox /\ Head(inbox) = inbox[1]
              /\ DOMAIN Tail(inbox) = 1 .. Len(inbox) - 1
              /\ \A k \in 1 .. Len(inbox) - 1 : Tail(inbox)[k] = inbox[k + 1]
<1>1. inbox \in Seq(Packet)
  BY DEF TypeOK
<1>2. \A s \in Seq(Packet) :
        /\ DOMAIN s = 1 .. Len(s) /\ Len(s) \in Nat
        /\ \A k \in DOMAIN s : s[k] \in Packet
        /\ s # << >> =>
             /\ 1 \in DOMAIN s /\ Head(s) = s[1]
             /\ DOMAIN Tail(s) = 1 .. Len(s) - 1
             /\ \A k \in 1 .. Len(s) - 1 : Tail(s)[k] = s[k + 1]
  OBVIOUS
<1> QED
  BY <1>1, <1>2

\* A step that takes nothing but the first packets from the socket, and does not
\* change seq_num, makes none older.
LEMMA NoOlderAfter ==
  ASSUME TypeOK, NEW b \in Int, NoOlderThan(b), seqNum' = seqNum,
         \/ inbox' = inbox
         \/ inbox' = << >>
         \/ inbox # << >> /\ inbox' = Tail(inbox)
  PROVE  NoOlderThan(b)'
<1>1. ASSUME NEW k \in DOMAIN inbox' PROVE Age(inbox'[k]) <= b
  <2>1. CASE inbox' = inbox
    BY <1>1, <2>1 DEF NoOlderThan
  <2>2. CASE inbox' = << >>
    BY <1>1, <2>2
  <2>3. CASE inbox # << >> /\ inbox' = Tail(inbox)
    <3>1. k \in 1 .. Len(inbox) - 1 /\ inbox'[k] = inbox[k + 1]
      BY <1>1, <2>3, InboxFacts
    <3>2. k + 1 \in DOMAIN inbox
      BY <3>1, InboxFacts
    <3> QED
      BY <3>1, <3>2 DEF NoOlderThan
  <2> QED
    BY <2>1, <2>2, <2>3
<1>2. \A k \in DOMAIN inbox' : AgeAt(seqNum', inbox'[k]) <= b
  BY <1>1 DEF Age
<1> QED
  BY <1>2 DEF NoOlderThan, Age

\* The same for a larger bound.
LEMMA NoOlderWeaken ==
  ASSUME TypeOK, NEW a \in Int, NEW b \in Int, a <= b, NoOlderThan(a)
  PROVE  NoOlderThan(b)
<1>1. ASSUME NEW k \in DOMAIN inbox PROVE Age(inbox[k]) <= b
  <2>1. inbox[k] \in Packet
    BY InboxFacts
  <2>2. AgeAt(seqNum, inbox[k]) \in Int
    BY <2>1, AgeRange DEF TypeOK
  <2>3. Age(inbox[k]) <= a
    BY DEF NoOlderThan
  <2> QED
    BY <2>2, <2>3 DEF Age
<1> QED
  BY <1>1 DEF NoOlderThan

\* A packet's type, with its own flag cleared.
LEMMA LeftoverOld ==
  ASSUME TypeOK
  PROVE  /\ Leftover \in Seq(Packet) /\ Len(Leftover) = Len(inbox)
         /\ \A k \in 1 .. Len(inbox) :
              ~Leftover[k].own /\ Leftover[k].seq = inbox[k].seq
<1>1. Leftover \in Seq(Packet)
  BY LeftoverType DEF TypeOK
<1>2. DOMAIN Leftover = 1 .. Len(inbox)
  BY InboxFacts DEF Leftover
<1>3. Len(Leftover) = Len(inbox)
  BY <1>1, <1>2, InboxFacts
<1>4. ASSUME NEW k \in 1 .. Len(inbox)
      PROVE  ~Leftover[k].own /\ Leftover[k].seq = inbox[k].seq
  <2>1. Leftover[k] = [inbox[k] EXCEPT !.own = FALSE]
    BY InboxFacts DEF Leftover
  <2>2. inbox[k] \in Packet
    BY InboxFacts
  <2> QED
    BY <2>1, <2>2 DEF Packet
<1> QED
  BY <1>1, <1>3, <1>4

\* A request: what was in the socket is one request older and comes first, and
\* behind it is what answers the request (send, and the network).
LEMMA RequestAnswers ==
  ASSUME EnoughNumbers, TypeOK, TypeOK', AnswersInv, Request, calls' = calls,
         NEW new \in Seq(Packet), inbox' = Leftover \o new,
         \A k \in 1 .. Len(new) : new[k].own /\ new[k].seq = seqNum
  PROVE  AnswersInv'
<1> DEFINE b == IF call = "poll" THEN calls ELSE calls - 1
<1>1. NoOlderThan(b) /\ b \in Int /\ 0 <= b + 1 /\ b + 1 < SeqSpace
  <2>1. calls \in Int /\ 0 <= calls /\ calls <= MaxCalls /\ MaxCalls \in Int /\ SeqSpace \in Int
    BY BoundsAssumption, SeqSpaceAssumption DEF TypeOK
  <2> QED
    BY <2>1 DEF Request, AnswersInv, AgeInv, EnoughNumbers
<1> HIDE DEF b
<1>2. /\ Leftover \in Seq(Packet) /\ Len(Leftover) = Len(inbox) /\ Len(inbox) \in Nat
      /\ DOMAIN inbox = 1 .. Len(inbox)
  BY LeftoverOld, InboxFacts
<1>3. DOMAIN inbox' = 1 .. Len(inbox) + Len(new) /\ Len(new) \in Nat
  <2>1. \A s, t \in Seq(Packet) : DOMAIN (s \o t) = 1 .. Len(s) + Len(t) /\ Len(t) \in Nat
    OBVIOUS
  <2> QED
    BY <1>2, <2>1
<1>4. seqNum \in 0 .. SeqSpace - 1 /\ seqNum' = (seqNum + 1) % SeqSpace
  BY DEF TypeOK, Request
<1>5. ASSUME NEW k \in 1 .. Len(inbox)
      PROVE  ~inbox'[k].own /\ AgeAt(seqNum', inbox'[k]) \in 1 .. b + 1
  <2>1. inbox'[k] = Leftover[k]
    BY <1>2
  <2>2. ~inbox'[k].own /\ inbox'[k].seq = inbox[k].seq
    BY <2>1, LeftoverOld
  <2>3. inbox[k] \in Packet
    BY <1>2, InboxFacts
  <2>4. AgeAt(seqNum, inbox[k]) \in 0 .. SeqSpace - 1
    BY <1>4, <2>3, AgeRange
  <2>5. AgeAt(seqNum, inbox[k]) <= b
    BY <1>1, <1>2 DEF NoOlderThan, Age
  <2>6. AgeAt(seqNum, inbox[k]) < SeqSpace - 1
    BY <1>1, <2>4, <2>5, SeqSpaceAssumption
  <2>7. AgeAt(seqNum', inbox[k]) = AgeAt(seqNum, inbox[k]) + 1
    BY <1>4, <2>3, <2>6, AgeGrows
  <2>8. AgeAt(seqNum', inbox'[k]) = AgeAt(seqNum', inbox[k])
    BY <2>2 DEF AgeAt
  <2>9. AgeAt(seqNum', inbox'[k]) \in 1 .. b + 1
    BY <1>1, <2>4, <2>5, <2>7, <2>8, SeqSpaceAssumption
  <2> QED
    BY <2>2, <2>9
<1>6. ASSUME NEW k \in Len(inbox) + 1 .. Len(inbox) + Len(new)
      PROVE  inbox'[k].own /\ AgeAt(seqNum', inbox'[k]) = 0
  <2>1. k - Len(inbox) \in 1 .. Len(new) /\ inbox'[k] = new[k - Len(inbox)]
    BY <1>2
  <2>2. new[k - Len(inbox)] \in Packet
    BY <2>1
  <2> QED
    BY <1>4, <2>1, <2>2, AgeGrows
<1>7. ASSUME NEW k \in DOMAIN inbox'
      PROVE  k \in 1 .. Len(inbox) \/ k \in Len(inbox) + 1 .. Len(inbox) + Len(new)
  BY <1>2, <1>3
<1>8. pc' = "receive" /\ got' = << >> /\ call' = call
  BY DEF Request
<1>9. NoOlderThan(b + 1)'
  <2>1. ASSUME NEW k \in DOMAIN inbox' PROVE AgeAt(seqNum', inbox'[k]) <= b + 1
    <3>1. CASE k \in 1 .. Len(inbox)
      BY <1>1, <1>5, <3>1
    <3>2. CASE k \in Len(inbox) + 1 .. Len(inbox) + Len(new)
      BY <1>1, <1>6, <3>2
    <3> QED
      BY <1>7, <3>1, <3>2
  <2>2. b' = b
    BY <1>8 DEF b
  <2> QED
    BY <2>1, <2>2 DEF NoOlderThan, Age
<1>10. ExchangeInv'
  <2>1. \A k \in DOMAIN inbox' : inbox'[k].own <=> AgeAt(seqNum', inbox'[k]) = 0
    BY <1>5, <1>6, <1>7
  <2>2. \A j, k \in DOMAIN inbox' : j < k /\ inbox'[j].own => inbox'[k].own
    BY <1>2, <1>5, <1>6, <1>7
  <2> QED
    BY <1>8, <2>1, <2>2 DEF ExchangeInv, Age
<1>11. AgeInv'
  <2>1. b + 1 = IF call = "poll" THEN calls + 1 ELSE calls
    BY DEF b, TypeOK
  <2>2. call' # "poll" => calls' >= 1
    BY <1>8 DEF Request, AnswersInv, AgeInv
  <2>3. NoOlderThan(IF call = "poll" THEN calls + 1 ELSE calls)'
    <3>1. (b + 1)' = (IF call = "poll" THEN calls + 1 ELSE calls)'
      BY <1>8, <2>1 DEF b
    <3> QED
      BY <1>9, <3>1 DEF NoOlderThan
  <2> QED
    BY <1>8, <2>2, <2>3 DEF AgeInv
<1>12. AnswersAreOwn'
  BY <1>8 DEF AnswersAreOwn
<1> QED
  BY <1>10, <1>11, <1>12 DEF AnswersInv

\* A step that ends the call, takes packets from the socket's front at most and
\* makes no request (the exceptions of a call, ExposureTooLow).
LEMMA EndAnswers ==
  ASSUME TypeOK, TypeOK', AnswersInv, pc \in {"dial", "send", "receive"}, pc' = "idle",
         got' = << >>, calls' = calls, seqNum' = seqNum,
         call = "poll" /\ pc = "receive" => inbox' = << >>,
         \/ inbox' = inbox
         \/ inbox' = << >>
         \/ inbox # << >> /\ inbox' = Tail(inbox)
  PROVE  AnswersInv'
<1>1. calls \in Int
  BY BoundsAssumption DEF TypeOK
<1>2. NoOlderThan(calls)'
  <2>1. CASE call = "poll" /\ pc = "receive"
    BY <2>1 DEF NoOlderThan
  <2>2. CASE ~(call = "poll" /\ pc = "receive")
    <3>1. NoOlderThan(calls) \/ NoOlderThan(calls - 1)
      BY <2>2 DEF AnswersInv, AgeInv
    <3>2. NoOlderThan(calls)
      BY <1>1, <3>1, NoOlderWeaken
    <3>3. \A b \in Int : NoOlderThan(b) =>
            \A k \in DOMAIN inbox' : AgeAt(seqNum', inbox'[k]) <= b
      BY NoOlderAfter DEF NoOlderThan, Age
    <3> QED
      BY <1>1, <3>2, <3>3 DEF NoOlderThan, Age
  <2> QED
    BY <2>1, <2>2
<1>3. AgeInv' /\ ExchangeInv' /\ AnswersAreOwn'
  BY <1>2 DEF AgeInv, ExchangeInv, AnswersAreOwn
<1> QED
  BY <1>3 DEF AnswersInv

\* A packet that fits the request answers it, and so does all that is behind it
\* (receive).
LEMMA FitIsOwn ==
  ASSUME TypeOK, AnswersInv, pc = "receive", inbox # << >>, Fits(Head(inbox))
  PROVE  Head(inbox).own /\ AllOwn
<1>1. /\ 1 \in DOMAIN inbox /\ Head(inbox) = inbox[1] /\ inbox[1] \in Packet
      /\ DOMAIN inbox = 1 .. Len(inbox) /\ Len(inbox) \in Nat
  BY InboxFacts
<1>2. seqNum \in 0 .. SeqSpace - 1
  BY DEF TypeOK
<1>3. inbox[1].seq = (seqNum - 1) % SeqSpace
  BY <1>1 DEF Fits, OpSeqNum
<1>4. AgeAt(seqNum, inbox[1]) = 0
  BY <1>1, <1>2, <1>3, AgeRange
<1>5. inbox[1].own
  BY <1>1, <1>4 DEF AnswersInv, ExchangeInv, Age
<1>6. \A k \in DOMAIN inbox : k = 1 \/ 1 < k
  BY <1>1
<1>7. \A k \in DOMAIN inbox : inbox[k].own
  BY <1>1, <1>5, <1>6 DEF AnswersInv, ExchangeInv
<1> QED
  BY <1>1, <1>5, <1>7 DEF AllOwn

\* A packet that fits is taken (receive).
LEMMA FitAnswers ==
  ASSUME TypeOK, TypeOK', AnswersInv, ReceiveFits
  PROVE  AnswersInv'
<1>1. /\ pc = "receive" /\ inbox # << >> /\ Fits(Head(inbox)) /\ inbox' = Tail(inbox)
      /\ got' = Append(got, Head(inbox)) /\ seqNum' = seqNum /\ call' = call /\ calls' = calls
  BY DEF ReceiveFits
<1>2. Head(inbox).own /\ AllOwn
  BY <1>1, FitIsOwn
<1>3. AnswersAreOwn'
  <2>1. got \in Seq(Packet) /\ Head(inbox) \in Packet
    BY <1>1, InboxFacts DEF TypeOK
  <2>2. \A s \in Seq(Packet), p \in Packet :
          /\ DOMAIN Append(s, p) = 1 .. Len(s) + 1 /\ DOMAIN s = 1 .. Len(s)
          /\ Len(s) \in Nat /\ Append(s, p)[Len(s) + 1] = p
          /\ \A k \in 1 .. Len(s) : Append(s, p)[k] = s[k]
    OBVIOUS
  <2>3. \A k \in DOMAIN got : got[k].own
    BY DEF AnswersInv, AnswersAreOwn
  <2>4. \A k \in 1 .. Len(got) + 1 : k = Len(got) + 1 \/ k \in 1 .. Len(got)
    BY <2>1, <2>2
  <2>5. \A k \in DOMAIN got' : got'[k].own
    BY <1>1, <1>2, <2>1, <2>2, <2>3, <2>4
  <2> QED
    BY <2>5 DEF AnswersAreOwn
<1>4. ASSUME NEW k \in DOMAIN inbox'
      PROVE  inbox'[k].own /\ AgeAt(seqNum', inbox'[k]) = 0
  <2>1. k \in 1 .. Len(inbox) - 1 /\ inbox'[k] = inbox[k + 1]
    BY <1>1, <1>4, InboxFacts
  <2>2. k + 1 \in DOMAIN inbox
    BY <2>1, InboxFacts
  <2>3. inbox[k + 1].own
    BY <1>2, <2>2 DEF AllOwn
  <2>4. AgeAt(seqNum, inbox[k + 1]) = 0
    BY <1>1, <2>2, <2>3 DEF AnswersInv, ExchangeInv, Age
  <2> QED
    BY <1>1, <2>1, <2>3, <2>4
<1>5. \A b \in Nat : \A k \in DOMAIN inbox' : AgeAt(seqNum', inbox'[k]) <= b
  BY <1>4
<1>6. calls \in Nat /\ (call # "poll" => calls >= 1)
  BY <1>1, BoundsAssumption DEF TypeOK, AnswersInv, AgeInv
<1>7. NoOlderThan(IF call = "poll" THEN calls ELSE calls - 1)'
  <2>1. (IF call = "poll" THEN calls ELSE calls - 1) \in Nat
    BY <1>6
  <2> QED
    BY <1>1, <1>5, <2>1 DEF NoOlderThan, Age
<1>8. NoOlderThan(IF call = "poll" THEN calls + 1 ELSE calls)'
  <2>1. (IF call = "poll" THEN calls + 1 ELSE calls) \in Nat
    BY <1>6
  <2> QED
    BY <1>1, <1>5, <2>1 DEF NoOlderThan, Age
<1>9. pc' \in {"receive", "send", "return"}
  BY DEF ReceiveFits
<1>10. AgeInv'
  BY <1>1, <1>6, <1>7, <1>8, <1>9 DEF AgeInv
<1>11. AllOwn'
  BY <1>4 DEF AllOwn
<1>12. ExchangeInv'
  BY <1>4, <1>11 DEF ExchangeInv, AllOwn, Age
<1> QED
  BY <1>3, <1>10, <1>12 DEF AnswersInv

\* The end of a call, with the request that is not answered (sendCommand of a
\* broadcast).
LEMMA ReturnAnswers ==
  ASSUME EnoughNumbers, TypeOK, TypeOK', AnswersInv, Return
  PROVE  AnswersInv'
<1>1. /\ pc = "return" /\ pc' = "idle" /\ got' = << >> /\ inbox' = inbox /\ calls' = calls
      /\ seqNum' = IF call = "syncRun" THEN (seqNum + 1) % SeqSpace ELSE seqNum
  BY DEF Return, Back
<1>2. NoOlderThan(IF call = "poll" THEN calls ELSE calls - 1)
  BY <1>1 DEF AnswersInv, AgeInv
<1>3. /\ calls \in Nat /\ calls < SeqSpace - 1 /\ seqNum \in 0 .. SeqSpace - 1
      /\ SeqSpace \in Nat
  BY BoundsAssumption, SeqSpaceAssumption DEF TypeOK, EnoughNumbers
<1>4. ASSUME NEW k \in DOMAIN inbox PROVE AgeAt(seqNum', inbox[k]) <= calls
  <2>1. inbox[k] \in Packet
    BY InboxFacts
  <2>2. AgeAt(seqNum, inbox[k]) \in 0 .. SeqSpace - 1
    BY <1>3, <2>1, AgeRange
  <2>3. AgeAt(seqNum, inbox[k]) <= IF call = "poll" THEN calls ELSE calls - 1
    BY <1>2 DEF NoOlderThan, Age
  <2>4. CASE call = "syncRun"
    <3>1. AgeAt(seqNum, inbox[k]) <= calls - 1
      BY <2>3, <2>4
    <3>2. AgeAt(seqNum, inbox[k]) < SeqSpace - 1
      BY <1>3, <2>2, <3>1
    <3>3. AgeAt(seqNum', inbox[k]) = AgeAt(seqNum, inbox[k]) + 1
      BY <1>1, <1>3, <2>1, <2>4, <3>2, AgeGrows
    <3> QED
      BY <1>3, <2>2, <3>1, <3>3
  <2>5. CASE call # "syncRun"
    <3>1. seqNum' = seqNum
      BY <1>1, <2>5
    <3> QED
      BY <1>3, <2>2, <2>3, <3>1
  <2> QED
    BY <2>4, <2>5
<1>5. NoOlderThan(calls)'
  BY <1>1, <1>4 DEF NoOlderThan, Age
<1>6. AgeInv' /\ ExchangeInv' /\ AnswersAreOwn'
  BY <1>1, <1>5 DEF AgeInv, ExchangeInv, AnswersAreOwn
<1> QED
  BY <1>6 DEF AnswersInv

\* A step that leaves the socket, seq_num and what was received alone.
LEMMA IdleAnswers ==
  ASSUME TypeOK, AnswersInv, inbox' = inbox, seqNum' = seqNum, got' = got
  PROVE  /\ AnswersAreOwn'
         /\ \A b \in Int : NoOlderThan(b) =>
              \A k \in DOMAIN inbox' : AgeAt(seqNum', inbox'[k]) <= b
BY DEF AnswersInv, AnswersAreOwn, NoOlderThan, Age

LEMMA AnswersInvInductive ==
  ASSUME EnoughNumbers, TypeOK, TypeOK', AnswersInv, [Next]_vars
  PROVE  AnswersInv'
<1> USE BoundsAssumption
<1>1. ASSUME NEW c \in Calls, Begin(c) PROVE AnswersInv'
  <2>1. /\ pc = "idle" /\ pc' \in {"dial", "send"} /\ inbox' = inbox /\ seqNum' = seqNum
        /\ got' = got /\ call' = c
        /\ calls' = IF c = "poll" THEN calls ELSE calls + 1
    BY <1>1 DEF Begin
  <2>2. calls \in Nat /\ NoOlderThan(calls)
    BY <2>1 DEF TypeOK, AnswersInv, AgeInv
  <2>3. AnswersAreOwn' /\ \A k \in DOMAIN inbox' : AgeAt(seqNum', inbox'[k]) <= calls
    BY <2>1, <2>2, IdleAnswers
  <2>4. (IF call' = "poll" THEN calls' ELSE calls' - 1) = calls
    BY <2>1, <2>2
  <2>5. NoOlderThan(IF call = "poll" THEN calls ELSE calls - 1)'
    BY <2>3, <2>4 DEF NoOlderThan, Age
  <2>6. call' # "poll" => calls' >= 1
    BY <2>1, <2>2
  <2> QED
    BY <2>1, <2>3, <2>5, <2>6 DEF AnswersInv, AgeInv, ExchangeInv
<1>2. CASE Dial
  <2>1. /\ pc = "dial" /\ pc' = "send" /\ inbox' = inbox /\ seqNum' = seqNum /\ got' = got
        /\ call' = call /\ calls' = calls
    BY <1>2 DEF Dial
  <2> QED
    BY <2>1 DEF AnswersInv, AnswersAreOwn, AgeInv, ExchangeInv, NoOlderThan, Age
<1>3. CASE DialFails
  <2>1. /\ pc = "dial" /\ pc' = "idle" /\ got' = << >> /\ calls' = calls /\ seqNum' = seqNum
        /\ (inbox' = inbox \/ inbox' = << >>)
    BY <1>3 DEF DialFails, Raise, Back, Disconnect
  <2> QED
    BY <2>1, EndAnswers
<1>4. CASE DialAlreadyOpen
  <2>1. /\ pc = "dial" /\ pc' \in {"idle", "terminated"} /\ inbox' = inbox
        /\ seqNum' = seqNum /\ got' = got /\ call' = call /\ calls' = calls
    BY <1>4 DEF DialAlreadyOpen
  <2>2. calls \in Int /\ (NoOlderThan(calls) \/ NoOlderThan(calls - 1))
    BY <2>1 DEF TypeOK, AnswersInv, AgeInv
  <2>3. NoOlderThan(calls)
    BY <2>2, NoOlderWeaken
  <2>4. NoOlderThan(calls)'
    BY <2>1, <2>3 DEF NoOlderThan, Age
  <2> QED
    BY <2>1, <2>4 DEF AnswersInv, AnswersAreOwn, AgeInv, ExchangeInv
<1>5. CASE SendRejected
  <2>1. /\ pc = "send" /\ pc' = "idle" /\ got' = << >> /\ calls' = calls /\ seqNum' = seqNum
        /\ (inbox' = inbox \/ inbox' = << >>)
    BY <1>5 DEF SendRejected, Raise, Back, Disconnect
  <2> QED
    BY <2>1, EndAnswers
<1>6. ASSUME Request, calls' = calls,
             NEW m \in Nat, NEW answer \in [1 .. m -> Nat], Answered(answer)
      PROVE  AnswersInv'
  <2> DEFINE new == [k \in DOMAIN answer |-> Answer(Code(answer[k]))]
  <2>1. \A k \in 1 .. m : Answer(Code(answer[k])) \in Packet
    BY AnswerType DEF Code, TypeOK
  <2>2. new \in Seq(Packet) /\ Len(new) = m
    BY <2>1
  <2>3. \A k \in 1 .. Len(new) : new[k].own /\ new[k].seq = seqNum
    BY <2>2 DEF Answer
  <2>4. inbox' = Leftover \o new
    BY <1>6 DEF Answered
  <2> HIDE DEF new
  <2> QED
    BY <1>6, <2>2, <2>3, <2>4, RequestAnswers
<1>7. Packets(op) \in Nat /\ [k \in 1 .. Packets(op) |-> k] \in [1 .. Packets(op) -> Nat]
  BY DEF Packets
<1>8. CASE Send
  BY <1>6, <1>7, <1>8 DEF Send, Request
<1>9. CASE SendDisturbed
  <2>1. PICK answer \in Deliveries(Packets(op)) : Answered(answer)
    BY <1>9 DEF SendDisturbed
  <2>2. PICK m \in 0 .. Packets(op) + 1 : answer \in [1 .. m -> 1 .. Packets(op)]
    BY <2>1 DEF Deliveries
  <2>3. m \in Nat /\ answer \in [1 .. m -> Nat]
    BY <1>7, <2>2
  <2> QED
    BY <1>6, <1>9, <2>1, <2>3 DEF SendDisturbed, Request
<1>10. CASE SendLost
  <2>1. Request /\ calls' = calls
    BY <1>10 DEF SendLost, Request
  <2>2. CASE inbox' = Leftover
    <3>1. Leftover \o << >> = Leftover /\ << >> \in Seq(Packet) /\ Len(<< >>) = 0
      BY LeftoverOld
    <3>2. inbox' = Leftover \o << >>
      BY <2>2, <3>1
    <3>3. \A k \in 1 .. Len(<< >>) : << >>[k].own /\ << >>[k].seq = seqNum
      BY <3>1
    <3> QED
      BY <2>1, <3>1, <3>2, <3>3, RequestAnswers
  <2>3. CASE inbox' = Leftover \o <<Answer("ERR")>>
    <3>1. Answer("ERR") \in Packet /\ Answer("ERR").own /\ Answer("ERR").seq = seqNum
      BY AnswerType DEF Answer, TypeOK
    <3>2. <<Answer("ERR")>> \in Seq(Packet)
      BY <3>1
    <3>3. \A k \in 1 .. Len(<<Answer("ERR")>>) :
            <<Answer("ERR")>>[k].own /\ <<Answer("ERR")>>[k].seq = seqNum
      BY <3>1
    <3> QED
      BY <2>1, <2>3, <3>2, <3>3, RequestAnswers
  <2> QED
    BY <1>10, <2>2, <2>3 DEF SendLost
<1>11. CASE ReceiveFits
  BY <1>11, FitAnswers
<1>12. CASE ReceiveWrong
  <2>1. /\ pc = "receive" /\ pc' = "idle" /\ got' = << >> /\ calls' = calls
        /\ seqNum' = seqNum /\ inbox # << >>
        /\ call = "poll" => inbox' = << >>
        /\ inbox' = Tail(inbox) \/ inbox' = << >>
    BY <1>12 DEF ReceiveWrong, Raise, Back, Disconnect
  <2> QED
    BY <2>1, EndAnswers
<1>13. CASE ReceiveError
  <2>1. /\ pc = "receive" /\ pc' = "idle" /\ got' = << >> /\ calls' = calls
        /\ seqNum' = seqNum
        /\ call = "poll" => inbox' = << >>
        /\ inbox' = inbox \/ inbox' = << >>
    BY <1>13 DEF ReceiveError, Raise, Back, Disconnect
  <2> QED
    BY <2>1, EndAnswers
<1>14. CASE ReceiveTimeout
  <2>1. /\ pc = "receive" /\ pc' = "idle" /\ got' = << >> /\ calls' = calls
        /\ seqNum' = seqNum /\ inbox' = << >>
    BY <1>14 DEF ReceiveTimeout, Back, Disconnect
  <2> QED
    BY <2>1, EndAnswers
<1>15. CASE ExposureTooLow
  <2>1. /\ pc = "send" /\ pc' = "idle" /\ got' = << >> /\ calls' = calls
        /\ seqNum' = seqNum /\ inbox' = inbox
    BY <1>15 DEF ExposureTooLow, Back
  <2> QED
    BY <2>1, EndAnswers
<1>16. CASE Return
  BY <1>16, ReturnAnswers
<1>17. CASE ReaderStart
  <2>1. /\ inbox' = inbox /\ seqNum' = seqNum /\ got' = got /\ calls' = calls
        /\ \/ pc' = pc /\ call' = call
           \/ pc' = "terminated"
    BY <1>17 DEF ReaderStart
  <2> QED
    BY <2>1 DEF AnswersInv, AnswersAreOwn, AgeInv, ExchangeInv, NoOlderThan, AllOwn, Age
<1>18. CASE UNCHANGED vars
  <2>1. /\ inbox' = inbox /\ seqNum' = seqNum /\ got' = got /\ calls' = calls
        /\ pc' = pc /\ call' = call
    BY <1>18 DEF vars
  <2> QED
    BY <2>1 DEF AnswersInv, AnswersAreOwn, AgeInv, ExchangeInv, NoOlderThan, AllOwn, Age
<1> QED
  BY <1>1, <1>2, <1>3, <1>4, <1>5, <1>8, <1>9, <1>10, <1>11, <1>12, <1>13, <1>14, <1>15,
     <1>16, <1>17, <1>18 DEF Next, GoOn

\* An exchange takes only packets that answer its own request, whatever the network
\* lost, doubled or reordered and whatever an earlier call left in the socket, if
\* there are more sequence numbers than calls between two polls
\* (MasiEthernet::receive).
THEOREM AnswersOwn == EnoughNumbers /\ Spec => []AnswersAreOwn
<1> SUFFICES ASSUME EnoughNumbers PROVE Spec => []AnswersAreOwn
  OBVIOUS
<1>1. Init => AnswersInv
  BY DEF Init, AnswersInv, AnswersAreOwn, ExchangeInv, AgeInv, NoOlderThan
<1>2. TypeOK /\ TypeOK' /\ AnswersInv /\ [Next]_vars => AnswersInv'
  BY AnswersInvInductive
<1>3. AnswersInv => AnswersAreOwn
  BY DEF AnswersInv
<1> QED
  BY <1>1, <1>2, <1>3, CommandsTypeCorrect, PTL DEF Spec

==============================================================================
