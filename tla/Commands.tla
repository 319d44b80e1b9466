------------------------------ MODULE Commands -------------------------------
(***************************************************************************)
(* The command path of one assembly (class MasiEthernet): every command is *)
(* one or more UDP exchanges, a request with a sequence number and the     *)
(* packets of its answer, over a network that loses, duplicates and        *)
(* reorders them.  A command that times out closes every socket, a status  *)
(* poll opens the UDP ones again.                                          *)
(*                                                                         *)
(* The calls are those of Assembly and follow one another, as its lock     *)
(* makes those that take it; setMeasurement, getDeviceParams and           *)
(* stopReading, which do not take it, may overlap in the code and do not   *)
(* here.  An answer later than the time-out counts as lost: the socket it  *)
(* would arrive at is closed.                                              *)
(***************************************************************************)
EXTENDS Integers, Sequences

CONSTANTS
  SeqSpace,    \* the values of seq_num (2^16)
  FrameFaults, \* the TCP connection may be refused or time out
  MaxCalls,    \* bound: calls other than status polls
  MaxFaults    \* bound: exchanges and connections that go wrong

ASSUME SeqSpaceAssumption == SeqSpace \in Nat \ {0}

ASSUME FrameFaultsAssumption == FrameFaults \in BOOLEAN

ASSUME BoundsAssumption == {MaxCalls, MaxFaults} \subseteq Nat

VARIABLES
  connected,  \* MasiEthernet::connected
  udp,        \* udpSock is open
  broadcast,  \* broadcastSock is open
  tcp,        \* tcpSock: "closed", "up", or "cut": open and of no use
  seqNum,     \* seq_num
  inbox,      \* the answers in udpSock
  refused,    \* udpSock has an error to report (port unreachable)
  stale,      \* udpContext holds the handler of a receive that timed out
  pc,         \* where the call under way is
  call,       \* which call it is
  op,         \* the command it exchanges
  script,     \* the commands after that
  got,        \* the packets received in this exchange
  running,    \* Assembly::isRunning
  reader,     \* the reader thread: "none", "starting" or "up"
  status,     \* the result of the last poll
  calls,      \* calls other than polls so far
  faults      \* what went wrong so far

sockets == <<udp, broadcast, tcp>>
assemblyVars == <<running, reader, status>>
vars == <<connected, sockets, seqNum, inbox, refused, stale, pc, call, op, script,
          got, assemblyVars, calls, faults>>

Packets(o) == IF o \in {"READ_INI", "READ_SWAP_FILE", "GET_SERIAL_NUMBER"} THEN 2 ELSE 1

\* The commands of each call, in order; setDoubleExposure is like setExposure.
SetExposure == <<"READ_INI", "READ_TIMER_ENCHANCED", "SET_TIMER">>
ReadExposure == <<"READ_TIMER_ENCHANCED">>
WriteControlRegister == <<"WRITE_CR">>
GetAssemblyParams == <<"READ_INI", "READ_SWAP_FILE", "GET_SERIAL_NUMBER">>
StartReadingUnicast == <<"READ_INI", "SET_CHIP_PIXEL_NUMBER", "READ_MULTILINE">>
InitBroadcastReading == <<"READ_INI", "SET_CHIP_PIXEL_NUMBER", "SET_LINE_NUMBER">>

\* connect and a poll begin with commandConnect, a broadcast reading ends with
\* a request without an answer.
Script(c) ==
  CASE c = "poll"                         -> <<"READ_TIMER">>
    [] c \in {"connect", "getParams"}     -> GetAssemblyParams
    [] c = "setExposure"                  -> SetExposure
    [] c = "readExposure"                 -> ReadExposure
    [] c = "writeCr"                      -> WriteControlRegister
    [] c = "startReading"                 -> StartReadingUnicast
    [] c \in {"syncPrepare", "syncRun"}   -> InitBroadcastReading
    [] c = "stopReading"                  -> <<"STOP">>

\* Made by the threads of the assembly, once they exist.
ThreadCalls == {"startReading", "syncPrepare", "syncRun", "stopReading"}

Calls == {"poll", "connect", "getParams", "setExposure", "readExposure", "writeCr"}
           \cup ThreadCalls

Opcodes == {"READ_TIMER", "READ_INI", "READ_SWAP_FILE", "GET_SERIAL_NUMBER",
            "READ_TIMER_ENCHANCED", "SET_TIMER", "WRITE_CR", "SET_CHIP_PIXEL_NUMBER",
            "READ_MULTILINE", "SET_LINE_NUMBER", "STOP"}

\* Sent with force: assertConnected is not called.
Forced == {"DISCONNECT_SOCK", "READ_TIMER"}

\* The response code that receive demands of the k-th packet.
Code(k) == IF k = 1 THEN "ACK" ELSE "EXT"

\* The number of the request under way.
OpSeqNum == (seqNum - 1) % SeqSpace

Fault == faults < MaxFaults /\ faults' = faults + 1

-----------------------------------------------------------------------------
(* How a call ends. *)

\* A slip: the broadcast socket is forgotten.
SlipBroadcastOpen ==
  /\ connected' = FALSE
  /\ udp' = FALSE
  /\ tcp' = "closed"
  /\ inbox' = << >>
  /\ refused' = FALSE
  /\ UNCHANGED broadcast

\* MasiEthernet::disconnect
Disconnect ==
  /\ connected' = FALSE
  /\ udp' = FALSE
  /\ broadcast' = FALSE
  /\ tcp' = "closed"
  /\ inbox' = << >>
  /\ refused' = FALSE

Back ==
  /\ pc' = "idle"
  /\ op' = "none"
  /\ script' = << >>
  /\ got' = << >>

\* A slip: getStatus reports the failure and closes nothing.
SlipNoDisconnect(left) ==
  /\ Back
  /\ left
  /\ status' = IF call = "poll" THEN "DISCONNECTED" ELSE status

\* A DriverException leaves the call; getStatus catches it and closes all
\* sockets, the other calls leave them as "left" says.
Raise(left) ==
  /\ Back
  /\ IF call = "poll"
       THEN Disconnect /\ status' = "DISCONNECTED"
       ELSE left /\ UNCHANGED status

\* The first command of s is next.
Take(s) == op' = Head(s) /\ script' = Tail(s)

-----------------------------------------------------------------------------
(* The calls begin. *)

\* commandConnect returns at once when connected.
Begin(c) ==
  /\ pc = "idle"
  /\ IF c = "poll" THEN UNCHANGED calls ELSE calls < MaxCalls /\ calls' = calls + 1
  /\ c = "connect" => ~running
  /\ c \in ThreadCalls => reader = "up"
  /\ call' = c
  /\ IF c \in {"poll", "connect"} /\ ~connected
       THEN pc' = "dial" /\ script' = Script(c) /\ UNCHANGED op
       ELSE pc' = "send" /\ Take(Script(c))
  /\ running' = (running \/ (c = "connect" /\ connected))
  /\ UNCHANGED <<connected, sockets, seqNum, inbox, refused, stale, got, reader, status,
                 faults>>

(* connectUdp *)

\* Both sockets are opened; a handler left in udpContext runs now.
Dial ==
  /\ pc = "dial"
  /\ ~broadcast
  /\ udp' = TRUE
  /\ broadcast' = TRUE
  /\ stale' = FALSE
  /\ op' = "DISCONNECT_SOCK"
  /\ pc' = "send"
  /\ UNCHANGED <<connected, tcp, seqNum, inbox, refused, call, script, got, assemblyVars,
                 calls, faults>>

\* The network is down for one of them, or the old handler wrote its error
\* through a dangling reference into the variable of this function.
DialFails ==
  /\ pc = "dial"
  /\ stale' = FALSE
  /\ \E opened \in {broadcast, TRUE} :
       /\ \/ stale /\ opened = broadcast /\ UNCHANGED faults
          \/ Fault
       /\ Raise(/\ udp' = TRUE
                /\ broadcast' = opened
                /\ UNCHANGED <<connected, tcp, inbox, refused>>)
  /\ UNCHANGED <<seqNum, call, running, reader, calls>>

\* broadcastSock.open throws asio's exception when it is open: no
\* DriverException, so getStatus does not catch it, and the scheduler thread
\* ends with it.
DialAlreadyOpen ==
  /\ pc = "dial"
  /\ broadcast
  /\ pc' = IF call = "poll" THEN "terminated" ELSE "idle"
  /\ udp' = TRUE
  /\ script' = << >>
  /\ UNCHANGED <<connected, broadcast, tcp, seqNum, inbox, refused, stale, call, op, got,
                 assemblyVars, calls, faults>>

-----------------------------------------------------------------------------
(* One exchange. *)

\* assertConnected
SendRejected ==
  /\ pc = "send"
  /\ op \notin Forced
  /\ ~connected
  /\ Raise(UNCHANGED <<connected, sockets, inbox, refused>>)
  /\ UNCHANGED <<seqNum, stale, call, running, reader, calls, faults>>

Answer(code) == [seq |-> seqNum, code |-> code, own |-> TRUE]

\* What was left in the socket belongs to an earlier request.
Leftover == [k \in DOMAIN inbox |-> [inbox[k] EXCEPT !.own = FALSE]]

\* The packets of an answer as the network may deliver them.
Deliveries(n) == UNION {[1 .. m -> 1 .. n] : m \in 0 .. n + 1}

Answered(answer) ==
  inbox' = Leftover \o [k \in DOMAIN answer |-> Answer(Code(answer[k]))]

\* The device ends the frame connection when it gets one of these (external).
Cut ==
  IF op \in {"DISCONNECT_SOCK", "STOP"} /\ tcp = "up" THEN tcp' = "cut" ELSE UNCHANGED tcp

\* A slip: the number does not wrap.
SlipNumberGrows ==
  /\ pc = "send"
  /\ op \in Forced \/ connected
  /\ seqNum' = seqNum + 1
  /\ got' = << >>
  /\ pc' = "receive"
  /\ UNCHANGED <<connected, udp, broadcast, stale, call, op, script, assemblyVars, calls>>

Request ==
  /\ pc = "send"
  /\ op \in Forced \/ connected
  /\ seqNum' = (seqNum + 1) % SeqSpace
  /\ got' = << >>
  /\ pc' = "receive"
  /\ UNCHANGED <<connected, udp, broadcast, stale, call, op, script, assemblyVars, calls>>

Send ==
  /\ Request
  /\ Answered([k \in 1 .. Packets(op) |-> k])
  /\ Cut
  /\ UNCHANGED <<refused, faults>>

\* The answer is lost in part or as a whole, duplicated or reordered.
SendDisturbed ==
  /\ Request
  /\ Fault
  /\ \E answer \in Deliveries(Packets(op)) :
       /\ answer # [k \in 1 .. Packets(op) |-> k]
       /\ Answered(answer)
  /\ Cut
  /\ UNCHANGED refused

\* The request is lost; or the device refuses it (UDP_UNK, UDP_ERR, UDP_BSY);
\* or there is nobody at its port, and the socket is told.
SendLost ==
  /\ Request
  /\ Fault
  /\ \/ inbox' = Leftover /\ refused' \in BOOLEAN
     \/ inbox' = Leftover \o <<Answer("ERR")>> /\ UNCHANGED refused
  /\ UNCHANGED tcp

\* A slip: the number of an answer is not compared.
SlipNoNumber(packet) == packet.code = Code(Len(got) + 1)

Fits(packet) == packet.code = Code(Len(got) + 1) /\ packet.seq = OpSeqNum

\* The exchange is complete with its last packet, and after it the call or
\* commandConnect.
ReceiveFits ==
  /\ pc = "receive"
  /\ ~refused
  /\ inbox # << >>
  /\ Fits(Head(inbox))
  /\ inbox' = Tail(inbox)
  /\ got' = Append(got, Head(inbox))
  /\ IF Len(got') < Packets(op)
       THEN UNCHANGED <<pc, op, script, connected, running>>
       ELSE /\ IF script = << >>
                 THEN pc' = "return" /\ op' = "none" /\ UNCHANGED script
                 ELSE pc' = "send" /\ Take(script)
            /\ connected' = (connected \/ op = "DISCONNECT_SOCK")
            /\ running' = (running \/ (op = "DISCONNECT_SOCK" /\ call = "connect"))
  /\ UNCHANGED <<sockets, seqNum, refused, stale, call, reader, status, calls, faults>>

\* A packet with another code or number ends the call; what is still in the
\* socket stays there.
ReceiveWrong ==
  /\ pc = "receive"
  /\ ~refused
  /\ inbox # << >>
  /\ ~Fits(Head(inbox))
  /\ Raise(inbox' = Tail(inbox) /\ UNCHANGED <<connected, sockets, refused>>)
  /\ UNCHANGED <<seqNum, stale, call, running, reader, calls, faults>>

ReceiveError ==
  /\ pc = "receive"
  /\ refused
  /\ Raise(refused' = FALSE /\ UNCHANGED <<connected, sockets, inbox>>)
  /\ UNCHANGED <<seqNum, stale, call, running, reader, calls, faults>>

\* A slip: a time-out closes nothing.
SlipTimeoutKeeps ==
  /\ pc = "receive"
  /\ ~refused
  /\ inbox = << >>
  /\ stale' = TRUE
  /\ Raise(UNCHANGED <<connected, sockets, inbox, refused>>)
  /\ UNCHANGED <<seqNum, call, running, reader, calls, faults>>

\* runUdpContext closes the sockets; the handler of the receive stays behind.
ReceiveTimeout ==
  /\ pc = "receive"
  /\ ~refused
  /\ inbox = << >>
  /\ stale' = TRUE
  /\ Back
  /\ Disconnect
  /\ status' = IF call = "poll" THEN "DISCONNECTED" ELSE status
  /\ UNCHANGED <<seqNum, call, running, reader, calls, faults>>

-----------------------------------------------------------------------------
(* The calls end. *)

\* setExposure finds the exposure shorter than the assembly can do.
ExposureTooLow ==
  /\ pc = "send"
  /\ call = "setExposure"
  /\ op = "READ_TIMER_ENCHANCED"
  /\ Back
  /\ UNCHANGED <<connected, sockets, seqNum, inbox, refused, stale, call, assemblyVars,
                 calls, faults>>

\* frameConnect: a time-out closes the socket and is no error.
FrameConnect ==
  \/ tcp' = "up" /\ UNCHANGED faults
  \/ FrameFaults /\ Fault /\ tcp' \in {"closed", "cut"}

\* The broadcast that starts a reading is sent and not answered.
Return ==
  /\ pc = "return"
  /\ Back
  /\ status' = IF call = "poll" THEN "ALIVE" ELSE status
  /\ reader' = IF call = "connect" THEN "starting" ELSE reader
  /\ IF call = "stopReading" THEN FrameConnect ELSE UNCHANGED <<tcp, faults>>
  /\ seqNum' = IF call = "syncRun" THEN (seqNum + 1) % SeqSpace ELSE seqNum
  /\ UNCHANGED <<connected, udp, broadcast, inbox, refused, stale, call, running, calls>>

\* The reader thread starts; if the connection is refused, its exception is
\* caught by nobody.
ReaderStart ==
  /\ reader = "starting"
  /\ pc # "terminated"
  /\ reader' = "up"
  /\ FrameConnect
  /\ IF tcp' = "cut"
       THEN pc' = "terminated" /\ call' = "none"
       ELSE UNCHANGED <<pc, call>>
  /\ UNCHANGED <<connected, udp, broadcast, seqNum, inbox, refused, stale, op, script,
                 got, running, status, calls>>

-----------------------------------------------------------------------------

Init ==
  /\ connected = FALSE
  /\ udp = FALSE
  /\ broadcast = FALSE
  /\ tcp = "closed"
  /\ seqNum = 1 % SeqSpace
  /\ inbox = << >>
  /\ refused = FALSE
  /\ stale = FALSE
  /\ pc = "idle"
  /\ call = "none"
  /\ op = "none"
  /\ script = << >>
  /\ got = << >>
  /\ running = FALSE
  /\ reader = "none"
  /\ status = "none"
  /\ calls = 0
  /\ faults = 0

\* The call under way goes on, and the reader thread starts.
GoOn ==
  \/ Dial \/ DialFails \/ DialAlreadyOpen
  \/ SendRejected \/ Send \/ SendDisturbed \/ SendLost
  \/ ReceiveFits \/ ReceiveWrong \/ ReceiveError \/ ReceiveTimeout
  \/ ExposureTooLow
  \/ Return

Next == (\E c \in Calls : Begin(c)) \/ GoOn \/ ReaderStart

\* A call goes on, the scheduler polls again and again (checkAssembliesStatusLoop),
\* and a started thread runs.
Fairness == WF_vars(GoOn) /\ WF_vars(Begin("poll")) /\ WF_vars(ReaderStart)

Spec == Init /\ [][Next]_vars /\ Fairness

-----------------------------------------------------------------------------

Packet == [seq : 0 .. SeqSpace - 1, code : {"ACK", "EXT", "ERR"}, own : BOOLEAN]

\* The types of the variables (MasiEthernet's members and what is sent).
TypeOK ==
  /\ connected \in BOOLEAN
  /\ udp \in BOOLEAN
  /\ broadcast \in BOOLEAN
  /\ refused \in BOOLEAN
  /\ stale \in BOOLEAN
  /\ running \in BOOLEAN
  /\ tcp \in {"closed", "up", "cut"}
  /\ seqNum \in 0 .. SeqSpace - 1
  /\ inbox \in Seq(Packet)
  /\ got \in Seq(Packet)
  /\ pc \in {"idle", "dial", "send", "receive", "return", "terminated"}
  /\ call \in Calls \cup {"none"}
  /\ op \in Opcodes \cup {"DISCONNECT_SOCK", "none"}
  /\ script \in Seq(Opcodes)
  /\ reader \in {"none", "starting", "up"}
  /\ status \in {"none", "ALIVE", "DISCONNECTED"}
  /\ calls \in 0 .. MaxCalls
  /\ faults \in 0 .. MaxFaults

\* An exchange takes only packets that answer its own request, whatever was
\* lost, duplicated or left in the socket before (MasiEthernet::receive).
AnswersAreOwn == \A k \in DOMAIN got : got[k].own

\* Between calls, unless a connect has failed, the UDP sockets are open if and
\* only if the assembly counts as connected: a poll leaves nothing half open
\* (MasiEthernet::getStatus, commandConnect).
PollsCleanUp ==
  pc = "idle" /\ (call = "poll" \/ running) => udp = connected /\ broadcast = connected

\* The handler of a receive that timed out, which refers to variables of a
\* function that has ended, is run by connectUdp and never within a later
\* exchange (MasiEthernet::receive, runUdpContext).
StaleRunsBeforeExchanges == stale => pc \notin {"receive", "return"}

\* The command with which commandConnect greets the assembly is under way.
Greeting == pc \in {"send", "receive"} /\ op = "DISCONNECT_SOCK"

\* What makes both hold: how the sockets, the flag and the old handler go
\* together at each place of a call (commandConnect, connectUdp, getStatus,
\* runUdpContext).
SocketsInv ==
  /\ connected => udp /\ broadcast /\ ~stale
  /\ pc \in {"idle", "dial", "return"} => op = "none"
  /\ pc = "dial" => ~connected /\ call \in {"poll", "connect"}
  /\ Greeting => ~connected /\ udp /\ broadcast /\ ~stale /\ call \in {"poll", "connect"}
  /\ pc = "receive" /\ ~Greeting => connected
  /\ pc = "return" => connected
  /\ pc = "send" /\ op = "READ_TIMER" => connected
  /\ call = "connect" /\ (pc = "dial" \/ Greeting) => ~running
  /\ running /\ ~connected /\ pc # "terminated" /\ ~Greeting => ~udp /\ ~broadcast
  /\ pc = "idle" /\ call = "poll" => udp = connected /\ broadcast = connected

\* Once nothing goes wrong any more the polls find the assembly alive, and go
\* on finding it alive, whatever went wrong before - unless an exception that
\* nobody catches has ended the program: connectUdp's when a connect that failed
\* left the broadcast socket open (DialAlreadyOpen), or the reader thread's when
\* its connection is refused (checkAssembliesStatusLoop, getStatus).
Recovers == <>[](status = "ALIVE" \/ pc = "terminated")

==============================================================================
