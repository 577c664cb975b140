--------------------------- MODULE Session_proofs ---------------------------
(***************************************************************************)
(* What one connection keeps, for every number of requests and every       *)
(* length of a file: an operation that is over has left nothing in the     *)
(* stream, and what it reports as done the server has done, unless one of  *)
(* the failures recorded by desynced was met.                              *)
(***************************************************************************)
EXTENDS Session, TLAPS

-----------------------------------------------------------------------------
(* The inductive invariant. *)

\* A run of data is what one request announced: the chunks received of it, those on
\* their way and those the server has yet to send fit in a file.
Run(i, j) == \A k \in (i + 1)..j : toClient[k].type = "data"
Taken(i) == IF i = 0 /\ step = "receive" THEN moved ELSE 0
Coming(j) == IF j = Len(toClient) /\ handler = "stream" /\ alive THEN left ELSE 0
RunsFit ==
    \A i \in 0..Len(toClient) : \A j \in i..Len(toClient) :
        Run(i, j) => Taken(i) + (j - i) + Coming(j) <= MaxChunks

\* Operations run on a connection, and a server is gone only with its link.
Links ==
    /\ step # "idle" => connected
    /\ handler = "closed" => ~alive /\ toServer = <<>>
    /\ step = "reply" => moved = 0

Resting == handler \in {"command", "closed"}

\* The request is on its way.
Asked ==
    /\ step = "reply" /\ handler = "command"
    /\ Len(toServer) = 1 /\ toServer[1].type = op /\ toServer[1].of = id
    /\ toClient = <<>>

\* The request, or its answer, went down with the link.
Lost ==
    /\ step \in {"reply", "confirm", "giveUp"} /\ ~alive
    /\ toServer = <<>> /\ toClient = <<>>

\* The one message that ends the operation is on its way.
Ending ==
    /\ toServer = <<>> /\ Len(toClient) = 1 /\ Resting
    /\ \/ step = "reply" /\ op = "small"
       \/ step = "reply" /\ toClient[1].type = "error"
       \/ step \in {"confirm", "giveUp"}
    /\ \/ toClient[1].type = "error"
       \/ toClient[1].type = "ok" /\ id \in served

\* A file is streamed: RSP_OK, data, and an end behind which there is nothing.
Streaming ==
    /\ op \in Downloads /\ step \in {"reply", "receive", "drain"}
    /\ toServer = <<>> /\ handler \in {"stream", "command", "closed"}
    /\ handler = "stream" => request.of = id
    /\ step = "reply" => toClient # <<>> /\ toClient[1].type = "ok"
    /\ \A i \in 1..Len(toClient) :
        /\ (i = 1 /\ step = "reply") \/ toClient[i].type \in {"data", "done", "part"}
        /\ toClient[i].type \in {"done", "part"}
             => i = Len(toClient) /\ handler # "stream"
        /\ toClient[i].type = "done" => id \in served

\* The server waits for the data of an upload.
Taking == handler \in {"store", "closed"} /\ (handler = "store" => request.of = id)

Opened ==
    /\ op \in Uploads /\ step = "reply" /\ Taking
    /\ toServer = <<>> /\ Len(toClient) = 1 /\ toClient[1].type = "ok"

\* Data are on their way, behind them DONE.
Storing ==
    /\ step \in {"send", "confirm", "giveUp"} /\ Taking
    /\ toClient = <<>>
    /\ \A i \in 1..Len(toServer) :
        \/ toServer[i].type = "data"
        \/ toServer[i].type = "done" /\ i = Len(toServer) /\ step # "send"

Conversation ==
    step # "idle" /\ ~desynced =>
        Asked \/ Lost \/ Ending \/ Streaming \/ Opened \/ Storing

\* Success is recorded behind the server's history, not only at the end.
Success == result = "ok" /\ ~desynced => id \in served

IInv == TypeOK /\ RunsFit /\ Links /\ InSync /\ Conversation /\ Success
-----------------------------------------------------------------------------
(* Streams. *)

\* What reading the head leaves.
LEMMA Reads ==
    ASSUME NEW T, NEW s \in Seq(T), s # <<>>
    PROVE  /\ Len(s) \in Nat /\ Len(s) >= 1
           /\ Head(s) = s[1] /\ s[1] \in T
           /\ Tail(s) \in Seq(T) /\ Len(Tail(s)) = Len(s) - 1
           /\ \A i \in 1..(Len(s) - 1) : Tail(s)[i] = s[i + 1]
  OBVIOUS

\* What sending adds.
LEMMA Sends ==
    ASSUME NEW T, NEW s \in Seq(T), NEW m \in T
    PROVE  /\ Append(s, m) \in Seq(T) /\ Len(Append(s, m)) = Len(s) + 1
           /\ Append(s, m) # <<>>
           /\ \A i \in 1..Len(s) : Append(s, m)[i] = s[i]
           /\ Append(s, m)[Len(s) + 1] = m
  OBVIOUS

\* What is left of a stream that is cut.
LEMMA Cut ==
    ASSUME NEW T, NEW s \in Seq(T), NEW n \in 0..Len(s)
    PROVE  /\ SubSeq(s, 1, n) \in Seq(T) /\ Len(SubSeq(s, 1, n)) = n
           /\ \A i \in 1..n : SubSeq(s, 1, n)[i] = s[i]
  OBVIOUS

\* A stream is empty when its length is 0.
LEMMA Lengths ==
    ASSUME NEW T, NEW s \in Seq(T)
    PROVE  /\ Len(s) \in Nat /\ (s = <<>> <=> Len(s) = 0)
           /\ \A i \in 1..Len(s) : s[i] \in T
  OBVIOUS

\* The flags stay Boolean.
LEMMA FlagTypeKept ==
    ASSUME FlagType, [Next]_vars
    PROVE  FlagType'
  BY DEF FlagType, Refused, Answered, BeginDownload, DestinationFails, BeginUpload,
       NothingToSend, SourceFails, Receive, CancelReceive, ReceiveDone, ReceiveOther,
       DrainData, Drained, Send, SendDone, CancelSend, Confirmed, RecvFails, SendFails,
       Request, Flush, Reconnect, Serve, OpenFails, Open, UnknownCommand, Stream,
       StreamBreaks, StreamDone, Store, StoreFails, StoreDone, StoreOther, ServerCloses,
       LinkDown, Client, Application, Server, Next, vars, clientVars, serverVars

Asking == Messages(Commands \cup {"data", "done"})
Answering == Messages({"ok", "error", "data", "done", "part"})

\* The ways in which the stream to the server changes.
LEMMA ToServer ==
    ASSUME StreamType, ClientType, [Next]_vars
    PROVE  \/ toServer' = toServer
           \/ \E m \in Asking : toServer' = Append(toServer, m)
           \/ toServer # <<>> /\ toServer' = Tail(toServer)
           \/ toServer' = <<>>
           \/ \E n \in 0..Len(toServer) : toServer' = SubSeq(toServer, 1, n)
<1> USE BoundsAssumption
<1>1. CASE Client
  BY <1>1 DEF ClientType, Asking, Messages, Refused, Answered, BeginDownload,
       DestinationFails, BeginUpload, NothingToSend, SourceFails, Receive,
       CancelReceive, ReceiveDone, ReceiveOther, DrainData, Drained, Send, SendDone,
       CancelSend, Confirmed, RecvFails, SendFails, Client, vars, clientVars,
       serverVars, ClientSends, ServerSends, ClientReads, ServerReads, Message
<1>2. CASE Application
  <2>1. ASSUME NEW c \in Commands, NEW n \in 0..MaxChunks, Request(c, n)
        PROVE  \E m \in Asking : toServer' = Append(toServer, m) \/ toServer' = toServer
    <3>1. id' \in 0..MaxOps
      BY <2>1 DEF Request, ClientType
    <3>2. Message(c, id', n) \in Asking
      BY <3>1 DEF Message, Asking, Messages
    <3> QED BY <2>1, <3>2 DEF Request, ClientSends
  <2>2. CASE Flush \/ Reconnect
    BY <2>2 DEF Flush, Reconnect
  <2> QED BY <1>2, <2>1, <2>2 DEF Application
<1>3. CASE Server \/ LinkDown \/ UNCHANGED vars
  BY <1>3 DEF Serve, OpenFails, Open, UnknownCommand, Stream, StreamBreaks,
       StreamDone, Store, StoreFails, StoreDone, StoreOther, ServerCloses, LinkDown,
       Server, vars, clientVars, serverVars, ClientReads, ServerReads, Message
<1> QED BY <1>1, <1>2, <1>3 DEF Next

\* The ways in which the stream to the client changes.
LEMMA ToClient ==
    ASSUME StreamType, ServerType, [Next]_vars
    PROVE  \/ toClient' = toClient
           \/ \E m \in Answering : toClient' = Append(toClient, m)
           \/ toClient # <<>> /\ toClient' = Tail(toClient)
           \/ toClient' = <<>>
           \/ \E n \in 0..Len(toClient) : toClient' = SubSeq(toClient, 1, n)
<1> USE BoundsAssumption
<1>1. CASE Client \/ Application
  BY <1>1 DEF Refused, Answered, BeginDownload, DestinationFails, BeginUpload,
       NothingToSend, SourceFails, Receive, CancelReceive, ReceiveDone, ReceiveOther,
       DrainData, Drained, Send, SendDone, CancelSend, Confirmed, RecvFails, SendFails,
       Request, Flush, Reconnect, Client, Application, vars, clientVars, serverVars,
       ClientReads, ServerReads
<1>2. CASE Server
  <2>1. ASSUME toServer # <<>>
        PROVE  Head(toServer).of \in 0..MaxOps
    <3>1. toServer \in Seq(Asking)
      BY DEF StreamType, Asking
    <3>2. Head(toServer) \in Asking
      BY <2>1, <3>1, Reads
    <3> QED BY <3>2 DEF Asking, Messages
  <2>2. request.of \in 0..MaxOps
    BY DEF ServerType, Messages
  <2> QED
    BY <1>2, <2>1, <2>2 DEF Answering, Messages, Serve, OpenFails, Open,
         UnknownCommand, Stream, StreamBreaks, StreamDone, Store, StoreFails, StoreDone,
         StoreOther, ServerCloses, Server, vars, clientVars, serverVars, ServerSends,
         ClientReads, ServerReads, Message
<1>3. CASE LinkDown \/ UNCHANGED vars
  BY <1>3 DEF LinkDown, vars
<1> QED BY <1>1, <1>2, <1>3 DEF Next

\* The streams carry messages of their own kind.
LEMMA StreamTypeKept ==
    ASSUME StreamType, ClientType, ServerType, [Next]_vars
    PROVE  StreamType'
<1> DEFINE S == Asking  C == Answering
<1>1. toServer \in Seq(S) /\ toClient \in Seq(C)
  BY DEF StreamType, Asking, Answering
<1>2. <<>> \in Seq(S) /\ <<>> \in Seq(C)
  OBVIOUS
<1> HIDE DEF S, C
<1>3. toServer' \in Seq(S)
  <2>1. ASSUME NEW m \in S, toServer' = Append(toServer, m) PROVE toServer' \in Seq(S)
    BY <1>1, <2>1, Sends
  <2>2. ASSUME toServer # <<>>, toServer' = Tail(toServer) PROVE toServer' \in Seq(S)
    BY <1>1, <2>2, Reads
  <2>3. ASSUME NEW n \in 0..Len(toServer), toServer' = SubSeq(toServer, 1, n)
        PROVE  toServer' \in Seq(S)
    BY <1>1, <2>3, Cut
  <2> QED BY <1>1, <1>2, <2>1, <2>2, <2>3, ToServer DEF S
<1>4. toClient' \in Seq(C)
  <2>1. ASSUME NEW m \in C, toClient' = Append(toClient, m) PROVE toClient' \in Seq(C)
    BY <1>1, <2>1, Sends
  <2>2. ASSUME toClient # <<>>, toClient' = Tail(toClient) PROVE toClient' \in Seq(C)
    BY <1>1, <2>2, Reads
  <2>3. ASSUME NEW n \in 0..Len(toClient), toClient' = SubSeq(toClient, 1, n)
        PROVE  toClient' \in Seq(C)
    BY <1>1, <2>3, Cut
  <2> QED BY <1>1, <1>2, <2>1, <2>2, <2>3, ToClient DEF C
<1> QED BY <1>3, <1>4 DEF StreamType, S, C, Asking, Answering

\* What the client keeps stays in range: it receives no more than was announced.
LEMMA ClientTypeKept ==
    ASSUME TypeOK, RunsFit, [Next]_vars
    PROVE  ClientType'
<1> USE BoundsAssumption
<1>1. CASE Receive
  <2>1. toClient \in Seq(Answering) /\ moved \in 0..MaxChunks
    BY DEF TypeOK, StreamType, ClientType, Answering
  <2>2. toClient # <<>> /\ Head(toClient).type = "data" /\ step = "receive"
    BY <1>1 DEF Receive, ClientReads
  <2>3. Len(toClient) \in Nat /\ Len(toClient) >= 1 /\ toClient[1].type = "data"
    BY <2>1, <2>2, Reads
  <2>4. Run(0, 1)
    BY <2>3 DEF Run
  <2>5. Coming(1) \in Nat
    BY DEF Coming, TypeOK, ServerType
  <2>6. moved + 1 + Coming(1) <= MaxChunks
    BY <2>1, <2>2, <2>3, <2>4, <2>5 DEF RunsFit, Taken
  <2>7. moved' = moved + 1 /\ UNCHANGED <<step, op, id, size, result>>
    BY <1>1 DEF Receive
  <2> QED BY <2>1, <2>5, <2>6, <2>7 DEF TypeOK, ClientType
<1>2. CASE Client /\ ~Receive
  BY <1>2 DEF TypeOK, ClientType, Refused, Answered, BeginDownload,
       DestinationFails, BeginUpload, NothingToSend, SourceFails, CancelReceive,
       ReceiveDone, ReceiveOther, DrainData, Drained, Send, SendDone, CancelSend,
       Confirmed, RecvFails, SendFails, Client, vars, clientVars, serverVars
<1>3. CASE Application
  BY <1>3 DEF TypeOK, ClientType, Application, Request, Flush, Reconnect, clientVars
<1>4. CASE Server \/ LinkDown \/ UNCHANGED vars
  BY <1>4 DEF TypeOK, ClientType, Serve, OpenFails, Open, UnknownCommand, Stream,
       StreamBreaks, StreamDone, Store, StoreFails, StoreDone, StoreOther, ServerCloses,
       LinkDown, Server, vars, clientVars, serverVars
<1> QED BY <1>1, <1>2, <1>3, <1>4 DEF Next

\* What the server keeps stays in range.
LEMMA ServerTypeKept ==
    ASSUME TypeOK, [Next]_vars
    PROVE  ServerType'
<1> USE BoundsAssumption
<1>0. toServer # <<>> => Head(toServer) \in Asking
  <2>1. toServer \in Seq(Asking)
    BY DEF TypeOK, StreamType, Asking
  <2> QED BY <2>1, Reads
<1>1. CASE Client \/ Application
  BY <1>1 DEF TypeOK, ServerType, Refused, Answered, BeginDownload,
       DestinationFails, BeginUpload, NothingToSend, SourceFails, Receive,
       CancelReceive, ReceiveDone, ReceiveOther, DrainData, Drained, Send, SendDone,
       CancelSend, Confirmed, RecvFails, SendFails, Request, Flush, Reconnect, Client,
       Application, vars, clientVars, serverVars
<1>2. CASE Open
  <2>1. Head(toServer) \in Messages(Commands) /\ Head(toServer).n \in 0..MaxChunks
    BY <1>0, <1>2 DEF Open, ServerReads, Asking, Messages, Commands
  <2> QED BY <1>2, <2>1 DEF TypeOK, ServerType, Open
<1>3. CASE Server /\ ~Open
  <2>1. request.of \in 0..MaxOps /\ left \in 0..MaxChunks /\ served \subseteq 0..MaxOps
    BY DEF TypeOK, ServerType, Messages
  <2>2. served' \subseteq 0..MaxOps
    <3>1. CASE Serve
      <4>1. Head(toServer).of \in 0..MaxOps
        BY <1>0, <3>1 DEF Asking, Messages, Serve, ServerReads
      <4> QED BY <2>1, <3>1, <4>1 DEF Serve
    <3>2. CASE ~Serve
      BY <1>3, <2>1, <3>2 DEF Server, OpenFails, UnknownCommand, Stream,
           StreamBreaks, StreamDone, Store, StoreFails, StoreDone, StoreOther,
           ServerCloses
    <3> QED BY <3>1, <3>2
  <2>3. left' \in 0..MaxChunks
    BY <1>3, <2>1 DEF serverVars, Server, Serve, OpenFails, UnknownCommand, Stream,
         StreamBreaks, StreamDone, Store, StoreFails, StoreDone, StoreOther,
         ServerCloses
  <2>4. /\ request' = request
        /\ handler' = handler \/ handler' \in {"command", "garbled", "closed"}
    BY <1>3 DEF serverVars, Server, Serve, OpenFails, UnknownCommand, Stream,
         StreamBreaks, StreamDone, Store, StoreFails, StoreDone, StoreOther,
         ServerCloses
  <2> QED BY <2>2, <2>3, <2>4 DEF TypeOK, ServerType
<1>4. CASE LinkDown \/ UNCHANGED vars
  BY <1>4 DEF TypeOK, ServerType, LinkDown, vars, serverVars
<1> QED BY <1>1, <1>2, <1>3, <1>4 DEF Next

\* Every variable stays in its range.
LEMMA TypeKept ==
    ASSUME TypeOK, RunsFit, [Next]_vars
    PROVE  TypeOK'
  BY FlagTypeKept, StreamTypeKept, ClientTypeKept, ServerTypeKept DEF TypeOK

-----------------------------------------------------------------------------
(* Runs of data. *)

\* Nothing moves between the server and the client.
Still ==
    /\ toClient' = toClient
    /\ step' = "receive" => step = "receive" /\ moved' = moved
    /\ handler' = "stream" /\ alive' => handler = "stream" /\ alive /\ left' = left

\* The client takes a message.
Took ==
    /\ toClient # <<>> /\ toClient' = Tail(toClient)
    /\ UNCHANGED <<alive, handler, left>>
    /\ step' = "receive" =>
        \/ step = "receive" /\ moved' = moved + 1 /\ Head(toClient).type = "data"
        \/ step = "reply" /\ moved' = moved

\* The server sends one.
Sent ==
    /\ alive /\ UNCHANGED <<alive, step, moved>>
    /\ \E m \in Answering :
        /\ toClient' = Append(toClient, m)
        /\ m.type = "data" =>
            handler = "stream" /\ handler' = "stream" /\ left > 0 /\ left' = left - 1

Emptied == toClient' = <<>> /\ step' # "receive"

BrokeOff ==
    /\ ~alive' /\ UNCHANGED <<step, moved>>
    /\ \E n \in 0..Len(toClient) : toClient' = SubSeq(toClient, 1, n)

\* Every step is one of these.
LEMMA Kinds ==
    ASSUME TypeOK, [Next]_vars
    PROVE  Still \/ Took \/ Sent \/ Emptied \/ BrokeOff
<1>1. CASE Client
  <2>1. CASE Receive \/ BeginDownload
    BY <2>1 DEF Took, Receive, BeginDownload, ClientReads, serverVars
  <2>2. CASE Send \/ SendDone \/ CancelSend \/ RecvFails \/ SendFails
    BY <2>2 DEF Still, Send, SendDone, CancelSend, RecvFails, SendFails, serverVars
  <2>3. CASE \/ Refused \/ Answered \/ DestinationFails \/ BeginUpload \/ NothingToSend
             \/ SourceFails
             \/ CancelReceive \/ ReceiveDone \/ ReceiveOther \/ DrainData \/ Drained \/ Confirmed
    BY <2>3 DEF Took, Refused, Answered, DestinationFails, BeginUpload,
         NothingToSend, SourceFails, CancelReceive, ReceiveDone, ReceiveOther,
         DrainData, Drained, Confirmed, ClientReads, serverVars, clientVars
  <2> QED BY <1>1, <2>1, <2>2, <2>3 DEF Client
<1>2. CASE Application
  BY <1>2 DEF Still, Emptied, Application, Request, Flush, Reconnect, clientVars, serverVars
<1>3. CASE Server
  <2>1. ASSUME toServer # <<>> PROVE Head(toServer).of \in 0..MaxOps
    <3>1. toServer \in Seq(Asking)
      BY DEF TypeOK, StreamType, Asking
    <3>2. Head(toServer) \in Asking
      BY <2>1, <3>1, Reads
    <3> QED BY <3>2 DEF Asking, Messages
  <2>2. request.of \in 0..MaxOps
    BY DEF TypeOK, ServerType, Messages
  <2>3. CASE alive
    <3>1. ASSUME NEW t \in {"ok", "error", "data", "done", "part"}, NEW o \in 0..MaxOps
          PROVE  Message(t, o, 0) \in Answering /\ Message(t, o, 0).type = t
      BY BoundsAssumption DEF Message, Answering, Messages
    <3>2. CASE Serve \/ OpenFails \/ UnknownCommand
      BY <2>1, <2>3, <3>1, <3>2 DEF Sent, Serve, OpenFails, UnknownCommand,
           ServerReads, ServerSends, clientVars, serverVars
    <3>3. CASE Open
      BY <2>1, <2>3, <3>1, <3>3 DEF Sent, Open, ServerReads, ServerSends, clientVars
    <3>4. CASE Stream \/ StreamBreaks \/ StreamDone
      BY <2>2, <2>3, <3>1, <3>4 DEF Sent, Stream, StreamBreaks, StreamDone, ServerSends, clientVars
    <3>5. CASE StoreFails \/ StoreDone \/ StoreOther
      BY <2>2, <2>3, <3>1, <3>5 DEF Sent, StoreFails, StoreDone, StoreOther, ServerSends, clientVars
    <3>6. CASE Store \/ ServerCloses
      BY <3>6 DEF Still, Store, ServerCloses, clientVars, serverVars
    <3> QED BY <1>3, <3>2, <3>3, <3>4, <3>5, <3>6 DEF Server
  <2>4. CASE ~alive
    BY <1>3, <2>4 DEF Still, ServerSends, Server, Serve, OpenFails, Open,
         UnknownCommand, Stream, StreamBreaks, StreamDone, Store, StoreFails, StoreDone,
         StoreOther, ServerCloses, clientVars, serverVars
  <2> QED BY <2>3, <2>4
<1>4. CASE LinkDown
  BY <1>4 DEF LinkDown, BrokeOff, clientVars
<1>5. CASE UNCHANGED vars
  BY <1>5 DEF vars, clientVars, serverVars, Still
<1> QED BY <1>1, <1>2, <1>3, <1>4, <1>5 DEF Next

\* A run of data stays within what was announced.
LEMMA RunsKept ==
    ASSUME TypeOK, RunsFit, Links, [Next]_vars
    PROVE  RunsFit'
<1> DEFINE C == Answering
<1>1. toClient \in Seq(C) /\ moved \in 0..MaxChunks /\ left \in 0..MaxChunks /\ MaxChunks \in Nat
  BY BoundsAssumption DEF TypeOK, StreamType, ClientType, ServerType, Answering
<1>2. moved' \in 0..MaxChunks /\ left' \in 0..MaxChunks
  BY TypeKept DEF TypeOK, ClientType, ServerType
<1> HIDE DEF C
<1>3. Len(toClient) \in Nat
  BY <1>1, Lengths
<1> SUFFICES ASSUME NEW i \in 0..Len(toClient)', NEW j \in i..Len(toClient)', Run(i, j)'
             PROVE  (Taken(i) + (j - i) + Coming(j) <= MaxChunks)'
  BY DEF RunsFit
<1>4. \A a, b \in Nat : a <= b /\ b <= Len(toClient) /\ Run(a, b)
                            => Taken(a) + (b - a) + Coming(b) <= MaxChunks
  BY <1>3 DEF RunsFit
<1>5. CASE Still
  <2>1. i \in Nat /\ j \in Nat /\ i <= j /\ j <= Len(toClient) /\ Run(i, j)
    BY <1>3, <1>5 DEF Still, Run
  <2>2. Taken(i)' = Taken(i) \/ Taken(i)' = 0
    BY <1>5 DEF Still, Taken
  <2>3. Coming(j)' = Coming(j) \/ Coming(j)' = 0
    BY <1>5 DEF Still, Coming
  <2>4. Taken(i) \in Nat /\ Coming(j) \in Nat
    BY <1>1 DEF Taken, Coming
  <2>5. Taken(i) + (j - i) + Coming(j) <= MaxChunks
    BY <1>4, <2>1
  <2> QED BY <1>1, <2>1, <2>2, <2>3, <2>4, <2>5
<1>6. CASE Took
  <2>1. /\ Len(toClient) >= 1 /\ Head(toClient) = toClient[1] /\ Len(toClient') = Len(toClient) - 1
        /\ \A k \in 1..(Len(toClient) - 1) : toClient'[k] = toClient[k + 1]
    BY <1>1, <1>6, Reads DEF Took
  <2>2. i \in Nat /\ j \in Nat /\ i <= j /\ j + 1 <= Len(toClient)
    BY <1>3, <2>1
  <2>3. Run(i + 1, j + 1)
    <3> SUFFICES ASSUME NEW k \in (i + 2)..(j + 1) PROVE toClient[k].type = "data"
      BY <2>2 DEF Run
    <3>1. k - 1 \in (i + 1)..j /\ k - 1 \in 1..(Len(toClient) - 1) /\ (k - 1) + 1 = k
      BY <1>3, <2>2
    <3>2. toClient'[k - 1] = toClient[k]
      BY <2>1, <3>1
    <3> QED BY <3>1, <3>2 DEF Run
  <2>4. Coming(j)' = Coming(j + 1)
    BY <1>3, <1>6, <2>1, <2>2 DEF Took, Coming
  <2>5. Coming(j + 1) \in Nat /\ Taken(i + 1) = 0
    BY <1>1, <2>2 DEF Coming, Taken
  <2>6. (j - i) + Coming(j + 1) <= MaxChunks
    BY <1>1, <1>3, <1>4, <2>2, <2>3, <2>5
  <2>7. CASE Taken(i)' = 0
    BY <1>1, <2>2, <2>4, <2>5, <2>6, <2>7
  <2>8. CASE i = 0 /\ step' = "receive" /\ moved' # 0
    <3>1. step = "receive" /\ moved' = moved + 1 /\ toClient[1].type = "data"
      BY <1>6, <2>1, <2>8 DEF Took, Links
    <3>2. Run(0, j + 1)
      BY <2>2, <2>3, <2>8, <3>1 DEF Run
    <3>3. moved + (j + 1) + Coming(j + 1) <= MaxChunks
      BY <1>1, <1>4, <2>2, <3>1, <3>2 DEF Taken
    <3> QED BY <1>1, <2>2, <2>4, <2>5, <2>8, <3>1, <3>3 DEF Taken
  <2> QED BY <2>7, <2>8 DEF Taken
<1>7. CASE Sent
  <2>1. PICK m \in Answering :
          /\ toClient' = Append(toClient, m)
          /\ m.type = "data" =>
              handler = "stream" /\ handler' = "stream" /\ left > 0 /\ left' = left - 1
    BY <1>7 DEF Sent
  <2>2. /\ Len(toClient') = Len(toClient) + 1 /\ toClient'[Len(toClient) + 1] = m
        /\ \A k \in 1..Len(toClient) : toClient'[k] = toClient[k]
    BY <1>1, <2>1, Sends DEF C
  <2>3. i \in Nat /\ j \in Nat /\ i <= j /\ j <= Len(toClient) + 1
    BY <1>3, <2>2
  <2>4. Taken(i)' = Taken(i) /\ Taken(i) \in Nat
    BY <1>1, <1>7 DEF Sent, Taken
  <2>5. CASE j <= Len(toClient)
    <3>1. Run(i, j)
      BY <1>3, <2>2, <2>3, <2>5 DEF Run
    <3>2. Coming(j)' = 0 /\ Coming(j) \in Nat
      BY <1>1, <1>3, <2>2, <2>3, <2>5 DEF Coming
    <3>3. Taken(i) + (j - i) + Coming(j) <= MaxChunks
      BY <1>4, <2>3, <2>5, <3>1
    <3> QED BY <1>1, <2>3, <2>4, <3>2, <3>3
  <2>6. CASE i = Len(toClient) + 1
    <3>1. j = i /\ i # 0 /\ Taken(i) = 0
      BY <1>3, <2>3, <2>6 DEF Taken
    <3>2. Coming(j)' \in 0..MaxChunks
      BY <1>1, <1>2 DEF Coming
    <3> QED BY <1>1, <2>3, <2>4, <3>1, <3>2
  <2>7. CASE j = Len(toClient) + 1 /\ i <= Len(toClient)
    <3>1. m.type = "data"
      <4>1. j \in (i + 1)..j
        BY <1>3, <2>3, <2>7
      <4> QED BY <2>2, <2>7, <4>1 DEF Run
    <3>2. Run(i, Len(toClient))
      BY <1>3, <2>2, <2>3, <2>7 DEF Run
    <3>3. Taken(i) + (Len(toClient) - i) + Coming(Len(toClient)) <= MaxChunks
      BY <1>3, <1>4, <2>3, <2>7, <3>2
    <3>4. Coming(Len(toClient)) = left
      BY <1>7, <2>1, <3>1 DEF Coming, Sent
    <3>5. Coming(j)' \in Int /\ Coming(j)' <= left - 1
      BY <1>1, <1>2, <1>7, <2>1, <2>2, <2>7, <3>1 DEF Coming, Sent
    <3> QED BY <1>1, <1>3, <2>3, <2>4, <2>7, <3>3, <3>4, <3>5
  <2> QED BY <1>3, <2>3, <2>5, <2>6, <2>7
<1>8. CASE Emptied
  <2>1. Len(toClient') = 0
    BY <1>8 DEF Emptied
  <2>2. i = 0 /\ j = 0 /\ Taken(i)' = 0 /\ Coming(j)' \in 0..MaxChunks
    BY <1>1, <1>2, <1>8, <2>1 DEF Emptied, Taken, Coming
  <2> QED BY <1>1, <2>2
<1>9. CASE BrokeOff
  <2>1. PICK n \in 0..Len(toClient) : toClient' = SubSeq(toClient, 1, n)
    BY <1>9 DEF BrokeOff
  <2>2. Len(toClient') = n /\ \A k \in 1..n : toClient'[k] = toClient[k]
    BY <1>1, <2>1, Cut
  <2>3. i \in Nat /\ j \in Nat /\ i <= j /\ j <= Len(toClient) /\ Run(i, j)
    BY <1>3, <2>2 DEF Run
  <2>4. Taken(i)' = Taken(i) /\ Coming(j)' = 0
    BY <1>9 DEF BrokeOff, Taken, Coming
  <2>5. Taken(i) \in Nat /\ Coming(j) \in Nat
    BY <1>1 DEF Taken, Coming
  <2>6. Taken(i) + (j - i) + Coming(j) <= MaxChunks
    BY <1>4, <2>3
  <2> QED BY <1>1, <2>3, <2>4, <2>5, <2>6
<1> QED BY <1>5, <1>6, <1>7, <1>8, <1>9, Kinds

\* A call runs on a connection; a server is gone only with its link.
LEMMA LinksKept ==
    ASSUME TypeOK, Links, [Next]_vars
    PROVE  Links'
<1>1. step' # "idle" => connected'
  BY DEF Links, Refused, Answered, BeginDownload, DestinationFails, BeginUpload,
       NothingToSend, SourceFails, Receive, CancelReceive, ReceiveDone, ReceiveOther,
       DrainData, Drained, Send, SendDone, CancelSend, Confirmed, RecvFails, SendFails,
       Request, Flush, Reconnect, Serve, OpenFails, Open, UnknownCommand, Stream,
       StreamBreaks, StreamDone, Store, StoreFails, StoreDone, StoreOther, ServerCloses,
       LinkDown, Client, Application, Server, Next, vars, clientVars, serverVars
<1>2. step' = "reply" => moved' = 0
  BY DEF Links, Refused, Answered, BeginDownload, DestinationFails, BeginUpload,
       NothingToSend, SourceFails, Receive, CancelReceive, ReceiveDone, ReceiveOther,
       DrainData, Drained, Send, SendDone, CancelSend, Confirmed, RecvFails, SendFails,
       Request, Flush, Reconnect, Serve, OpenFails, Open, UnknownCommand, Stream,
       StreamBreaks, StreamDone, Store, StoreFails, StoreDone, StoreOther, ServerCloses,
       LinkDown, Client, Application, Server, Next, vars, clientVars, serverVars
<1>3. handler' = "closed" => ~alive' /\ toServer' = <<>>
  <2>1. CASE handler = "closed" /\ handler' = "closed" /\ ~Reconnect /\ ~LinkDown
    BY <2>1 DEF Links, ClientSends, Refused, Answered, BeginDownload,
         DestinationFails, BeginUpload, NothingToSend, SourceFails, Receive,
         CancelReceive, ReceiveDone, ReceiveOther, DrainData, Drained, Send, SendDone,
         CancelSend, Confirmed, RecvFails, SendFails, Request, Flush, Serve, OpenFails,
         Open, UnknownCommand, Stream, StreamBreaks, StreamDone, Store, StoreFails,
         StoreDone, StoreOther, ServerCloses, Client, Application, Server, Next, vars,
         clientVars, serverVars, ClientSends
  <2>2. CASE handler = "closed" /\ LinkDown
    BY <2>2 DEF Links, LinkDown
  <2>3. CASE handler # "closed" /\ handler' = "closed"
    BY <2>3 DEF Links, Refused, Answered, BeginDownload, DestinationFails,
         BeginUpload, NothingToSend, SourceFails, Receive, CancelReceive, ReceiveDone,
         ReceiveOther, DrainData, Drained, Send, SendDone, CancelSend, Confirmed,
         RecvFails, SendFails, Request, Flush, Reconnect, Serve, OpenFails, Open,
         UnknownCommand, Stream, StreamBreaks, StreamDone, Store, StoreFails, StoreDone,
         StoreOther, ServerCloses, LinkDown, Client, Application, Server, Next, vars,
         clientVars, serverVars
  <2>4. CASE Reconnect
    BY <2>4 DEF Reconnect
  <2> QED BY <2>1, <2>2, <2>3, <2>4
<1> QED BY <1>1, <1>2, <1>3 DEF Links

-----------------------------------------------------------------------------
(* The conversation. *)

Talk == TypeOK /\ Links /\ InSync /\ Conversation /\ Success
Keeps == InSync' /\ Conversation' /\ Success'

\* What is known of a stream that is read from.
LEMMA ClientTakes ==
    ASSUME TypeOK, NEW types, ClientReads(types)
    PROVE  /\ toClient # <<>> /\ Len(toClient) \in Nat /\ Len(toClient) >= 1
           /\ toClient[1].type \in types /\ Head(toClient) = toClient[1]
           /\ Len(toClient') = Len(toClient) - 1
           /\ Len(toClient) = 1 => toClient' = <<>>
           /\ \A i \in 1..(Len(toClient) - 1) : toClient'[i] = toClient[i + 1]
<1>1. toClient \in Seq(Answering)
  BY DEF TypeOK, StreamType, Answering
<1>2. toClient # <<>> /\ toClient' = Tail(toClient) /\ Head(toClient).type \in types
  BY DEF ClientReads
<1>3. Tail(toClient) \in Seq(Answering) /\ Len(Tail(toClient)) = Len(toClient) - 1
  BY <1>1, <1>2, Reads
<1>4. Len(toClient) = 1 => Tail(toClient) = <<>>
  BY <1>3, Lengths
<1> QED BY <1>1, <1>2, <1>3, <1>4, Reads

\* The same of the stream to the server.
LEMMA ServerTakes ==
    ASSUME TypeOK, NEW types, ServerReads(types)
    PROVE  /\ toServer # <<>> /\ Len(toServer) \in Nat /\ Len(toServer) >= 1
           /\ toServer[1].type \in types /\ Head(toServer) = toServer[1]
           /\ Len(toServer') = Len(toServer) - 1
           /\ Len(toServer) = 1 => toServer' = <<>>
           /\ \A i \in 1..(Len(toServer) - 1) : toServer'[i] = toServer[i + 1]
<1>1. toServer \in Seq(Asking)
  BY DEF TypeOK, StreamType, Asking
<1>2. toServer # <<>> /\ toServer' = Tail(toServer) /\ Head(toServer).type \in types
  BY DEF ServerReads
<1>3. Tail(toServer) \in Seq(Asking) /\ Len(Tail(toServer)) = Len(toServer) - 1
  BY <1>1, <1>2, Reads
<1>4. Len(toServer) = 1 => Tail(toServer) = <<>>
  BY <1>3, Lengths
<1> QED BY <1>1, <1>2, <1>3, <1>4, Reads

\* An operation that ends by the last message has left nothing.
LEMMA Finishing ==
    ASSUME Talk, Refused \/ Answered \/ Drained \/ Confirmed
    PROVE  Keeps
<1> USE DEF Talk, Keeps
<1>1. PICK types \in SUBSET {"ok", "error", "data", "done"} : ClientReads(types)
  BY DEF Refused, Answered, Drained, Confirmed
<1>2. /\ toClient # <<>> /\ Len(toClient) \in Nat /\ Len(toClient) >= 1
      /\ Head(toClient) = toClient[1]
      /\ Len(toClient) = 1 => toClient' = <<>>
  BY <1>1, ClientTakes
<1>3. /\ step' = "idle" /\ step # "idle"
      /\ UNCHANGED <<connected, alive, toServer, handler, id, served, desynced>>
  BY DEF Refused, Answered, Drained, Confirmed, serverVars
<1>4. Conversation'
  BY <1>3 DEF Conversation
<1>5. ASSUME ~desynced
      PROVE  /\ Len(toClient) = 1 /\ toServer = <<>> /\ Resting
             /\ result' = "ok" => id \in served
  <2>1. CASE Refused
    <3>1. step = "reply" /\ toClient[1].type \in {"error", "data", "done"} /\ result' = result
      BY <1>2, <2>1 DEF Refused, ClientReads
    <3>2. Ending
      BY <1>2, <1>5, <3>1 DEF Conversation, Asked, Lost, Streaming, Opened, Storing
    <3> QED BY <1>5, <3>1, <3>2 DEF Ending, Success
  <2>2. CASE Answered
    <3>1. step = "reply" /\ op = "small" /\ toClient[1].type = "ok"
      BY <1>2, <2>2 DEF Answered, ClientReads
    <3>2. Ending
      BY <1>2, <1>5, <3>1 DEF Conversation, Asked, Lost, Streaming, Opened,
           Storing, Downloads, Uploads
    <3> QED BY <3>1, <3>2 DEF Ending
  <2>3. CASE Drained
    <3>1. step = "drain" /\ toClient[1].type \in {"done", "ok", "error"} /\ result' = result
      BY <1>2, <2>3 DEF Drained, ClientReads
    <3>2. Streaming
      BY <1>2, <1>5, <3>1 DEF Conversation, Asked, Lost, Ending, Opened, Storing
    <3>3. 1 \in 1..Len(toClient)
      BY <1>2
    <3> QED BY <1>5, <3>1, <3>2, <3>3 DEF Streaming, Resting, Success
  <2>4. CASE Confirmed
    <3>1. /\ step \in {"confirm", "giveUp"}
          /\ result' = IF step = "giveUp" \/ toClient[1].type = "error" THEN "failed" ELSE "ok"
      BY <1>2, <2>4 DEF Confirmed
    <3>2. Ending
      BY <1>2, <1>5, <3>1 DEF Conversation, Asked, Lost, Streaming, Opened, Storing
    <3> QED BY <3>1, <3>2 DEF Ending
  <2> QED BY <2>1, <2>2, <2>3, <2>4
<1> QED BY <1>2, <1>3, <1>4, <1>5 DEF InSync, Success, Quiet, Resting

\* A call that is given up with the connection claims nothing.
LEMMA GivingUp ==
    ASSUME Talk, RecvFails \/ SendFails \/ SourceFails \/ ReceiveOther
    PROVE  Keeps
<1> USE DEF Talk, Keeps
<1>1. CASE RecvFails \/ SendFails
  <2>1. step' = "idle" /\ ~connected' /\ UNCHANGED <<id, served, desynced>>
    BY <1>1 DEF RecvFails, SendFails, serverVars
  <2>2. result' = "ok" => result = "ok"
    BY <1>1 DEF RecvFails, SendFails
  <2> QED BY <2>1, <2>2 DEF InSync, Conversation, Success
<1>2. CASE SourceFails
  BY <1>2 DEF SourceFails, InSync, Conversation, Success
<1>3. CASE ReceiveOther
  <2>1. ClientReads({"ok", "error"}) /\ step = "receive" /\ desynced' = desynced
    BY <1>3 DEF ReceiveOther
  <2>2. Len(toClient) \in Nat /\ Len(toClient) >= 1 /\ toClient[1].type \in {"ok", "error"}
    BY <2>1, ClientTakes
  <2>3. 1 \in 1..Len(toClient)
    BY <2>2
  <2>4. desynced
    BY <2>1, <2>2, <2>3 DEF Conversation, Asked, Lost, Ending, Streaming, Opened, Storing
  <2> QED BY <2>1, <2>4 DEF InSync, Conversation, Success
<1> QED BY <1>1, <1>2, <1>3

\* The messages of a download are taken one by one.
LEMMA Downloading ==
    ASSUME Talk,
           \/ BeginDownload \/ DestinationFails \/ Receive
           \/ CancelReceive \/ ReceiveDone \/ DrainData
    PROVE  Keeps
<1> USE DEF Talk, Keeps
<1>1. PICK types \in SUBSET {"ok", "data", "done"} : ClientReads(types)
  BY DEF BeginDownload, DestinationFails, Receive, CancelReceive, ReceiveDone, DrainData
<1>2. /\ toClient # <<>> /\ Len(toClient) \in Nat /\ Len(toClient) >= 1
      /\ Len(toClient') = Len(toClient) - 1
      /\ Len(toClient) = 1 => toClient' = <<>>
      /\ Head(toClient) = toClient[1]
      /\ \A i \in 1..(Len(toClient) - 1) : toClient'[i] = toClient[i + 1]
  BY <1>1, ClientTakes
<1>3. UNCHANGED <<connected, alive, toServer, op, id, handler, request, served>> /\ step # "idle"
  BY DEF BeginDownload, DestinationFails, Receive, CancelReceive, ReceiveDone, DrainData,
     serverVars, clientVars
<1>4. CASE desynced'
  BY <1>4 DEF InSync, Conversation, Success
<1>5. CASE ~desynced'
  <2>1. ~desynced
    <3>1. CASE DestinationFails
      BY <1>5, <3>1 DEF DestinationFails, TypeOK, FlagType
    <3>2. CASE ~DestinationFails
      BY <1>5, <3>2 DEF BeginDownload, Receive, CancelReceive, ReceiveDone, DrainData
    <3> QED BY <3>1, <3>2
  <2>2. \/ step = "reply" /\ op \in Downloads /\ toClient[1].type = "ok"
        \/ step \in {"receive", "drain"}
    BY <1>2 DEF BeginDownload, DestinationFails, Receive, CancelReceive, ReceiveDone, DrainData,
       ClientReads, Downloads
  <2>3. Streaming
    BY <1>2, <2>1, <2>2 DEF Conversation, Asked, Lost, Ending, Opened, Storing, Downloads, Uploads
  <2>4. /\ step' \in {"receive", "drain", "idle"}
        /\ step' = "idle" => step = "receive" /\ toClient[1].type = "done"
        /\ result' = "ok" => result = "ok" \/ toClient[1].type = "done"
    BY <1>2, <1>5 DEF BeginDownload, DestinationFails, Receive, CancelReceive,
         ReceiveDone, DrainData, ClientReads, clientVars, Downloads
  <2>5. 1 \in 1..Len(toClient)
    BY <1>2
  <2>6. Success'
    BY <1>3, <2>1, <2>3, <2>4, <2>5 DEF Success, Streaming
  <2>7. CASE step' = "idle"
    BY <1>2, <1>3, <2>3, <2>4, <2>5, <2>6, <2>7 DEF InSync, Conversation, Quiet, Streaming
  <2>8. CASE step' # "idle"
    <3>1. ASSUME NEW i \in 1..Len(toClient')
          PROVE  /\ toClient'[i].type \in {"data", "done", "part"}
                 /\ toClient'[i].type \in {"done", "part"}
                      => i = Len(toClient') /\ handler # "stream"
                 /\ toClient'[i].type = "done" => id \in served
      <4>1. i \in 1..(Len(toClient) - 1) /\ i + 1 \in 1..Len(toClient) /\ i + 1 # 1
        BY <1>2
      <4>2. toClient'[i] = toClient[i + 1]
        BY <1>2, <4>1
      <4>3. /\ toClient[i + 1].type \in {"data", "done", "part"}
            /\ toClient[i + 1].type \in {"done", "part"}
                 => i + 1 = Len(toClient) /\ handler # "stream"
            /\ toClient[i + 1].type = "done" => id \in served
        BY <2>3, <4>1 DEF Streaming
      <4> QED BY <1>2, <4>1, <4>2, <4>3
    <3>2. Streaming'
      BY <1>3, <2>3, <2>4, <2>8, <3>1 DEF Streaming
    <3> QED BY <2>6, <2>8, <3>2 DEF InSync, Conversation
  <2> QED BY <2>7, <2>8
<1> QED BY <1>4, <1>5

\* An upload is begun, its data sent, its end announced.
LEMMA Uploading ==
    ASSUME Talk, BeginUpload \/ NothingToSend \/ Send \/ SendDone \/ CancelSend
    PROVE  Keeps
<1> USE DEF Talk, Keeps
<1>1. UNCHANGED <<connected, alive, op, id, result, handler, request, served, desynced>>
  BY DEF BeginUpload, NothingToSend, Send, SendDone, CancelSend, serverVars
<1>2. step # "idle" /\ step' # "idle"
  BY DEF BeginUpload, NothingToSend, Send, SendDone, CancelSend
<1>3. Success' /\ InSync'
  BY <1>1, <1>2 DEF Success, InSync
<1>4. ASSUME ~desynced PROVE Storing'
  <2>1. CASE BeginUpload \/ NothingToSend
    <3>1. PICK types \in SUBSET {"ok"} : ClientReads(types)
      BY <2>1 DEF BeginUpload, NothingToSend
    <3>2. toClient # <<>> /\ toClient[1].type = "ok" /\ (Len(toClient) = 1 => toClient' = <<>>)
      BY <3>1, ClientTakes
    <3>3. step = "reply" /\ op \in Uploads
      BY <2>1 DEF BeginUpload, NothingToSend, Uploads
    <3>4. Opened
      BY <1>4, <3>2, <3>3 DEF Conversation, Asked, Lost, Ending, Streaming,
           Storing, Uploads, Downloads
    <3>5. toServer = <<>> /\ toClient' = <<>> /\ Taking'
      BY <1>1, <3>2, <3>4 DEF Opened, Taking
    <3>6. CASE BeginUpload
      <4>1. step' = "send" /\ Len(toServer') = 0
        BY <3>5, <3>6 DEF BeginUpload
      <4> QED BY <3>5, <4>1 DEF Storing
    <3>7. CASE NothingToSend /\ alive
      <4>1. step' = "giveUp" /\ toServer' = <<Message("done", id, 0)>>
        BY <3>5, <3>7 DEF NothingToSend, ClientSends
      <4>2. Len(toServer') = 1 /\ toServer'[1].type = "done"
        BY <4>1 DEF Message
      <4> QED BY <3>5, <4>1, <4>2 DEF Storing
    <3>8. CASE NothingToSend /\ ~alive
      <4>1. step' = "giveUp" /\ Len(toServer') = 0
        BY <3>5, <3>8 DEF NothingToSend, ClientSends
      <4> QED BY <3>5, <4>1 DEF Storing
    <3> QED BY <2>1, <3>6, <3>7, <3>8
  <2>2. CASE Send \/ SendDone \/ CancelSend
    <3>1. step = "send" /\ toClient' = toClient /\ step' \in {"send", "confirm", "giveUp"}
      BY <2>2 DEF Send, SendDone, CancelSend
    <3>2. Storing
      BY <1>4, <3>1 DEF Conversation, Asked, Lost, Ending, Streaming, Opened
    <3>3. toServer \in Seq(Asking) /\ id \in 0..MaxOps
      BY DEF TypeOK, StreamType, ClientType, Asking
    <3>4. \A i \in 1..Len(toServer) : toServer[i].type = "data"
      BY <3>1, <3>2 DEF Storing
    <3>5. Taking' /\ toClient' = <<>>
      BY <1>1, <3>1, <3>2 DEF Storing, Taking
    <3>6. CASE alive
      <4>1. PICK m \in {Message("data", id, 0), Message("done", id, 0)} :
               toServer' = Append(toServer, m) /\ (m.type = "done" => step' # "send")
        BY <2>2, <3>6 DEF Send, SendDone, CancelSend, ClientSends, Message
      <4>2. m \in Asking /\ m.type \in {"data", "done"}
        BY <3>3, BoundsAssumption DEF Asking, Messages, Message
      <4>3. /\ Len(toServer) \in Nat /\ Len(toServer') = Len(toServer) + 1
            /\ \A i \in 1..Len(toServer) : toServer'[i] = toServer[i]
            /\ toServer'[Len(toServer) + 1] = m
        BY <3>3, <4>1, <4>2, Sends, Lengths
      <4> QED BY <3>1, <3>4, <3>5, <4>1, <4>2, <4>3 DEF Storing
    <3>7. CASE ~alive
      <4>1. toServer' = toServer
        BY <2>2, <3>7 DEF Send, SendDone, CancelSend, ClientSends
      <4> QED BY <3>1, <3>4, <3>5, <4>1 DEF Storing
    <3> QED BY <3>6, <3>7
  <2> QED BY <2>1, <2>2
<1> QED BY <1>1, <1>3, <1>4 DEF Conversation

\* A new request meets a quiet connection, or one that is out of step.
LEMMA Requesting ==
    ASSUME Talk, NEW c \in Commands, NEW n \in 0..MaxChunks, Request(c, n)
    PROVE  Keeps
<1> USE DEF Talk, Keeps
<1>1. /\ step = "idle" /\ connected /\ step' = "reply" /\ op' = c /\ result' = "failed"
      /\ UNCHANGED <<connected, alive, toClient, handler, desynced>>
      /\ ClientSends(Message(c, id', n))
  BY DEF Request, serverVars
<1>2. Success' /\ InSync'
  BY <1>1 DEF Success, InSync
<1>3. ASSUME ~desynced PROVE (Asked \/ Lost)'
  <2>1. Quiet
    BY <1>1, <1>3 DEF InSync
  <2>2. CASE alive
    <3>1. toServer' = <<Message(c, id', n)>> /\ handler = "command"
      BY <1>1, <2>1, <2>2 DEF ClientSends, Quiet, Links
    <3>2. Len(toServer') = 1 /\ toServer'[1].type = c /\ toServer'[1].of = id'
      BY <3>1 DEF Message
    <3> QED BY <1>1, <2>1, <3>1, <3>2 DEF Asked, Quiet
  <2>3. CASE ~alive
    BY <1>1, <2>1, <2>3 DEF ClientSends, Quiet, Lost
  <2> QED BY <2>2, <2>3
<1> QED BY <1>1, <1>2, <1>3 DEF Conversation

\* Between operations the connection is emptied or replaced.
LEMMA Between ==
    ASSUME Talk, Flush \/ Reconnect
    PROVE  Keeps
<1> USE DEF Talk, Keeps
<1>1. CASE Flush
  BY <1>1 DEF Flush, InSync, Conversation, Success, Quiet, clientVars, serverVars
<1>2. CASE Reconnect
  BY <1>2 DEF Reconnect, InSync, Conversation, Success, Quiet
<1> QED BY <1>1, <1>2

\* The server answers what ends an operation at once.
LEMMA Serving ==
    ASSUME Talk, Serve \/ OpenFails \/ Open \/ UnknownCommand
    PROVE  Keeps
<1> USE DEF Talk, Keeps
<1>1. /\ UNCHANGED <<connected, alive, step, op, id, result, desynced>>
      /\ handler = "command" /\ served \subseteq served'
  BY DEF Serve, OpenFails, Open, UnknownCommand, clientVars, serverVars
<1>2. PICK types \in SUBSET (Commands \cup {"data", "done"}) : ServerReads(types)
  BY DEF Serve, OpenFails, Open, UnknownCommand, Commands
<1>3. /\ toServer # <<>> /\ Len(toServer) \in Nat /\ Len(toServer) >= 1
      /\ Head(toServer) = toServer[1]
      /\ Len(toServer) = 1 => toServer' = <<>>
  BY <1>2, ServerTakes
<1>4. Success'
  BY <1>1 DEF Success
<1>5. InSync'
  BY <1>1, <1>3 DEF InSync, Quiet
<1>6. ASSUME ~desynced, step # "idle" PROVE Conversation'
  <2>1. 1 \in 1..Len(toServer)
    BY <1>3
  <2>2. Asked
    BY <1>1, <1>3, <1>6, <2>1 DEF Conversation, Lost, Ending, Streaming, Opened, Storing, Taking
  <2>3. /\ step = "reply" /\ toServer[1].type = op /\ toServer[1].of = id
        /\ toServer' = <<>> /\ toClient = <<>>
    BY <1>3, <2>2 DEF Asked
  <2>4. op \in Commands
    BY DEF TypeOK, ClientType
  <2>5. ~UnknownCommand
    BY <1>3, <2>3, <2>4 DEF UnknownCommand, ServerReads, Commands, Downloads, Uploads
  <2>6. CASE ~alive
    <3>1. toClient' = <<>>
      BY <2>3, <2>6 DEF Serve, OpenFails, Open, UnknownCommand, ServerSends
    <3>2. Lost'
      BY <1>1, <2>3, <2>6, <3>1 DEF Lost
    <3> QED BY <3>2 DEF Conversation
  <2>7. CASE alive /\ Serve
    <3>1. handler' = "command" /\ op = "small"
      BY <1>3, <2>3, <2>7 DEF Serve, ServerReads, serverVars
    <3>2. PICK t \in {"ok", "error"} :
               toClient' = <<Message(t, id, 0)>> /\ (t = "ok" => id \in served')
      BY <1>3, <2>3, <2>7 DEF Serve, ServerSends
    <3>3. Len(toClient') = 1 /\ toClient'[1].type = t
      BY <3>2 DEF Message
    <3>4. Ending'
      BY <1>1, <2>3, <3>1, <3>2, <3>3 DEF Ending, Resting
    <3> QED BY <3>4 DEF Conversation
  <2>8. CASE alive /\ OpenFails
    <3>1. handler' = "command"
      BY <1>1, <2>8 DEF OpenFails, serverVars
    <3>2. toClient' = <<Message("error", id, 0)>>
      BY <1>3, <2>3, <2>8 DEF OpenFails, ServerSends
    <3>3. Len(toClient') = 1 /\ toClient'[1].type = "error"
      BY <3>2 DEF Message
    <3>4. Ending'
      BY <1>1, <2>3, <3>1, <3>3 DEF Ending, Resting
    <3> QED BY <3>4 DEF Conversation
  <2>9. CASE alive /\ Open
    <3>1. /\ op \in Downloads \cup Uploads /\ request'.of = id
          /\ handler' = IF op \in Downloads THEN "stream" ELSE "store"
      BY <1>3, <2>3, <2>9 DEF Open, ServerReads
    <3>2. toClient' = <<Message("ok", id, 0)>>
      BY <1>3, <2>3, <2>9 DEF Open, ServerSends
    <3>3. Len(toClient') = 1 /\ toClient'[1].type = "ok" /\ toClient' # <<>>
      BY <3>2 DEF Message
    <3>4. CASE op \in Downloads
      <4>1. Streaming'
        BY <1>1, <2>3, <3>1, <3>3, <3>4 DEF Streaming
      <4> QED BY <4>1 DEF Conversation
    <3>5. CASE op \in Uploads
      <4>1. handler' = "store"
        BY <3>1, <3>5 DEF Downloads, Uploads
      <4>2. Opened'
        BY <1>1, <2>3, <3>1, <3>3, <3>5, <4>1 DEF Opened, Taking
      <4> QED BY <4>2 DEF Conversation
    <3> QED BY <3>1, <3>4, <3>5
  <2> QED BY <2>5, <2>6, <2>7, <2>8, <2>9
<1> QED BY <1>1, <1>4, <1>5, <1>6 DEF Conversation

\* The server sends a file: data, then an end.
LEMMA SendingFile ==
    ASSUME Talk, Stream \/ StreamBreaks \/ StreamDone
    PROVE  Keeps
<1> USE DEF Talk, Keeps
<1>1. /\ UNCHANGED <<connected, alive, step, op, id, result, desynced, toServer, request>>
      /\ handler = "stream" /\ handler' \in {"stream", "command"} /\ served \subseteq served'
  BY DEF Stream, StreamBreaks, StreamDone, clientVars
<1>2. Success'
  BY <1>1 DEF Success
<1>3. InSync'
  BY <1>1 DEF InSync, Quiet
<1>4. ASSUME ~desynced, step # "idle", Streaming PROVE Streaming'
  <2>1. CASE alive
    <3>1. PICK t \in {"data", "part", "done"} :
             /\ toClient' = Append(toClient, Message(t, request.of, 0))
             /\ t \in {"part", "done"} => handler' = "command"
             /\ t = "done" => request.of \in served'
      BY <2>1 DEF Stream, StreamBreaks, StreamDone, ServerSends
    <3>2. toClient \in Seq(Answering) /\ request.of \in 0..MaxOps
      BY DEF TypeOK, StreamType, ServerType, Answering, Messages
    <3>3. Message(t, request.of, 0) \in Answering /\ Message(t, request.of, 0).type = t
      BY <3>2, BoundsAssumption DEF Answering, Messages, Message
    <3>4. /\ Len(toClient) \in Nat /\ Len(toClient') = Len(toClient) + 1 /\ toClient' # <<>>
          /\ \A i \in 1..Len(toClient) : toClient'[i] = toClient[i]
          /\ toClient'[Len(toClient) + 1].type = t
      BY <3>1, <3>2, <3>3, Sends, Lengths
    <3>5. /\ request.of = id
          /\ step = "reply" => toClient # <<>> /\ toClient[1].type = "ok" /\ Len(toClient) >= 1
      BY <1>1, <1>4, <3>2, <3>4, Lengths DEF Streaming
    <3>6. ASSUME NEW i \in 1..Len(toClient')
          PROVE  /\ (i = 1 /\ step = "reply") \/ toClient'[i].type \in {"data", "done", "part"}
                 /\ toClient'[i].type \in {"done", "part"}
                      => i = Len(toClient') /\ handler' # "stream"
                 /\ toClient'[i].type = "done" => id \in served'
      <4>1. CASE i \in 1..Len(toClient)
        BY <1>1, <1>4, <3>4, <4>1 DEF Streaming
      <4>2. CASE i = Len(toClient) + 1
        BY <3>1, <3>4, <3>5, <4>2
      <4> QED BY <3>4, <4>1, <4>2
    <3>7. step = "reply" => toClient'[1].type = "ok"
      BY <3>4, <3>5
    <3> QED BY <1>1, <1>4, <3>4, <3>5, <3>6, <3>7 DEF Streaming
  <2>2. CASE ~alive
    <3>1. toClient' = toClient
      BY <2>2 DEF Stream, StreamBreaks, StreamDone, ServerSends
    <3> QED BY <1>1, <1>4, <3>1 DEF Streaming
  <2> QED BY <2>1, <2>2
<1>5. ASSUME ~desynced, step # "idle" PROVE Lost \/ Streaming
  BY <1>1, <1>5 DEF Conversation, Asked, Ending, Opened, Storing, Taking, Resting
<1>6. CASE Lost
  <2>1. toClient' = toClient
    BY <1>6 DEF Lost, Stream, StreamBreaks, StreamDone, ServerSends
  <2> QED BY <1>1, <1>2, <1>3, <1>6, <2>1 DEF Lost, Conversation
<1> QED BY <1>1, <1>2, <1>3, <1>4, <1>5, <1>6 DEF Conversation

\* The server stores what comes, and confirms its end.
LEMMA TakingFile ==
    ASSUME Talk, Store \/ StoreFails \/ StoreDone \/ StoreOther
    PROVE  Keeps
<1> USE DEF Talk, Keeps
<1>1. /\ UNCHANGED <<connected, alive, step, op, id, result, request>>
      /\ handler = "store" /\ served \subseteq served'
  BY DEF Store, StoreFails, StoreDone, StoreOther, clientVars, serverVars
<1>2. PICK types \in SUBSET (Commands \cup {"data", "done"}) : ServerReads(types)
  BY DEF Store, StoreFails, StoreDone, StoreOther
<1>3. /\ toServer # <<>> /\ Len(toServer) \in Nat /\ Len(toServer) >= 1
      /\ Head(toServer) = toServer[1]
      /\ Len(toServer') = Len(toServer) - 1
      /\ Len(toServer) = 1 => toServer' = <<>>
      /\ \A i \in 1..(Len(toServer) - 1) : toServer'[i] = toServer[i + 1]
  BY <1>2, ServerTakes
<1>4. CASE StoreFails
  BY <1>1, <1>4 DEF StoreFails, InSync, Conversation, Success
<1>5. CASE ~StoreFails
  <2>1. desynced' = desynced
    BY <1>5 DEF Store, StoreDone, StoreOther
  <2>2. Success'
    BY <1>1, <2>1 DEF Success
  <2>3. InSync'
    BY <1>1, <1>3, <2>1 DEF InSync, Quiet
  <2>4. ASSUME ~desynced, step # "idle" PROVE Conversation'
    <3>1. 1 \in 1..Len(toServer)
      BY <1>3
    <3>2. Storing
      BY <1>1, <1>3, <2>4, <3>1 DEF Conversation, Asked, Lost, Ending, Streaming, Opened, Resting
    <3>3. toClient = <<>> /\ request.of = id /\ step \in {"send", "confirm", "giveUp"}
      BY <1>1, <3>2 DEF Storing, Taking
    <3>4. ~StoreOther
      BY <1>3, <3>1, <3>2 DEF Storing, StoreOther, ServerReads, Commands, Downloads, Uploads
    <3>5. CASE Store
      <4>1. toClient' = <<>> /\ Taking'
        BY <1>1, <3>2, <3>3, <3>5 DEF Store, Storing, Taking, serverVars
      <4>2. ASSUME NEW i \in 1..Len(toServer')
            PROVE  \/ toServer'[i].type = "data"
                   \/ toServer'[i].type = "done" /\ i = Len(toServer') /\ step # "send"
        <5>1. i \in 1..(Len(toServer) - 1) /\ i + 1 \in 1..Len(toServer)
          BY <1>3
        <5>2. toServer'[i] = toServer[i + 1]
          BY <1>3, <5>1
        <5> QED BY <1>3, <3>2, <5>1, <5>2 DEF Storing
      <4>3. Storing'
        BY <1>1, <3>3, <4>1, <4>2 DEF Storing
      <4> QED BY <4>3 DEF Conversation
    <3>6. CASE StoreDone
      <4>1. toServer[1].type = "done"
        BY <1>3, <3>6 DEF StoreDone, ServerReads
      <4>2. Len(toServer) = 1 /\ step \in {"confirm", "giveUp"} /\ toServer' = <<>>
        BY <1>3, <3>1, <3>2, <3>3, <4>1 DEF Storing
      <4>3. handler' = "command"
        BY <3>6 DEF StoreDone
      <4>4. CASE alive
        <5>1. PICK t \in {"ok", "error"} :
               toClient' = <<Message(t, id, 0)>> /\ (t = "ok" => id \in served')
          BY <3>3, <3>6, <4>4 DEF StoreDone, ServerSends
        <5>2. Len(toClient') = 1 /\ toClient'[1].type = t
          BY <5>1 DEF Message
        <5>3. Ending'
          BY <1>1, <4>2, <4>3, <5>1, <5>2 DEF Ending, Resting
        <5> QED BY <5>3 DEF Conversation
      <4>5. CASE ~alive
        <5>1. toClient' = <<>>
          BY <3>3, <3>6, <4>5 DEF StoreDone, ServerSends
        <5>2. Lost'
          BY <1>1, <4>2, <4>5, <5>1 DEF Lost
        <5> QED BY <5>2 DEF Conversation
      <4> QED BY <4>4, <4>5
    <3> QED BY <1>5, <3>4, <3>5, <3>6
  <2> QED BY <1>1, <2>1, <2>2, <2>3, <2>4 DEF Conversation
<1> QED BY <1>4, <1>5

\* A server that goes finds nothing to read.
LEMMA Closing ==
    ASSUME Talk, ServerCloses
    PROVE  Keeps
<1> USE DEF Talk, Keeps
<1>1. /\ UNCHANGED <<connected, alive, toServer, toClient, step, op, id, result, request, served>>
      /\ desynced' = desynced
      /\ handler' = "closed" /\ ~alive /\ toServer = <<>>
  BY DEF ServerCloses, clientVars
<1>2. Success' /\ InSync'
  BY <1>1 DEF Success, InSync, Quiet
<1>3. ~Asked
  BY <1>1 DEF Asked
<1>4. /\ Lost => Lost'
      /\ Ending => Ending'
      /\ Opened => Opened'
      /\ Storing => Storing'
  BY <1>1 DEF Lost, Ending, Opened, Storing, Taking, Resting
<1>5. Streaming => Streaming'
  BY <1>1 DEF Streaming
<1> QED BY <1>1, <1>2, <1>3, <1>4, <1>5 DEF Conversation

\* What the link loses is at the end of the streams.
LEMMA GoingDown ==
    ASSUME Talk, LinkDown
    PROVE  Keeps
<1> USE DEF Talk, Keeps
<1>1. UNCHANGED <<connected, step, op, id, result, handler, request, served, desynced>> /\ ~alive'
  BY DEF LinkDown, clientVars, serverVars
<1>2. toServer \in Seq(Asking) /\ toClient \in Seq(Answering)
  BY DEF TypeOK, StreamType, Asking, Answering
<1>3. PICK k \in 0..Len(toServer) : toServer' = SubSeq(toServer, 1, k)
  BY DEF LinkDown
<1>4. PICK n \in 0..Len(toClient) : toClient' = SubSeq(toClient, 1, n)
  BY DEF LinkDown
<1>5. /\ Len(toServer') = k /\ \A i \in 1..k : toServer'[i] = toServer[i]
      /\ Len(toServer) \in Nat /\ (toServer = <<>> <=> Len(toServer) = 0)
      /\ toServer' = <<>> <=> k = 0
  <2>1. /\ toServer' \in Seq(Asking) /\ Len(toServer') = k
        /\ \A i \in 1..k : toServer'[i] = toServer[i]
    BY <1>2, <1>3, Cut
  <2>2. Len(toServer) \in Nat /\ (toServer = <<>> <=> Len(toServer) = 0)
    BY <1>2, Lengths
  <2>3. toServer' = <<>> <=> Len(toServer') = 0
    BY <2>1, Lengths
  <2> QED BY <2>1, <2>2, <2>3
<1>6. /\ Len(toClient') = n /\ \A i \in 1..n : toClient'[i] = toClient[i]
      /\ Len(toClient) \in Nat /\ (toClient = <<>> <=> Len(toClient) = 0)
      /\ toClient' = <<>> <=> n = 0
  <2>1. /\ toClient' \in Seq(Answering) /\ Len(toClient') = n
        /\ \A i \in 1..n : toClient'[i] = toClient[i]
    BY <1>2, <1>4, Cut
  <2>2. Len(toClient) \in Nat /\ (toClient = <<>> <=> Len(toClient) = 0)
    BY <1>2, Lengths
  <2>3. toClient' = <<>> <=> Len(toClient') = 0
    BY <2>1, Lengths
  <2> QED BY <2>1, <2>2, <2>3
<1>7. Success'
  BY <1>1 DEF Success
<1>8. InSync'
  BY <1>1, <1>5, <1>6 DEF InSync, Quiet
<1>9. ASSUME ~desynced, step # "idle" PROVE Conversation'
  <2>1. CASE Asked
    <3>1. CASE k = 0
      BY <1>1, <1>5, <1>6, <2>1, <3>1 DEF Asked, Lost, Conversation
    <3>2. CASE k # 0
      BY <1>1, <1>5, <1>6, <2>1, <3>2 DEF Asked, Conversation
    <3> QED BY <3>1, <3>2
  <2>2. CASE Lost
    BY <1>1, <1>5, <1>6, <2>2 DEF Lost, Conversation
  <2>3. CASE Ending
    <3>1. CASE n = 0
      BY <1>1, <1>5, <1>6, <2>3, <3>1 DEF Ending, Lost, Conversation
    <3>2. CASE n # 0
      <4>1. n = 1 /\ toServer' = <<>> /\ toClient'[1] = toClient[1]
        BY <1>5, <1>6, <2>3, <3>2 DEF Ending
      <4>2. Ending'
        BY <1>1, <1>6, <2>3, <4>1 DEF Ending, Resting
      <4> QED BY <4>2 DEF Conversation
    <3> QED BY <3>1, <3>2
  <2>4. CASE Streaming
    <3>1. toServer' = <<>>
      BY <1>5, <2>4 DEF Streaming
    <3>2. CASE n = 0 /\ step = "reply"
      BY <1>1, <1>6, <3>1, <3>2 DEF Lost, Conversation
    <3>3. CASE n # 0 \/ step # "reply"
      <4>1. step = "reply" => toClient' # <<>> /\ toClient'[1].type = "ok"
        BY <1>6, <2>4, <3>3 DEF Streaming
      <4>2. ASSUME NEW i \in 1..Len(toClient')
            PROVE  /\ (i = 1 /\ step = "reply") \/ toClient'[i].type \in {"data", "done", "part"}
                   /\ toClient'[i].type \in {"done", "part"}
                        => i = Len(toClient') /\ handler # "stream"
                   /\ toClient'[i].type = "done" => id \in served
        <5>1. i \in 1..Len(toClient) /\ toClient'[i] = toClient[i] /\ i <= Len(toClient')
          BY <1>6
        <5> QED BY <1>6, <2>4, <5>1 DEF Streaming
      <4>3. Streaming'
        BY <1>1, <2>4, <3>1, <4>1, <4>2 DEF Streaming
      <4> QED BY <4>3 DEF Conversation
    <3> QED BY <3>2, <3>3
  <2>5. CASE Opened
    <3>1. CASE n = 0
      BY <1>1, <1>5, <1>6, <2>5, <3>1 DEF Opened, Lost, Conversation
    <3>2. CASE n # 0
      <4>1. n = 1 /\ toServer' = <<>> /\ toClient'[1] = toClient[1]
        BY <1>5, <1>6, <2>5, <3>2 DEF Opened
      <4>2. Opened'
        BY <1>1, <1>6, <2>5, <4>1 DEF Opened, Taking
      <4> QED BY <4>2 DEF Conversation
    <3> QED BY <3>1, <3>2
  <2>6. CASE Storing
    <3>1. toClient' = <<>>
      BY <1>6, <2>6 DEF Storing
    <3>2. ASSUME NEW i \in 1..Len(toServer')
          PROVE  \/ toServer'[i].type = "data"
                 \/ toServer'[i].type = "done" /\ i = Len(toServer') /\ step # "send"
      <4>1. i \in 1..Len(toServer) /\ toServer'[i] = toServer[i] /\ i <= Len(toServer')
        BY <1>5
      <4> QED BY <1>5, <2>6, <4>1 DEF Storing
    <3>3. Storing'
      BY <1>1, <2>6, <3>1, <3>2 DEF Storing, Taking
    <3> QED BY <3>3 DEF Conversation
  <2> QED BY <1>9, <2>1, <2>2, <2>3, <2>4, <2>5, <2>6 DEF Conversation
<1> QED BY <1>1, <1>7, <1>8, <1>9 DEF Conversation

-----------------------------------------------------------------------------
(* Theorems. *)

\* The invariant holds at first.
LEMMA InitInv == Init => IInv
<1> SUFFICES ASSUME Init PROVE IInv
  OBVIOUS
<1> USE BoundsAssumption DEF Init
<1>1. TypeOK
  <2>1. FlagType
    BY DEF FlagType
  <2>2. StreamType
    BY DEF StreamType
  <2>3. ClientType
    BY DEF ClientType, Commands
  <2>4. request \in Messages(Commands)
    BY DEF Messages, Message, Commands
  <2>5. ServerType
    BY <2>4 DEF ServerType
  <2> QED BY <2>1, <2>2, <2>3, <2>5 DEF TypeOK
<1>2. RunsFit
  BY DEF RunsFit, Taken, Coming
<1>3. Links /\ InSync /\ Conversation /\ Success
  BY DEF Links, InSync, Quiet, Conversation, Success
<1> QED BY <1>1, <1>2, <1>3 DEF IInv

\* Every step preserves it.
LEMMA StepInv ==
    ASSUME IInv, [Next]_vars
    PROVE  IInv'
<1> USE DEF IInv
<1>1. TypeOK' /\ RunsFit' /\ Links'
  BY TypeKept, RunsKept, LinksKept
<1>2. Talk
  BY DEF Talk
<1>3. Keeps
  <2>1. CASE Client
    BY <1>2, <2>1, Finishing, GivingUp, Downloading, Uploading DEF Client
  <2>2. CASE Application
    BY <1>2, <2>2, Requesting, Between DEF Application
  <2>3. CASE Server
    BY <1>2, <2>3, Serving, SendingFile, TakingFile, Closing DEF Server
  <2>4. CASE LinkDown
    BY <1>2, <2>4, GoingDown
  <2>5. CASE UNCHANGED vars
    BY <2>5 DEF vars, clientVars, serverVars, Keeps, InSync, Quiet, Conversation,
         Success, Asked, Lost, Ending, Streaming, Opened, Storing, Taking, Resting
  <2> QED BY <2>1, <2>2, <2>3, <2>4, <2>5 DEF Next
<1> QED BY <1>1, <1>3 DEF Keeps

\* The inductive invariant of a connection, for every number of requests and
\* every length of a file (device_client.cpp, afm-server.cpp).
THEOREM Invariance == Spec => []IInv
<1>1. Init => IInv
  BY InitInv
<1>2. IInv /\ [Next]_vars => IInv'
  BY StepInv
<1> QED BY <1>1, <1>2, PTL DEF Spec

\* Every variable keeps its range: in particular a download never receives more
\* chunks than its file was announced with, also behind an answer of another request.
THEOREM TypeCorrect == Spec => []TypeOK
<1>1. IInv => TypeOK
  BY DEF IInv
<1> QED BY <1>1, Invariance, PTL

\* Whatever was refused, cancelled, broken off or timed out: a connection that is
\* kept is quiet between two operations, unless one of the recorded failures was met.
THEOREM StreamInSync == Spec => []InSync
<1>1. IInv => InSync
  BY DEF IInv
<1> QED BY <1>1, Invariance, PTL

\* An operation that returns success was carried out for this very request.
THEOREM SuccessMeansServed == Spec => []SuccessIsServed
<1>1. IInv => SuccessIsServed
  BY DEF IInv, Success, SuccessIsServed
<1> QED BY <1>1, Invariance, PTL

=============================================================================
