------------------------------ MODULE Session ------------------------------
(***************************************************************************)
(* One connection between a DeviceClient and afm-server: the operations    *)
(* the client runs under m_mutex, the two directions of the TCP stream and *)
(* the command loop handle_client with its handlers.  No message carries   *)
(* the number of the request it belongs to: an answer is matched with its  *)
(* request by its place in the stream alone, so every operation has to     *)
(* leave the stream empty, or give the connection up.                      *)
(***************************************************************************)
EXTENDS Integers, Sequences

CONSTANTS
    MaxOps,     \* bound: requests made
    MaxChunks   \* bound: chunks of a file

ASSUME BoundsAssumption == MaxOps \in Nat /\ MaxChunks \in Nat

Downloads == {"pull", "resumePull", "readRange"}
Uploads == {"push", "resumePush", "writeRange"}
Commands == {"small"} \cup Downloads \cup Uploads

VARIABLES
    connected,  \* m_connected
    alive,      \* the link works
    toServer,   \* what the client has sent and the server not read
    toClient,   \* what the server has sent and the client not read
    step,       \* where the client's operation is
    op,         \* its command
    id,         \* history: its number; messages carry it only for the properties
    size,       \* chunks of the file it moves
    moved,      \* chunks it has sent or received
    result,     \* what it will return
    handler,    \* where the server is
    request,    \* the request it handles
    left,       \* chunks it has still to send
    served,     \* history: requests the server carried out
    desynced    \* history: a path was taken that leaves the stream unread

clientVars == <<step, op, id, size, moved, result>>
serverVars == <<handler, request, left>>
vars == <<connected, alive, toServer, toClient, clientVars, serverVars, served, desynced>>

Message(type, of, n) == [type |-> type, of |-> of, n |-> n]

Init ==
    /\ connected = TRUE /\ alive = TRUE
    /\ toServer = <<>> /\ toClient = <<>>
    /\ step = "idle" /\ op = "small" /\ id = 0 /\ size = 0 /\ moved = 0 /\ result = "none"
    /\ handler = "command" /\ request = Message("small", 0, 0) /\ left = 0
    /\ served = {} /\ desynced = FALSE

\* Sending and receiving.  What is sent over a dead link is lost.
ClientSends(m) == toServer' = IF alive THEN Append(toServer, m) ELSE toServer
ServerSends(m) == toClient' = IF alive THEN Append(toClient, m) ELSE toClient
ClientReads(types) ==
    /\ toClient # <<>> /\ Head(toClient).type \in types
    /\ toClient' = Tail(toClient)
ServerReads(types) ==
    /\ toServer # <<>> /\ Head(toServer).type \in types
    /\ toServer' = Tail(toServer)

-----------------------------------------------------------------------------
(* The client. *)

Request(c, n) ==
    /\ step = "idle" /\ connected /\ id < MaxOps
    /\ id' = id + 1 /\ op' = c /\ size' = n /\ moved' = 0 /\ result' = "failed"
    /\ ClientSends(Message(c, id', n))
    /\ step' = "reply"
    /\ UNCHANGED <<connected, alive, toClient, serverVars, served, desynced>>

\* An error, or anything but RSP_OK, ends the operation.
Refused ==
    /\ step = "reply" /\ ClientReads({"error", "data", "done"})
    /\ step' = "idle"
    /\ UNCHANGED <<connected, alive, toServer, op, id, size, moved, result, serverVars, served, desynced>>

Answered ==
    /\ step = "reply" /\ op = "small" /\ ClientReads({"ok"})
    /\ result' = "ok"
    /\ step' = "idle"
    /\ UNCHANGED <<connected, alive, toServer, op, id, size, moved, serverVars, served, desynced>>

BeginDownload ==
    /\ step = "reply" /\ op \in Downloads /\ ClientReads({"ok"})
    /\ step' = "receive"
    /\ UNCHANGED <<connected, alive, toServer, op, id, size, moved, result, serverVars, served, desynced>>

\* pullFile reads the data it cannot store; resumePullFile just returns.
DestinationFails ==
    /\ step = "reply" /\ op \in {"pull", "resumePull"} /\ ClientReads({"ok"})
    /\ step' = IF op = "pull" THEN "drain" ELSE "idle"
    /\ desynced' = (desynced \/ op = "resumePull")
    /\ UNCHANGED <<connected, alive, toServer, op, id, size, moved, result, serverVars, served>>

\* There is a first chunk to read, or nothing is left of a resumed push.
BeginUpload ==
    /\ step = "reply" /\ op \in Uploads /\ ClientReads({"ok"})
    /\ op # "resumePush" => size > 0
    /\ step' = "send"
    /\ UNCHANGED <<connected, alive, toServer, op, id, size, moved, result, serverVars, served, desynced>>

\* Nothing can be read from the source: DONE, the confirmation, failure.
NothingToSend ==
    /\ step = "reply" /\ op \in {"push", "writeRange"} /\ ClientReads({"ok"})
    /\ ClientSends(Message("done", id, 0))
    /\ step' = "giveUp"
    /\ UNCHANGED <<connected, alive, op, id, size, moved, result, serverVars, served, desynced>>

\* The source cannot be opened: DONE is sent, its confirmation not read.
SourceFails ==
    /\ step = "reply" /\ op \in {"push", "resumePush"} /\ ClientReads({"ok"})
    /\ ClientSends(Message("done", id, 0))
    /\ step' = "idle"
    /\ desynced' = TRUE
    /\ UNCHANGED <<connected, alive, op, id, size, moved, result, serverVars, served>>

\* pullFile asks the progress callback about the chunks behind the first.
Receive ==
    /\ step = "receive" /\ ClientReads({"data"})
    /\ moved' = moved + 1
    /\ UNCHANGED <<connected, alive, toServer, step, op, id, size, result, serverVars, served, desynced>>

\* Mutant of CancelReceive: the rest is left in the stream.
CancelReceiveAtOnce ==
    /\ step = "receive" /\ (op = "pull" => moved > 0) /\ ClientReads({"data"})
    /\ step' = "idle"
    /\ UNCHANGED <<connected, alive, toServer, op, id, size, moved, result, serverVars, served, desynced>>

CancelReceive ==
    /\ step = "receive" /\ (op = "pull" => moved > 0) /\ ClientReads({"data"})
    /\ step' = "drain"
    /\ UNCHANGED <<connected, alive, toServer, op, id, size, moved, result, serverVars, served, desynced>>

\* resumePullFile drains whatever came, RSP_DONE too.
ReceiveDone ==
    /\ step = "receive" /\ ClientReads({"done"})
    /\ result' = "ok"
    /\ step' = IF op = "resumePull" THEN "drain" ELSE "idle"
    /\ UNCHANGED <<connected, alive, toServer, op, id, size, moved, serverVars, served, desynced>>

\* Neither data nor DONE.  A pull drains from here.
ReceiveOther ==
    /\ step = "receive" /\ ClientReads({"ok", "error"})
    /\ step' = IF op = "readRange" THEN "idle" ELSE "drain"
    /\ UNCHANGED <<connected, alive, toServer, op, id, size, moved, result, serverVars, served, desynced>>

DrainData ==
    /\ step = "drain" /\ ClientReads({"data"})
    /\ UNCHANGED <<connected, alive, toServer, clientVars, serverVars, served, desynced>>

Drained ==
    /\ step = "drain" /\ ClientReads({"done", "ok", "error"})
    /\ step' = "idle"
    /\ UNCHANGED <<connected, alive, toServer, op, id, size, moved, result, serverVars, served, desynced>>

Send ==
    /\ step = "send" /\ moved < size
    /\ ClientSends(Message("data", id, 0))
    /\ moved' = moved + 1
    /\ UNCHANGED <<connected, alive, toClient, step, op, id, size, result, serverVars, served, desynced>>

\* The file ends, or cannot be read further, which is not told from its end.
SendDone ==
    /\ step = "send" /\ (moved = 0 => op = "resumePush")
    /\ ClientSends(Message("done", id, 0))
    /\ step' = "confirm"
    /\ UNCHANGED <<connected, alive, toClient, op, id, size, moved, result, serverVars, served, desynced>>

CancelSend ==
    /\ step = "send" /\ moved > 0
    /\ ClientSends(Message("done", id, 0))
    /\ step' = "giveUp"
    /\ UNCHANGED <<connected, alive, toClient, op, id, size, moved, result, serverVars, served, desynced>>

\* Mutant of Confirmed: an error is not looked at.
ConfirmedByAnything ==
    /\ step \in {"confirm", "giveUp"} /\ ClientReads({"ok", "error", "data", "done"})
    /\ result' = IF step = "giveUp" THEN "failed" ELSE "ok"
    /\ step' = "idle"
    /\ UNCHANGED <<connected, alive, toServer, op, id, size, moved, serverVars, served, desynced>>

Confirmed ==
    /\ step \in {"confirm", "giveUp"} /\ ClientReads({"ok", "error", "data", "done"})
    /\ result' = IF step = "giveUp" \/ Head(toClient).type = "error" THEN "failed" ELSE "ok"
    /\ step' = "idle"
    /\ UNCHANGED <<connected, alive, toServer, op, id, size, moved, serverVars, served, desynced>>

Waiting == step \in {"reply", "receive", "drain", "confirm", "giveUp"}
Starved == toClient # <<>> => Head(toClient).type = "part"

\* Mutant of RecvFails: no receive timeout.
RecvFailsWhenDown ==
    /\ Waiting /\ Starved /\ ~alive
    /\ connected' = FALSE
    /\ result' = IF step = "confirm" THEN "unconfirmed" ELSE result
    /\ step' = "idle"
    /\ UNCHANGED <<alive, toServer, toClient, op, id, size, moved, serverVars, served, desynced>>

\* Nothing comes for ten seconds, or the link is down: the connection is given
\* up.  An upload whose confirmation does not come is taken for done.
RecvFails ==
    /\ Waiting /\ Starved
    /\ connected' = FALSE
    /\ result' = IF step = "confirm" THEN "unconfirmed" ELSE result
    /\ step' = "idle"
    /\ UNCHANGED <<alive, toServer, toClient, op, id, size, moved, serverVars, served, desynced>>

SendFails ==
    /\ step = "send" /\ ~alive
    /\ connected' = FALSE
    /\ step' = "idle"
    /\ UNCHANGED <<alive, toServer, toClient, op, id, size, moved, result, serverVars, served, desynced>>

\* flushStaleData: what has come by now is thrown away.
Flush ==
    /\ step = "idle" /\ connected /\ toClient # <<>>
    /\ toClient' = <<>>
    /\ UNCHANGED <<connected, alive, toServer, clientVars, serverVars, served, desynced>>

\* startServer: a new server process and a new connection.
Reconnect ==
    /\ step = "idle" /\ ~connected
    /\ connected' = TRUE /\ alive' = TRUE
    /\ toServer' = <<>> /\ toClient' = <<>>
    /\ handler' = "command" /\ desynced' = FALSE
    /\ result' = "none"
    /\ UNCHANGED <<step, op, id, size, moved, request, left, served>>

-----------------------------------------------------------------------------
(* The server: handle_client and the handlers. *)

Serve ==
    /\ handler = "command" /\ ServerReads({"small"})
    /\ \/ ServerSends(Message("ok", Head(toServer).of, 0)) /\ served' = served \cup {Head(toServer).of}
       \/ ServerSends(Message("error", Head(toServer).of, 0)) /\ UNCHANGED served
    /\ UNCHANGED <<connected, alive, clientVars, serverVars, desynced>>

\* The file cannot be opened, or the writer thread not started.
OpenFails ==
    /\ handler = "command" /\ ServerReads(Downloads \cup Uploads)
    /\ ServerSends(Message("error", Head(toServer).of, 0))
    /\ UNCHANGED <<connected, alive, clientVars, serverVars, served, desynced>>

Open ==
    /\ handler = "command" /\ ServerReads(Downloads \cup Uploads)
    /\ request' = Head(toServer)
    /\ left' = IF Head(toServer).type \in Downloads THEN Head(toServer).n ELSE 0
    /\ handler' = IF Head(toServer).type \in Downloads THEN "stream" ELSE "store"
    /\ ServerSends(Message("ok", Head(toServer).of, 0))
    /\ UNCHANGED <<connected, alive, clientVars, served, desynced>>

\* Data or DONE where a command is expected: "Unknown command".
UnknownCommand ==
    /\ handler = "command" /\ ServerReads({"data", "done"})
    /\ ServerSends(Message("error", Head(toServer).of, 0))
    /\ UNCHANGED <<connected, alive, clientVars, serverVars, served, desynced>>

Stream ==
    /\ handler = "stream" /\ left > 0
    /\ left' = left - 1
    /\ ServerSends(Message("data", request.of, 0))
    /\ UNCHANGED <<connected, alive, toServer, clientVars, handler, request, served, desynced>>

\* The file turns out shorter than it was: less than the announced chunk is sent.
StreamBreaks ==
    /\ handler = "stream" /\ left > 0
    /\ ServerSends(Message("part", request.of, 0))
    /\ handler' = "command"
    /\ UNCHANGED <<connected, alive, toServer, clientVars, request, left, served, desynced>>

StreamDone ==
    /\ handler = "stream" /\ left = 0
    /\ ServerSends(Message("done", request.of, 0))
    /\ served' = served \cup {request.of}
    /\ handler' = "command"
    /\ UNCHANGED <<connected, alive, toServer, clientVars, request, left, desynced>>

Store ==
    /\ handler = "store" /\ ServerReads({"data"})
    /\ UNCHANGED <<connected, alive, toClient, clientVars, serverVars, served, desynced>>

\* The writer has failed: the error is sent at once, before the client's DONE.
StoreFails ==
    /\ handler = "store" /\ ServerReads({"data"})
    /\ ServerSends(Message("error", request.of, 0))
    /\ handler' = "command"
    /\ desynced' = TRUE
    /\ UNCHANGED <<connected, alive, clientVars, request, left, served>>

StoreDone ==
    /\ handler = "store" /\ ServerReads({"done"})
    /\ \/ ServerSends(Message("ok", request.of, 0)) /\ served' = served \cup {request.of}
       \/ ServerSends(Message("error", request.of, 0)) /\ UNCHANGED served
    /\ handler' = "command"
    /\ UNCHANGED <<connected, alive, clientVars, request, left, desynced>>

\* A command where data is expected: its payload is not read and will be taken
\* for headers, which mean nothing.
StoreOther ==
    /\ handler = "store" /\ ServerReads(Commands)
    /\ ServerSends(Message("error", request.of, 0))
    /\ handler' = "garbled"
    /\ UNCHANGED <<connected, alive, clientVars, request, left, served, desynced>>

\* The link is down: recv or send fails and the handler ends.
ServerCloses ==
    /\ ~alive /\ toServer = <<>> /\ handler # "closed"
    /\ handler' = "closed"
    /\ UNCHANGED <<connected, alive, toServer, toClient, clientVars, request, left, served, desynced>>

LinkDown ==
    /\ alive /\ connected
    /\ alive' = FALSE
    /\ \E n \in 0..Len(toServer) : toServer' = SubSeq(toServer, 1, n)
    /\ \E n \in 0..Len(toClient) : toClient' = SubSeq(toClient, 1, n)
    /\ UNCHANGED <<connected, clientVars, serverVars, served, desynced>>

-----------------------------------------------------------------------------
Client ==
    \/ Refused \/ Answered \/ BeginDownload \/ DestinationFails
    \/ BeginUpload \/ NothingToSend \/ SourceFails
    \/ Receive \/ CancelReceive \/ ReceiveDone \/ ReceiveOther \/ DrainData \/ Drained
    \/ Send \/ SendDone \/ CancelSend \/ Confirmed \/ RecvFails \/ SendFails

Application ==
    \/ \E c \in Commands, n \in 0..MaxChunks : (c = "small" => n = 0) /\ Request(c, n)
    \/ Flush \/ Reconnect

Server ==
    \/ Serve \/ OpenFails \/ Open \/ UnknownCommand
    \/ Stream \/ StreamBreaks \/ StreamDone
    \/ Store \/ StoreFails \/ StoreDone \/ StoreOther \/ ServerCloses

Next == Client \/ Application \/ Server \/ LinkDown

\* A begun operation goes on: it is a call.  Nothing is assumed of the server.
Spec == Init /\ [][Next]_vars /\ WF_vars(Client)

-----------------------------------------------------------------------------
Messages(types) == [type : types, of : 0..MaxOps, n : 0..MaxChunks]

FlagType == connected \in BOOLEAN /\ alive \in BOOLEAN /\ desynced \in BOOLEAN
StreamType ==
    /\ toServer \in Seq(Messages(Commands \cup {"data", "done"}))
    /\ toClient \in Seq(Messages({"ok", "error", "data", "done", "part"}))
ClientType ==
    /\ step \in {"idle", "reply", "receive", "drain", "send", "confirm", "giveUp"}
    /\ op \in Commands /\ id \in 0..MaxOps
    /\ size \in 0..MaxChunks /\ moved \in 0..MaxChunks
    /\ result \in {"none", "failed", "ok", "unconfirmed"}
ServerType ==
    /\ handler \in {"command", "stream", "store", "garbled", "closed"}
    /\ request \in Messages(Commands) /\ left \in 0..MaxChunks
    /\ served \subseteq 0..MaxOps

TypeOK == FlagType /\ StreamType /\ ClientType /\ ServerType

Quiet == toServer = <<>> /\ toClient = <<>> /\ handler \in {"command", "closed"}

\* Whatever was refused, cancelled, broken off or timed out, between two
\* operations a connection that is kept has nothing in flight and a server that
\* waits for a command, unless one of the failures was met that leave the stream
\* unread.
InSync == step = "idle" /\ connected /\ ~desynced => Quiet

\* An operation that returns success was carried out by the server for this
\* very request; only an upload whose confirmation never came is not known to be.
SuccessIsServed == step = "idle" /\ result = "ok" /\ ~desynced => id \in served

\* No operation waits for ever, whatever the server does.
OperationEnds == step # "idle" ~> step = "idle"
=============================================================================
