-------------------------------- MODULE ChatHub --------------------------------
(***************************************************************************)
(* The chat example (examples/chat): the hub goroutine, and for each       *)
(* client a readPump and a writePump around one magilla.Conn.  The hub     *)
(* owns the set of clients and is the only one to close a client's send    *)
(* channel; it never waits for a client.                                   *)
(***************************************************************************)
EXTENDS Naturals, Sequences, FiniteSets, SequencesExt

CONSTANTS Clients,    \* the connections
          SendSize,   \* capacity of client.send (256)
          MaxMessages \* bound: messages broadcast in all

ASSUME BoundsAssumption == /\ IsFiniteSet(Clients)
                           /\ SendSize \in Nat \ {0} /\ MaxMessages \in Nat

VARIABLES
    clients,   \* h.clients
    send,      \* client.send: the messages queued in it
    closed,    \* the send channels that have been closed
    rp,        \* readPump: "new" before serveWs, "read", "broadcast",
               \* "unregister", "graceful", "done"
    wp,        \* writePump: "select", "opened", "write", "close", "done"
    left,      \* queued messages still to be added to the current one
    conn,      \* "open", "closing" after a close frame, "failed" or "closed"
    log,       \* messages broadcast, in order
    got,       \* per client: the messages written to its connection
    since,     \* per client: how many had been broadcast when it registered
    panic      \* a send on, or a close of, a closed channel

hubVars == <<clients, send, closed, rp, wp, left, conn, log, got, since, panic>>

Messages == 1..MaxMessages

HubInit ==
    /\ clients = {} /\ closed = {}
    /\ send = [c \in Clients |-> <<>>]
    /\ rp = [c \in Clients |-> "new"] /\ wp = [c \in Clients |-> "new"]
    /\ left = [c \in Clients |-> 0]
    /\ conn = [c \in Clients |-> "open"]
    /\ log = <<>> /\ got = [c \in Clients |-> <<>>] /\ since = [c \in Clients |-> 0]
    /\ panic = FALSE

(* serveWs: the client is registered, a rendezvous with the hub, before    *)
(* its pumps start.                                                        *)
Register(c) ==
    /\ rp[c] = "new"
    /\ clients' = clients \cup {c}
    /\ since' = [since EXCEPT ![c] = Len(log)]
    /\ rp' = [rp EXCEPT ![c] = "read"] /\ wp' = [wp EXCEPT ![c] = "select"]
    /\ UNCHANGED <<send, closed, left, conn, log, got, panic>>

(* Closing a channel that is closed already panics.                        *)
CloseSends(cs) ==
    /\ closed' = closed \cup cs
    /\ panic' = (panic \/ cs \cap closed # {})

(* unregister: a client that was dropped is no longer in h.clients.        *)
Unregister(c) ==
    /\ rp[c] = "unregister"
    /\ clients' = clients \ {c}
    /\ CloseSends({c} \cap clients)
    /\ rp' = [rp EXCEPT ![c] = "graceful"]
    /\ UNCHANGED <<send, wp, left, conn, log, got, since>>

(* Faulty: a client that is too slow loses the message, not its place.     *)
BroadcastSkipsSlow(c) ==
    LET m == Len(log) + 1
    IN  /\ rp[c] = "broadcast"
        /\ log' = Append(log, m)
        /\ send' = [d \in Clients |-> IF d \in clients /\ Len(send[d]) < SendSize
                                      THEN Append(send[d], m) ELSE send[d]]
        /\ rp' = [rp EXCEPT ![c] = "read"]
        /\ UNCHANGED <<clients, closed, wp, left, conn, got, since, panic>>

(* Faulty: the channel of a slow client is closed, the client stays.       *)
BroadcastKeepsSlow(c) ==
    LET m    == Len(log) + 1
        slow == {d \in clients : Len(send[d]) = SendSize}
    IN  /\ rp[c] = "broadcast"
        /\ log' = Append(log, m)
        /\ send' = [d \in Clients |-> IF d \in clients \ slow THEN Append(send[d], m)
                                                              ELSE send[d]]
        /\ closed' = closed \cup slow
        /\ panic' = (panic \/ clients \cap closed # {})
        /\ rp' = [rp EXCEPT ![c] = "read"]
        /\ UNCHANGED <<clients, wp, left, conn, got, since>>

(* The hub takes a message from client c's readPump and offers it to every *)
(* client; one whose channel is full is dropped.                           *)
Broadcast(c) ==
    LET m    == Len(log) + 1
        slow == {d \in clients : Len(send[d]) = SendSize}
    IN  /\ rp[c] = "broadcast"
        /\ log' = Append(log, m)
        /\ send' = [d \in Clients |-> IF d \in clients \ slow THEN Append(send[d], m)
                                                              ELSE send[d]]
        /\ closed' = closed \cup slow
        /\ panic' = (panic \/ clients \cap closed # {})
        /\ clients' = clients \ slow
        /\ rp' = [rp EXCEPT ![c] = "read"]
        /\ UNCHANGED <<wp, left, conn, got, since>>
-----------------------------------------------------------------------------
(* readPump.                                                               *)
ReadMessage(c) ==
    /\ rp[c] = "read" /\ conn[c] \in {"open", "closing"}
    /\ Len(log) + Cardinality({d \in Clients : rp[d] = "broadcast"}) < MaxMessages
    /\ rp' = [rp EXCEPT ![c] = "broadcast"]
    /\ UNCHANGED <<clients, send, closed, wp, left, conn, log, got, since, panic>>

(* The peer closes or fails, or pongWait passes without a pong.            *)
ReadFails(c) ==
    /\ rp[c] = "read"
    /\ rp' = [rp EXCEPT ![c] = "unregister"]
    /\ UNCHANGED <<clients, send, closed, wp, left, conn, log, got, since, panic>>

(* The deferred CloseGracefully: a close frame, a drain of at most         *)
(* writeWait, and Close.                                                   *)
SendClose(c) ==
    /\ rp[c] = "graceful" /\ conn[c] = "open"
    /\ conn' = [conn EXCEPT ![c] = "closing"]
    /\ UNCHANGED <<clients, send, closed, rp, wp, left, log, got, since, panic>>

DrainEnds(c) ==
    /\ rp[c] = "graceful" /\ conn[c] # "open"
    /\ conn' = [conn EXCEPT ![c] = "closed"]
    /\ rp' = [rp EXCEPT ![c] = "done"]
    /\ UNCHANGED <<clients, send, closed, wp, left, log, got, since, panic>>

ConnFails(c) ==
    /\ rp[c] # "new" /\ conn[c] \in {"open", "closing"}
    /\ conn' = [conn EXCEPT ![c] = "failed"]
    /\ UNCHANGED <<clients, send, closed, rp, wp, left, log, got, since, panic>>
-----------------------------------------------------------------------------
(* writePump.  A receive from a closed channel gets what is still queued   *)
(* first.  NextWriter fails once the connection is closing, and once a     *)
(* write has found it broken.                                              *)
Take(c) ==
    /\ send' = [send EXCEPT ![c] = Tail(@)]
    /\ got'  = [got EXCEPT ![c] = Append(@, Head(send[c]))]

StartMessage(c) ==
    /\ wp[c] = "select" /\ send[c] # <<>>
    /\ \/ conn[c] # "closing" /\ Take(c) /\ wp' = [wp EXCEPT ![c] = "opened"]
       \/ /\ conn[c] # "open"
          /\ send' = [send EXCEPT ![c] = Tail(@)]
          /\ wp' = [wp EXCEPT ![c] = "close"]
          /\ UNCHANGED got
    /\ UNCHANGED <<clients, closed, rp, left, conn, log, since, panic>>

(* Faulty: the message that was received is counted once more.             *)
QueuedAndOwn(c) == Len(send[c]) + 1

(* Faulty: cap(c.send) instead of len(c.send).                             *)
QueueCapacity(c) == SendSize

Queued(c) == Len(send[c])

CountQueued(c) ==
    /\ wp[c] = "opened"
    /\ left' = [left EXCEPT ![c] = Queued(c)]
    /\ wp' = [wp EXCEPT ![c] = "write"]
    /\ UNCHANGED <<clients, send, closed, rp, conn, log, got, since, panic>>

(* The messages queued when the writer was opened go into the same one.    *)
AddQueued(c) ==
    /\ wp[c] = "write" /\ left[c] > 0 /\ send[c] # <<>>
    /\ Take(c)
    /\ left' = [left EXCEPT ![c] = @ - 1]
    /\ UNCHANGED <<clients, closed, rp, wp, conn, log, since, panic>>

EndMessage(c) ==
    /\ wp[c] = "write" /\ left[c] = 0
    /\ wp' = [wp EXCEPT ![c] = IF conn[c] = "open" THEN "select" ELSE "close"]
    /\ UNCHANGED <<clients, send, closed, rp, left, conn, log, got, since, panic>>

(* The hub closed the channel: a close frame, then the deferred Close.     *)
SayBye(c) ==
    /\ wp[c] = "select" /\ send[c] = <<>> /\ c \in closed
    /\ conn' = [conn EXCEPT ![c] = IF @ = "open" THEN "closing" ELSE @]
    /\ wp' = [wp EXCEPT ![c] = "close"]
    /\ UNCHANGED <<clients, send, closed, rp, left, log, got, since, panic>>

(* The ticker: a ping that fails once the connection is not open.          *)
PingFails(c) ==
    /\ wp[c] = "select" /\ conn[c] # "open"
    /\ wp' = [wp EXCEPT ![c] = "close"]
    /\ UNCHANGED <<clients, send, closed, rp, left, conn, log, got, since, panic>>

CloseConn(c) ==
    /\ wp[c] = "close"
    /\ conn' = [conn EXCEPT ![c] = "closed"]
    /\ wp' = [wp EXCEPT ![c] = "done"]
    /\ UNCHANGED <<clients, send, closed, rp, left, log, got, since, panic>>

Hub  == \E c \in Clients : Register(c) \/ Unregister(c) \/ Broadcast(c)
Pump(c) ==
    \/ SendClose(c) \/ DrainEnds(c)
    \/ StartMessage(c) \/ CountQueued(c) \/ AddQueued(c) \/ EndMessage(c) \/ SayBye(c)
    \/ PingFails(c) \/ CloseConn(c)

HubNext ==
    \/ Hub
    \/ \E c \in Clients : Pump(c) \/ ReadMessage(c) \/ ReadFails(c) \/ ConnFails(c)

(* The hub and the pumps run; a read fails once the connection is gone; Go *)
(* serves the goroutines that wait on a channel in turn.                   *)
HubFairness ==
    \A c \in Clients :
        /\ WF_hubVars(Unregister(c)) /\ WF_hubVars(Broadcast(c))
        /\ WF_hubVars(SendClose(c)) /\ WF_hubVars(DrainEnds(c)) /\ WF_hubVars(CloseConn(c))
        /\ WF_hubVars(\/ StartMessage(c) \/ CountQueued(c) \/ AddQueued(c) \/ EndMessage(c)
                    \/ SayBye(c))
        /\ WF_hubVars(PingFails(c))
        /\ WF_hubVars(conn[c] \in {"failed", "closed"} /\ ReadFails(c))

HubSpec == HubInit /\ [][HubNext]_hubVars /\ HubFairness
-----------------------------------------------------------------------------
(* The hub never sends on a closed channel and never closes one twice,     *)
(* whichever of Unregister and the drop of a slow client comes first       *)
(* (hub.go 33-49).                                                         *)
NoPanic == ~panic /\ clients \cap closed = {}

(* A client's connection carries what was broadcast since it registered,   *)
(* in order and without a gap, and while it is registered nothing is       *)
(* missing: what has not been written is queued (hub.go 40-48, client.go   *)
(* 99-113).                                                                *)
InOrder ==
    \A c \in Clients :
        LET due == SubSeq(log, since[c] + 1, Len(log))
        IN  (conn[c] = "open" /\ wp[c] # "close") =>
                /\ IsPrefix(got[c] \o send[c], due)
                /\ c \in clients => got[c] \o send[c] = due

(* writePump never waits for a message that does not come: the count it    *)
(* took of the queue stays right although the hub goes on sending and may  *)
(* close the channel (client.go 107-112).                                  *)
CountedMessagesThere == \A c \in Clients : wp[c] = "write" => left[c] <= Len(send[c])

(* A client that the hub drops, or whose connection ends, is unregistered, *)
(* and both its pumps end: neither waits for the other or for the hub      *)
(* (client.go 57-71, 95-98, 103-107, hub.go 44-50).                        *)
PumpsEnd ==
    \A c \in Clients :
        (c \in closed \/ (conn[c] # "open" /\ rp[c] # "new"))
            ~> (rp[c] = "done" /\ wp[c] = "done" /\ c \notin clients)
=============================================================================
