------------------------------- MODULE Handshake -------------------------------
(***************************************************************************)
(* The opening handshake: Dialer.DialContext of the client with its proxy, *)
(* TLS and deadlines (client.go, proxy.go), Upgrader.Upgrade of the server *)
(* (server.go), and the two ends of an extended CONNECT over HTTP/2        *)
(* (dialHTTP2 and upgradeHTTP2 of h2.go, whose stream is the subject of    *)
(* H2).  Any step that does I/O may fail, the network may fall silent, and *)
(* either end may be another implementation.                               *)
(*                                                                         *)
(* The client is a list of steps still to be made: the first is the next.  *)
(***************************************************************************)
EXTENDS Negotiation

CONSTANTS Confs,      \* configurations of the two ends
          Requests,   \* what clients of another make may send
          Responses   \* what servers of another make may answer

ASSUME ConfsAssumption ==
    \A c \in Confs : /\ c.transport \in {"h1", "h2"}
                     /\ c.client.mode \in Modes /\ c.server.mode \in Modes

VARIABLES
    conf,     \* the configuration
    todo,     \* the client's remaining steps
    cres,     \* what DialContext returned: "pending", "ok" or an error
    cconn,    \* the client's netConn: "none", "open" or "closed"
    cdl,      \* has it the handshake's deadline?
    cparams,  \* what the client's Conn was set up with
    req,      \* the request the server has, or None
    spc,      \* Upgrade: what it does next, "ok" or "error"
    sconn,    \* the server's netConn: "http" (not taken over), "open", "closed"
    sdl,      \* its deadlines: [read, write], "none", "http" or "handshake"
    early,    \* does the Conn read what arrived behind the request?
    sparams,  \* what the server's Conn was set up with
    resp,     \* the response on its way, or None
    silent    \* has the network fallen silent?

cvars == <<todo, cres, cconn, cdl, cparams>>
svars == <<spc, sconn, sdl, early, sparams>>
hvars == <<conf, cvars, req, svars, resp, silent>>

Client == conf.client
Server == conf.server
CMode  == EffectiveMode(Client.mode, Client.enable)
SMode  == EffectiveMode(Server.mode, Server.enable)
NoParams == [deflate |-> NoCompression, proto |-> None]

(* The response is read last; the handshake's deadline is cleared then.    *)
Rest == IF conf.transport = "h2" THEN <<"send", "await", "adopt">>
        ELSE <<"send", "await", "adopt", "clear">>

(* netDialFn and what follows it.  The entity dialled is the proxy, if any;*)
(* TLS with it comes before the deadline is set, TLS through it after.     *)
FirstTLS(c)  == IF c.proxy = "https" \/ (c.proxy = "none" /\ c.tls) THEN <<"dialTLS">> ELSE <<>>
Tunnel(c)    == IF c.proxy # "none" THEN <<"connect">> ELSE <<>>
SecondTLS(c) == IF c.proxy # "none" /\ c.tls THEN <<"proxyTLS">> ELSE <<>>

(* Faulty: the deadline is set on the connection that the proxy returned.  *)
LateDeadline(c) ==
    <<"request", "dial">>
    \o (IF conf.transport = "h2" THEN <<>>
        ELSE FirstTLS(c) \o Tunnel(c) \o <<"deadline">> \o SecondTLS(c))
    \o Rest

DialSteps(c) ==
    <<"request", "dial">>
    \o (IF conf.transport = "h2" THEN <<>>
        ELSE FirstTLS(c) \o <<"deadline">> \o Tunnel(c) \o SecondTLS(c))
    \o Rest

HandshakeInit ==
    /\ conf \in Confs
    /\ todo = DialSteps(Client) /\ cres = "pending" /\ cconn = "none" /\ cdl = FALSE
    /\ cparams = NoParams /\ sparams = NoParams
    /\ req = None /\ resp = None
    /\ spc = "check" /\ sconn = "http" /\ early = FALSE
    /\ sdl = [read |-> "none", write |-> "none"]
    /\ silent = FALSE

At(step) == cres = "pending" /\ Head(todo) = step
Proceed  == todo' = Tail(todo) /\ UNCHANGED cres

(* Every return with an error closes the connection, if there is one: in   *)
(* the deferred function, or where the dial function gives up.             *)
FailDial(error) ==
    /\ cres' = error
    /\ cconn' = IF cconn = "open" THEN "closed" ELSE cconn
    /\ UNCHANGED <<conf, todo, cdl, cparams, req, svars, resp, silent>>
-----------------------------------------------------------------------------
(* The URL, the headers of the caller, Dialer.Proxy and proxyFromURL are   *)
(* looked at before anything is opened.                                    *)
BuildRequest ==
    /\ At("request")
    /\ \/ Client.refused /\ FailDial("config")
       \/ /\ ~ Client.refused /\ Proceed
          /\ UNCHANGED <<conf, cconn, cdl, cparams, req, svars, resp, silent>>

(* Over HTTP/2 this is the pipe and the context of the stream.             *)
Dial ==
    /\ At("dial") /\ (silent => conf.transport = "h2")
    /\ cconn' = "open" /\ Proceed
    /\ UNCHANGED <<conf, cdl, cparams, req, svars, resp, silent>>

(* netDialWithDeadline.                                                    *)
SetDeadline ==
    /\ At("deadline")
    /\ cdl' = Client.timeout /\ Proceed
    /\ UNCHANGED <<conf, cconn, cparams, req, svars, resp, silent>>

(* The exchanges of doHandshake and of httpProxyDialer.DialContext.        *)
Exchange ==
    /\ At("dialTLS") \/ At("connect") \/ At("proxyTLS")
    /\ ~ silent /\ Proceed
    /\ UNCHANGED <<conf, cconn, cdl, cparams, req, svars, resp, silent>>

OurRequest ==
    [faults |-> Server.faults, protos |-> Client.protos, exts |-> Offer(CMode), early |-> FALSE]

Send ==
    /\ At("send") /\ ~ silent /\ Proceed
    /\ req' = IF conf.peer = "client" THEN req ELSE OurRequest
    /\ UNCHANGED <<conf, cconn, cdl, cparams, svars, resp, silent>>

(* The status and the headers of the response, and over HTTP/2 whether the *)
(* subprotocol is one of Dialer.Subprotocols.                              *)
Await ==
    /\ At("await") /\ ~ silent
    /\ resp # None
    /\ \/ resp.is = "torn" /\ FailDial("io")
       \/ resp.is = "refusal" /\ FailDial("badHandshake")
       \/ /\ resp.is = "good" /\ Proceed
          /\ UNCHANGED <<conf, cconn, cdl, cparams, req, svars, resp, silent>>

KnownProto ==
    conf.transport = "h2" /\ resp.proto # None =>
        ~ Client.viaHeader /\ \E i \in DOMAIN Client.protos : Client.protos[i] = resp.proto

AdoptResponse ==
    /\ At("adopt")
    /\ \/ ~ KnownProto /\ FailDial("badHandshake")
       \/ /\ KnownProto
          /\ ~ Ignores(conf.transport, CMode, resp.exts) /\ ~ AnswerValid(CMode, resp.exts)
          /\ FailDial("badCompression")
       \/ /\ KnownProto
          /\ Ignores(conf.transport, CMode, resp.exts) \/ AnswerValid(CMode, resp.exts)
          /\ cparams' = [deflate |-> Adopt(conf.transport, CMode, resp.exts), proto |-> resp.proto]
          /\ todo' = Tail(todo)
          /\ cres' = IF Tail(todo) = <<>> THEN "ok" ELSE cres
          /\ UNCHANGED <<conf, cconn, cdl, req, svars, resp, silent>>

(* SetDeadline(time.Time{}), and the Conn is handed over.                  *)
ClearDeadline ==
    /\ At("clear")
    /\ cdl' = FALSE /\ todo' = Tail(todo) /\ cres' = "ok"
    /\ UNCHANGED <<conf, cconn, cparams, req, svars, resp, silent>>

(* The steps that do I/O, or set a deadline on the connection, may fail.   *)
Fallible == {"dialTLS", "deadline", "connect", "proxyTLS", "send", "await", "clear"}

DialFault ==
    /\ cres = "pending" /\ Head(todo) \in Fallible \cup (IF conf.transport = "h1" THEN {"dial"} ELSE {})
    /\ conf.faults
    /\ FailDial("io")

(* The context has the handshake's deadline; the connection once it is     *)
(* set.  Over HTTP/2 a watchdog cancels the stream until RoundTrip returns.*)
DialTimeout ==
    /\ cres = "pending" /\ Client.timeout
    /\ \/ Head(todo) \in {"dial", "dialTLS", "proxyTLS"} /\ conf.transport = "h1"
       \/ Head(todo) \in {"connect", "send", "await"} /\ (cdl \/ conf.transport = "h2")
    /\ FailDial("timeout")

(* A client of another make.                                               *)
OtherClient ==
    /\ conf.peer = "client" /\ req = None
    /\ req' \in Requests
    /\ UNCHANGED <<conf, cvars, svars, resp, silent>>
-----------------------------------------------------------------------------
(* Upgrade.  The order of the checks decides the status of the refusal     *)
(* only; of those faults HTTP/2 can have the version, an extensions header *)
(* of the application and the origin.                                      *)
Refusals == IF conf.transport = "h1"
            THEN {"connection", "upgrade", "method", "version", "extensions", "origin", "key"}
            ELSE {"version", "extensions", "origin"}

Response(is) == [is |-> is, exts |-> <<>>, proto |-> None]

Check ==
    /\ spc = "check" /\ req # None /\ conf.peer # "server"
    /\ IF req.faults \cap Refusals # {}
       THEN /\ resp' = Response("refusal") /\ spc' = "error" /\ UNCHANGED sparams
       ELSE /\ sparams' = [deflate |-> Accept(SMode, req.exts),
                           proto   |-> SelectSubprotocol(Server.selector, req.protos)]
            /\ spc' = IF conf.transport = "h1" THEN "hijack" ELSE "write"
            /\ UNCHANGED resp
    /\ UNCHANGED <<conf, cvars, req, sconn, sdl, early, silent>>

(* The connection comes with what the HTTP server has read of it, and may  *)
(* come with deadlines.  Without a usable buffer of the HTTP server, what  *)
(* is in it is read first (brNetConn).                                     *)
Hijack ==
    /\ spc = "hijack"
    /\ \/ /\ sconn' = "open" /\ spc' = "deadline"
          /\ \E d \in {"none", "http"} : sdl' = [read |-> d, write |-> d]
          /\ early' = (Server.ownBuffer => req.early)
          /\ UNCHANGED resp
       \/ conf.faults /\ spc' = "error" /\ resp' = Response("refusal") /\ UNCHANGED <<sconn, sdl, early>>
    /\ UNCHANGED <<conf, cvars, req, sparams, silent>>

ServerDeadline ==
    /\ spc = "deadline"
    /\ spc' = "write"
    /\ sdl' = IF Server.timeout THEN [sdl EXCEPT !.write = "handshake"]
              ELSE [read |-> "none", write |-> "none"]
    /\ UNCHANGED <<conf, cvars, req, sconn, early, sparams, resp, silent>>

(* Faulty: the deadline of the response stays.                             *)
ServerClearForgotten ==
    /\ spc = "clear"
    /\ spc' = "ok"
    /\ UNCHANGED <<conf, cvars, req, sconn, sdl, early, sparams, resp, silent>>

(* Over HTTP/2 WriteHeader and Flush, with the stream wrapped behind them. *)
WriteResponse ==
    /\ spc = "write" /\ ~ silent
    /\ resp' = [is |-> "good", exts |-> Answer(sparams.deflate), proto |-> sparams.proto]
    /\ spc' = IF conf.transport = "h2" THEN "ok" ELSE "clear"
    /\ sconn' = "open"
    /\ UNCHANGED <<conf, cvars, req, sdl, early, sparams, silent>>

ServerClear ==
    /\ spc = "clear"
    /\ spc' = "ok"
    /\ sdl' = IF Server.timeout THEN [sdl EXCEPT !.write = "none"] ELSE sdl
    /\ UNCHANGED <<conf, cvars, req, sconn, early, sparams, resp, silent>>

(* A write, or the setting of a deadline, fails; the handshake's may pass. *)
UpgradeFault ==
    /\ spc \in {"deadline", "write", "clear"}
    /\ conf.faults \/ (spc = "write" /\ sdl.write = "handshake")
    /\ spc' = "error"
    /\ sconn' = IF conf.transport = "h1" THEN "closed" ELSE sconn
    /\ resp' = IF resp = None THEN Response("torn") ELSE resp
    /\ UNCHANGED <<conf, cvars, req, sdl, early, sparams, silent>>

OtherServer ==
    /\ conf.peer = "server" /\ req # None /\ resp = None
    /\ resp' \in Responses
    /\ UNCHANGED <<conf, cvars, req, svars, silent>>

Silence ==
    /\ conf.faults /\ ~ silent /\ cres = "pending"
    /\ silent' = TRUE
    /\ UNCHANGED <<conf, cvars, req, svars, resp>>

DialStep ==
    \/ BuildRequest \/ Dial \/ SetDeadline \/ Exchange \/ Send \/ Await \/ AdoptResponse
    \/ ClearDeadline \/ DialTimeout

UpgradeStep == Check \/ Hijack \/ ServerDeadline \/ WriteResponse \/ ServerClear \/ UpgradeFault

HandshakeNext == DialStep \/ DialFault \/ OtherClient \/ UpgradeStep \/ OtherServer \/ Silence

(* The client's goroutine runs and timers fire; nothing is asked of the    *)
(* network and of the other end.                                           *)
HandshakeFairness == WF_hvars(DialStep)
-----------------------------------------------------------------------------
Errors == {"config", "io", "timeout", "badHandshake", "badCompression"}

(* A call that fails leaves no connection open, and one that succeeds hands*)
(* over an open one with no deadline of the handshake on it, nor any of the*)
(* HTTP server's as far as Upgrade clears them, and with every byte that   *)
(* came behind the request still to be read (client.go:517, server.go:303,  *)
(* 372-390).                                                               *)
HandsOver ==
    /\ cres \in Errors => cconn # "open"
    /\ cres = "ok" => cconn = "open" /\ ~ cdl
    /\ spc = "error" => sconn # "open"
    /\ spc = "ok" => /\ sconn = "open"
                     /\ sdl.write = "none"
                     /\ Server.timeout \/ sdl.read = "none"
                     /\ conf.transport = "h1" /\ req.early => early

(* Two ends of this library never reject each other's negotiation, over    *)
(* HTTP/2 unless the caller named its subprotocols in the header, and when *)
(* both calls succeed both use the same compression in each direction, and *)
(* the same subprotocol.  A client of another make that may ask for either *)
(* direction without takeover, and takes the answer by its word, does so   *)
(* too (server.go:341, client.go:484).                                     *)
Mirror(d) == [compress |-> d.compress, write |-> d.read, read |-> d.write]

Agreed ==
    /\ conf.peer = "none" =>
        /\ cres = "ok" /\ spc = "ok" => /\ cparams.deflate = Mirror(sparams.deflate)
                                        /\ cparams.proto = sparams.proto
        /\ cres # "badCompression"
        /\ cres = "badHandshake" => resp.is = "refusal" \/ (conf.transport = "h2" /\ ~ KnownProto)
    /\ conf.peer = "client" /\ spc = "ok" =>
        Adopt(conf.transport, "takeover", resp.exts) = Mirror(sparams.deflate)

(* A Dial with HandshakeTimeout returns, whether the network, the proxy or *)
(* the server falls silent, and at whichever step.                         *)
DialReturns == (cres = "pending" /\ Client.timeout) ~> (cres # "pending")
=============================================================================
