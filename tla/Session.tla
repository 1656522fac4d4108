-------------------------------- MODULE Session --------------------------------
(***************************************************************************)
(* A connection from its opening handshake on: Handshake decides how each  *)
(* end compresses and decompresses, and once both calls have returned a    *)
(* Conn, Compression carries messages in both directions with that.        *)
(***************************************************************************)
EXTENDS Handshake, Compression

vars == <<hvars, zvars>>

Init ==
    /\ HandshakeInit
    /\ DeflateInit([d \in Dirs |-> "off"], [d \in Dirs |-> "off"])

Connected == cres = "connected"

(* Both Conns have newCompressionWriter and newDecompressionReader; nothing*)
(* else of the handshake matters from here on, and its variables rest.     *)
Connect ==
    /\ cres = "ok" /\ spc = "ok" /\ conf.peer = "none"
    /\ LET c == cparams.deflate
           s == sparams.deflate
       IN  /\ wmode' = [d \in Dirs |-> IF d \in Servers THEN Mode(s, s.write) ELSE Mode(c, c.write)]
           /\ rmode' = [d \in Dirs |-> IF d \in Servers THEN Mode(c, c.read) ELSE Mode(s, s.read)]
    /\ conf' = CHOOSE c \in Confs : c.peer = "none"
    /\ cres' = "connected" /\ spc' = "connected"
    /\ cparams' = NoParams /\ sparams' = NoParams /\ req' = None /\ resp' = None
    /\ early' = FALSE /\ silent' = FALSE /\ sdl' = [read |-> "none", write |-> "none"]
    /\ UNCHANGED <<todo, cconn, cdl, sconn, wvars, wire, rvars, dict, pool, pvars>>

Next ==
    \/ ~ Connected /\ HandshakeNext /\ UNCHANGED zvars
    \/ Connect
    \/ Connected /\ DeflateNext /\ UNCHANGED hvars

Spec == Init /\ [][Next]_vars /\ HandshakeFairness
=============================================================================
