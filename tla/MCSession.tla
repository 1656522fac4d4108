------------------------------- MODULE MCSession -------------------------------
(***************************************************************************)
(* An instance of Session for TLC.  The configurations cover every pair of *)
(* compression modes with every way to choose a subprotocol over both      *)
(* transports, and apart from those every transport of the client with     *)
(* every point where it can fail.                                          *)
(***************************************************************************)
EXTENDS Session, TLC

CONSTANTS a, b, x, y, f1, f2, g1, g2

List(S)   == [by |-> "list", list |-> S, pick |-> None]
Hook(p)   == [by |-> "hook", list |-> {}, pick |-> p]
Header(p) == [by |-> "header", list |-> {}, pick |-> p]

ClientOf(mode, enable, protos, viaHeader) ==
    [mode |-> mode, enable |-> enable, protos |-> protos, viaHeader |-> viaHeader,
     refused |-> FALSE, tls |-> FALSE, proxy |-> "none", timeout |-> FALSE]
ServerOf(mode, enable, selector) ==
    [mode |-> mode, enable |-> enable, selector |-> selector, faults |-> {},
     ownBuffer |-> FALSE, timeout |-> FALSE]
Conf(transport, peer, faults, client, server) ==
    [transport |-> transport, peer |-> peer, faults |-> faults, client |-> client, server |-> server]

Settings == {<<"default", TRUE>>, <<"default", FALSE>>, <<"disabled", TRUE>>,
             <<"noTakeover", FALSE>>, <<"takeover", FALSE>>}
Protos   == {<<<<>>, FALSE>>, <<<<a, b>>, FALSE>>, <<<<b>>, TRUE>>}
Selectors == {List({}), List({b}), Hook(a), Header(b)}

Negotiating ==
    {Conf(t, "none", FALSE, ClientOf(c[1], c[2], p[1], p[2]), ServerOf(s[1], s[2], sel)) :
        t \in {"h1", "h2"}, c \in Settings, s \in Settings, p \in Protos, sel \in Selectors}

Dialling ==
    {Conf(t, peer, TRUE,
          [ClientOf(m, FALSE, <<a>>, FALSE) EXCEPT !.tls = k[1], !.proxy = k[2], !.timeout = k[3], !.refused = k[4]],
          ServerOf("takeover", FALSE, List({a}))) :
        t \in {"h1", "h2"}, peer \in {"none", "server"}, m \in {"disabled", "noTakeover", "takeover"},
        k \in BOOLEAN \X {"none", "http", "https"} \X BOOLEAN \X {FALSE} \cup {<<FALSE, "none", FALSE, TRUE>>}}

Upgrading ==
    {Conf(t, peer, TRUE, ClientOf("takeover", FALSE, <<a>>, FALSE),
          [ServerOf("takeover", FALSE, List({a})) EXCEPT !.faults = f, !.ownBuffer = o, !.timeout = d]) :
        t \in {"h1", "h2"}, peer \in {"none", "client"}, f \in {{}, {"origin"}, {"extensions"}},
        o \in BOOLEAN, d \in BOOLEAN}

MCConfs == Negotiating \cup Dialling \cup Upgrading

ExtLists == {<<>>, <<PMD(TRUE, TRUE)>>, <<PMD(FALSE, TRUE)>>, <<PMD(TRUE, FALSE)>>, <<PMD(FALSE, FALSE)>>,
             <<[PMD(TRUE, TRUE) EXCEPT !.pmd = FALSE], PMD(FALSE, TRUE)>>,
             <<[PMD(TRUE, TRUE) EXCEPT !.bits = FALSE], PMD(TRUE, TRUE)>>}

MCRequests ==
    {[faults |-> f, protos |-> p, exts |-> e, early |-> k] :
        f \in {{}} \cup {{c} : c \in {"connection", "upgrade", "method", "version", "key", "origin"}},
        p \in {<<>>, <<b, a>>}, e \in ExtLists, k \in BOOLEAN}

MCResponses == {[is |-> g, exts |-> e, proto |-> p] : g \in {"good", "refusal"}, e \in ExtLists, p \in {None, a, b}}

MCPayloads == {<<y>>, <<x, y>>}
=============================================================================
