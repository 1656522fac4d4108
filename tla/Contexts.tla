-------------------------------- MODULE Contexts --------------------------------
(***************************************************************************)
(* Both kinds of calls with a context.  The two halves of a connection have*)
(* deadlines and watchdogs of their own and share no state, so a behaviour *)
(* runs one of them while the other rests.                                 *)
(***************************************************************************)
EXTENDS ReadContext, WriteContext

VARIABLE half

bothVars == <<half, readVars, vars>>

BothInit ==
    /\ half \in {"read", "write"}
    /\ Init
    /\ ReadInit(IF half = "read" THEN Streams ELSE {<<>>})
    /\ half = "write" => ~ handler

BothNext ==
    \/ half = "read" /\ ReadNext /\ UNCHANGED <<half, vars>>
    \/ half = "write" /\ Next /\ UNCHANGED <<half, readVars>>

BothSpec == BothInit /\ [][BothNext]_bothVars /\ ReadFairness
=============================================================================
