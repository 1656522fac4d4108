--------------------------------- MODULE Codec ---------------------------------
(***************************************************************************)
(* What one goroutine does to a message and to the headers of a handshake: *)
(* cutting a message into frames, masking, validating UTF-8, cutting the   *)
(* tail off a compressed message, parsing lists.  These do not interact: a *)
(* behaviour runs one of them, and the others rest.                        *)
(***************************************************************************)
EXTENDS MessageWriter, Masking, Utf8, TruncWriter, Headers

VARIABLE job

codecVars == <<job, vars, kvars, uvars, tvars, lvars>>

CodecInit ==
    /\ job \in {"frame", "mask", "utf8", "truncate", "parse"}
    /\ Init /\ (job = "frame" \/ conf = [server |-> TRUE, cap |-> 0, compress |-> FALSE, skipUTF8 |-> FALSE])
    /\ MaskInit(IF job = "mask" THEN WordSizes ELSE {4})
    /\ Utf8Init
    /\ TruncInit
    /\ HeadersInit(IF job = "parse" THEN Lists ELSE {CHOOSE l \in Lists : TRUE})

CodecNext ==
    \/ job = "frame" /\ Next /\ UNCHANGED <<job, kvars, uvars, tvars, lvars>>
    \/ job = "mask" /\ MaskStep /\ UNCHANGED <<job, vars, uvars, tvars, lvars>>
    \/ job = "utf8" /\ NextByte /\ UNCHANGED <<job, vars, kvars, tvars, lvars>>
    \/ job = "truncate" /\ TruncStep /\ UNCHANGED <<job, vars, kvars, uvars, lvars>>
    \/ job = "parse" /\ HeadersStep /\ UNCHANGED <<job, vars, kvars, uvars, tvars>>

CodecSpec == CodecInit /\ [][CodecNext]_codecVars
=============================================================================
