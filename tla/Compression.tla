------------------------------ MODULE Compression ------------------------------
(***************************************************************************)
(* permessage-deflate on the two directions of a connection whose ends     *)
(* live in one process (compression.go; conn.go NextWriter, NextReader,    *)
(* EnableWriteCompression, WritePreparedMessage; prepared.go).  A direction*)
(* either starts every message with an empty window, with compressors and  *)
(* decompressors from the pools of the process, or takes the context over: *)
(* its writer keeps one compressor and its reader the bytes it delivered.  *)
(*                                                                         *)
(* DEFLATE is external: a symbol is sent as a literal, or as the distance  *)
(* of its last occurrence in the window.                                   *)
(***************************************************************************)
EXTENDS Negotiation, Naturals, FiniteSets, SequencesExt

CONSTANTS Dirs,         \* the directions, named by the writing end
          Servers,      \* those whose writer is the server
          Payloads,     \* what the application writes
          MaxMsgs,      \* bound: messages in both directions together
          WindowSize,   \* 32768 symbols
          Compressors,  \* the flate writers that compressNoContextTakeover makes
          Decompressors \* and the flate readers of decompressNoContextTakeover

Flates == Compressors \cup Decompressors

(* What writers, messages and readers are made of.                           *)
Symbols  == {None} \cup UNION {Range(p) : p \in Payloads}
Tokens   == {t \in [literal : BOOLEAN, sym : Symbols, back : Nat] : t.literal \/ t.back # 0}
Writings == [compress : BOOLEAN, flate : {None} \cup Compressors, plain : Seq(Symbols), tokens : Seq(Tokens)]
Messages == [plain : Seq(Symbols), rsv1 : BOOLEAN, masked : BOOLEAN, tokens : Seq(Tokens)]
Readings == [msg : Messages, flate : {None} \cup Decompressors, pos : Nat, hist : Seq(Symbols), ended : BOOLEAN]

ASSUME CountAssumption == MaxMsgs \in Nat /\ WindowSize \in Nat
ASSUME DirsAssumption  == IsFiniteSet(Dirs) /\ Servers \subseteq Dirs
ASSUME PoolAssumption  == None \notin Flates /\ Compressors \cap Decompressors = {}
ASSUME PayloadAssumption == /\ Payloads \subseteq Seq(Symbols)
                            /\ \E p \in Payloads : \A q \in Payloads : Len(q) <= Len(p)
ASSUME NoneAssumption  == None \notin Writings \cup Readings

VARIABLES
    wmode,    \* how a direction's writer compresses: "off", "fresh" or "takeover"
    rmode,    \* and how its reader decompresses
    writing,  \* the message being written, or None
    kept,     \* the window of a writer that takes the context over
    wire,     \* messages on their way
    count,    \* messages begun
    reading,  \* the message being read, or None
    window,   \* contextTakeoverReaderFactory.window
    wrong,    \* has a decompressor failed, or delivered another symbol?
    skipped,  \* has a compressed message not been delivered to its end?
    dict,     \* what a pooled compressor or decompressor has in its window
    pool,     \* how often each is in its pool
    frames,   \* PreparedMessage.frames: by key, the frame once it is made, or None
    send      \* WritePreparedMessage: its key and step, or None

mvars == <<wmode, rmode>>
wvars == <<writing, kept, count>>
rvars == <<reading, window, wrong, skipped>>
pvars == <<frames, send>>
zvars == <<mvars, wvars, wire, rvars, dict, pool, pvars>>

(* How the end with these parameters compresses or decompresses.           *)
Mode(params, takeover) ==
    IF ~ params.compress THEN "off" ELSE IF takeover THEN "takeover" ELSE "fresh"

(* The frame of a PreparedMessage; NewPreparedMessage makes the plain one  *)
(* of a server.                                                            *)
Keys     == [isServer : BOOLEAN, compress : BOOLEAN]
Prepared == CHOOSE p \in Payloads : \A q \in Payloads : Len(q) <= Len(p)
PlainKey == [isServer |-> TRUE, compress |-> FALSE]

Message(data, compress, masked, tokens) ==
    [plain |-> data, rsv1 |-> compress, masked |-> masked, tokens |-> IF compress THEN tokens ELSE <<>>]

DeflateInit(w, r) ==
    /\ wmode = w /\ rmode = r
    /\ writing = [d \in Dirs |-> None] /\ reading = [d \in Dirs |-> None]
    /\ kept = [d \in Dirs |-> <<>>] /\ window = [d \in Dirs |-> <<>>]
    /\ wire = [d \in Dirs |-> <<>>] /\ count = [d \in Dirs |-> 0]
    /\ wrong = [d \in Dirs |-> FALSE] /\ skipped = [d \in Dirs |-> FALSE]
    /\ dict = [f \in Flates |-> <<>>] /\ pool = [f \in Flates |-> 0]
    /\ frames = [k \in Keys |-> IF k = PlainKey THEN Message(Prepared, FALSE, FALSE, <<>>) ELSE None]
    /\ send = [d \in Dirs |-> None]
-----------------------------------------------------------------------------
(* DEFLATE.                                                                *)
Slide(w)        == SubSeq(w, IF Len(w) > WindowSize THEN Len(w) - WindowSize + 1 ELSE 1, Len(w))
Literal(s)      == [literal |-> TRUE, sym |-> s, back |-> 0]
Distance(n)     == [literal |-> FALSE, sym |-> None, back |-> n]
Occurrences(w, s) == {n \in 1..Len(w) : w[Len(w) - n + 1] = s}
Least(S)        == CHOOSE n \in S : \A m \in S : n <= m
Token(w, s)     == IF Occurrences(w, s) = {} THEN Literal(s) ELSE Distance(Least(Occurrences(w, s)))

(* What a decompressor with window w makes of a token; None is an error.   *)
Symbol(w, t) == IF t.literal THEN t.sym
                ELSE IF t.back <= Len(w) THEN w[Len(w) - t.back + 1] ELSE None

Compress(w, data) ==
    FoldLeft(LAMBDA acc, s : [w |-> Slide(Append(acc.w, s)), out |-> Append(acc.out, Token(acc.w, s))],
             [w |-> w, out |-> <<>>], data)
-----------------------------------------------------------------------------
(* The pools.  Get may find one, or make a new one; those that nothing     *)
(* refers to any more are never found again.                               *)
Holds(d, f) == \/ writing[d] # None /\ writing[d].flate = f
               \/ reading[d] # None /\ reading[d].flate = f
Unused(f)   == pool[f] = 0 /\ \A d \in Dirs : ~ Holds(d, f)
PoolPut(p, f) == IF f = None THEN p ELSE [p EXCEPT ![f] = @ + 1]

(* Faulty: a compressor from the pool goes on with its old window.         *)
GetWithoutReset(f) ==
    /\ \/ pool[f] > 0 /\ pool' = [pool EXCEPT ![f] = @ - 1]
       \/ Unused(f) /\ UNCHANGED pool
    /\ UNCHANGED dict

(* compressNoContextTakeover and decompressNoContextTakeover: Get, Reset.  *)
GetReset(f) ==
    /\ \/ pool[f] > 0 /\ pool' = [pool EXCEPT ![f] = @ - 1]
       \/ Unused(f) /\ UNCHANGED pool
    /\ dict' = [dict EXCEPT ![f] = <<>>]
-----------------------------------------------------------------------------
Sent == FoldFunction(LAMBDA m, n : m + n, 0, count)

(* EnableWriteCompression comes before a message or not.                   *)
MayCompress(d) == IF wmode[d] = "off" THEN {FALSE} ELSE BOOLEAN

NextWriter(d) ==
    /\ writing[d] = None /\ send[d] = None /\ Sent < MaxMsgs
    /\ count' = [count EXCEPT ![d] = @ + 1]
    /\ \E compress \in MayCompress(d) :
           \/ /\ compress /\ wmode[d] = "fresh"
              /\ \E f \in Compressors :
                    /\ GetReset(f)
                    /\ writing' = [writing EXCEPT ![d] =
                          [compress |-> TRUE, flate |-> f, plain |-> <<>>, tokens |-> <<>>]]
           \/ /\ ~ (compress /\ wmode[d] = "fresh")
              /\ writing' = [writing EXCEPT ![d] =
                    [compress |-> compress, flate |-> None, plain |-> <<>>, tokens |-> <<>>]]
              /\ UNCHANGED <<pool, dict>>
    /\ UNCHANGED <<mvars, kept, wire, rvars, pvars>>

(* Write of the wrapper: with no pooled compressor it is the connection's. *)
Write(d, data) ==
    /\ writing[d] # None /\ writing[d].plain = <<>>
    /\ LET m == writing[d]
           c == Compress(IF m.flate = None THEN kept[d] ELSE dict[m.flate], data)
       IN  /\ writing' = [writing EXCEPT ![d].plain = data, ![d].tokens = c.out]
           /\ dict' = IF m.flate = None THEN dict ELSE [dict EXCEPT ![m.flate] = c.w]
           /\ kept' = IF m.compress /\ m.flate = None THEN [kept EXCEPT ![d] = c.w] ELSE kept
    /\ UNCHANGED <<mvars, count, wire, rvars, pool, pvars>>

(* Close: Flush, the compressor back to its pool, the message to the wire. *)
CloseWriter(d) ==
    /\ writing[d] # None
    /\ wire' = [wire EXCEPT ![d] =
          Append(@, Message(writing[d].plain, writing[d].compress, d \notin Servers, writing[d].tokens))]
    /\ pool' = PoolPut(pool, writing[d].flate)
    /\ writing' = [writing EXCEPT ![d] = None]
    /\ UNCHANGED <<mvars, kept, count, rvars, dict, pvars>>
-----------------------------------------------------------------------------
(* NextReader closes the reader before, which puts its decompressor back   *)
(* unless the end of the message has done so, and discards what is left.   *)
NextReader(d) ==
    /\ wire[d] # <<>> /\ ~ wrong[d]
    /\ LET m == Head(wire[d])
           closed == IF reading[d] = None THEN pool ELSE PoolPut(pool, reading[d].flate)
       IN  /\ wire' = [wire EXCEPT ![d] = Tail(@)]
           /\ wrong' = [wrong EXCEPT ![d] = (m.rsv1 /\ rmode[d] = "off") \/ (m.masked = (d \in Servers))]
           /\ skipped' = [skipped EXCEPT ![d] =
                 @ \/ (reading[d] # None /\ reading[d].msg.rsv1
                        /\ reading[d].pos < Len(reading[d].msg.plain))]
           /\ \/ /\ m.rsv1 /\ rmode[d] = "fresh"
                 /\ \E f \in Decompressors :
                       /\ closed[f] > 0 \/ (Unused(f) /\ closed[f] = 0)
                       /\ pool' = [closed EXCEPT ![f] = IF @ > 0 THEN @ - 1 ELSE @]
                       /\ dict' = [dict EXCEPT ![f] = <<>>]
                       /\ reading' = [reading EXCEPT ![d] =
                             [msg |-> m, flate |-> f, pos |-> 0, hist |-> <<>>, ended |-> FALSE]]
              \/ /\ ~ (m.rsv1 /\ rmode[d] = "fresh")
                 /\ pool' = closed
                 /\ reading' = [reading EXCEPT ![d] =
                       [msg |-> m, flate |-> None, pos |-> 0, ended |-> FALSE,
                        hist |-> IF m.rsv1 THEN window[d] ELSE <<>>]]
                 /\ UNCHANGED dict
    /\ UNCHANGED <<mvars, wvars, window, pvars>>

(* Read of one symbol more.  A reader that takes the context over appends  *)
(* what it delivers to its window.                                         *)
Read(d) ==
    /\ reading[d] # None /\ ~ reading[d].ended /\ ~ wrong[d]
    /\ reading[d].pos < Len(reading[d].msg.plain)
    /\ LET r == reading[d]
           w == IF r.flate = None THEN r.hist ELSE dict[r.flate]
           s == IF r.msg.rsv1 THEN Symbol(w, r.msg.tokens[r.pos + 1]) ELSE r.msg.plain[r.pos + 1]
       IN  /\ wrong' = [wrong EXCEPT ![d] = s # r.msg.plain[r.pos + 1]]
           /\ reading' = [reading EXCEPT ![d].pos = @ + 1, ![d].hist = IF r.flate = None THEN Slide(Append(w, s)) ELSE @]
           /\ dict' = IF r.flate = None THEN dict ELSE [dict EXCEPT ![r.flate] = Slide(Append(w, s))]
           /\ window' = IF r.msg.rsv1 /\ rmode[d] = "takeover"
                        THEN [window EXCEPT ![d] = Slide(Append(@, s))] ELSE window
    /\ UNCHANGED <<mvars, wvars, wire, skipped, pool, pvars>>

(* Faulty: the wrapper does not forget the decompressor it has put back.   *)
ReadEndRemembers(d) ==
    /\ reading[d] # None /\ ~ reading[d].ended /\ ~ wrong[d]
    /\ reading[d].pos = Len(reading[d].msg.plain)
    /\ pool' = PoolPut(pool, reading[d].flate)
    /\ reading' = [reading EXCEPT ![d].ended = TRUE]
    /\ UNCHANGED <<mvars, wvars, wire, window, wrong, skipped, dict, pvars>>

(* io.EOF: the decompressor goes back to its pool at once.                 *)
ReadEnd(d) ==
    /\ reading[d] # None /\ ~ reading[d].ended /\ ~ wrong[d]
    /\ reading[d].pos = Len(reading[d].msg.plain)
    /\ pool' = PoolPut(pool, reading[d].flate)
    /\ reading' = [reading EXCEPT ![d].ended = TRUE, ![d].flate = None]
    /\ UNCHANGED <<mvars, wvars, wire, window, wrong, skipped, dict, pvars>>
-----------------------------------------------------------------------------
(* WritePreparedMessage of one message by both directions.  The first to   *)
(* ask for a frame inserts it and prepares it on a Conn of its own, with   *)
(* an empty window; the others wait in once.Do.                            *)
Filling(k) == \E d \in Dirs : send[d] # None /\ send[d].key = k /\ send[d].fills

WritePrepared(d) ==
    /\ writing[d] = None /\ send[d] = None /\ Sent < MaxMsgs
    /\ \E compress \in MayCompress(d) :
          /\ ~ (wmode[d] = "takeover" /\ compress)
          /\ LET k == [isServer |-> d \in Servers, compress |-> compress]
             IN  send' = [send EXCEPT ![d] = [key |-> k, fills |-> frames[k] = None /\ ~ Filling(k)]]
    /\ count' = [count EXCEPT ![d] = @ + 1]
    /\ UNCHANGED <<mvars, writing, kept, wire, rvars, dict, pool, frames>>

FillFrame(d) ==
    /\ send[d] # None /\ send[d].fills
    /\ LET k == send[d].key
       IN  /\ frames' = [frames EXCEPT ![k] =
                 Message(Prepared, k.compress, ~ k.isServer, Compress(<<>>, Prepared).out)]
           /\ \/ ~ k.compress /\ UNCHANGED <<pool, dict>>
              \/ /\ k.compress
                 /\ \E f \in Compressors : /\ pool[f] > 0 \/ Unused(f)
                                           /\ pool' = [pool EXCEPT ![f] = IF @ = 0 THEN 1 ELSE @]
                                           /\ dict' = [dict EXCEPT ![f] = Compress(<<>>, Prepared).w]
    /\ send' = [send EXCEPT ![d].fills = FALSE]
    /\ UNCHANGED <<mvars, wvars, wire, rvars>>

SendFrame(d) ==
    /\ send[d] # None /\ frames[send[d].key] # None
    /\ wire' = [wire EXCEPT ![d] = Append(@, frames[send[d].key])]
    /\ send' = [send EXCEPT ![d] = None]
    /\ UNCHANGED <<mvars, wvars, rvars, dict, pool, frames>>

DeflateNext ==
    \E d \in Dirs :
        \/ NextWriter(d) \/ CloseWriter(d)
        \/ \E data \in Payloads : Write(d, data)
        \/ NextReader(d) \/ Read(d) \/ ReadEnd(d)
        \/ WritePrepared(d) \/ FillFrame(d) \/ SendFrame(d)
-----------------------------------------------------------------------------
(* A direction delivers the symbols that were written, in every mode, with *)
(* messages compressed or not and prepared or not, as long as its reader   *)
(* takes compressed messages to their end: the windows of both sides stay  *)
(* in step (compression.go:397).                                           *)
WindowsInStep == \A d \in Dirs : wrong[d] => rmode[d] = "takeover" /\ skipped[d]

(* A pooled compressor or decompressor has one owner, its pool or a        *)
(* message (compression.go:269-286).                                       *)
OwnedOnce ==
    \A f \in Flates : pool[f] + Cardinality({d \in Dirs : writing[d] # None /\ writing[d].flate = f})
                              + Cardinality({d \in Dirs : reading[d] # None /\ reading[d].flate = f}) <= 1

(* NextReader's promise: what the application has not consumed of a message*)
(* is discarded (conn.go:1378), and the messages after it are not hurt.    *)
DiscardsDoNoHarm == \A d \in Dirs : ~ wrong[d]
=============================================================================
