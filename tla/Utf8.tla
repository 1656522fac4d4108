---------------------------------- MODULE Utf8 ----------------------------------
(***************************************************************************)
(* The automaton of utf8_dfa.go on the bytes of one character after        *)
(* another, as utf8DFAValidate and utf8ValidatingReader.Read feed it: they *)
(* stop at a rejection, and a message must not end inside a character.     *)
(***************************************************************************)
EXTENDS Integers, Sequences

CONSTANT NthByte   \* what is tried as the first, second, third and fourth byte

ASSUME ByteAssumption == \A n \in 1..4 : NthByte[n] \subseteq 0..255

VARIABLES ustate, upoint,  \* readUTF8State, readUTF8Codepoint
          char             \* the bytes since the state was last utf8Accept

uvars == <<ustate, upoint, char>>

utf8Accept == 0
utf8Reject == 1

(* utf8dfaTable: the types of the bytes, then a row for each state.        *)
ByteType(b) ==
    CASE b < 128 -> 0
      [] b \in 128..143 -> 1
      [] b \in 144..159 -> 9
      [] b \in 160..191 -> 7
      [] b \in {192, 193} \cup 245..255 -> 8
      [] b \in 194..223 -> 2
      [] b = 224 -> 10
      [] b = 237 -> 4
      [] b \in 225..239 \ {237} -> 3
      [] b = 240 -> 11
      [] b \in 241..243 -> 6
      [] b = 244 -> 5

Transitions ==
    << <<0, 1, 2, 3, 5, 8, 7, 1, 1, 1, 4, 6>>,
       <<1, 1, 1, 1, 1, 1, 1, 1, 1, 1, 1, 1>>,
       <<1, 0, 1, 1, 1, 1, 1, 0, 1, 0, 1, 1>>,
       <<1, 2, 1, 1, 1, 1, 1, 2, 1, 2, 1, 1>>,
       <<1, 1, 1, 1, 1, 1, 1, 2, 1, 1, 1, 1>>,
       <<1, 2, 1, 1, 1, 1, 1, 1, 1, 2, 1, 1>>,
       <<1, 1, 1, 1, 1, 1, 1, 3, 1, 3, 1, 1>>,
       <<1, 3, 1, 1, 1, 1, 1, 3, 1, 3, 1, 1>>,
       <<1, 3, 1, 1, 1, 1, 1, 1, 1, 1, 1, 1>> >>

(* Faulty: E0 and ED are treated as the other leading bytes of three.      *)
NextStateLax(state, t) == Transitions[state + 1][IF t \in {4, 10} THEN 4 ELSE t + 1]

NextState(state, t) == Transitions[state + 1][t + 1]

Utf8Init == ustate = utf8Accept /\ upoint = 0 /\ char = <<>>

utf8DFAStep(b) ==
    LET t == ByteType(b)
    IN  /\ ustate' = NextState(ustate, t)
        /\ upoint' = IF ustate # utf8Accept THEN upoint * 64 + (b % 64)
                     ELSE IF t < 8 THEN b % 2^(8 - t) ELSE 0

Feed(b) ==
    /\ utf8DFAStep(b)
    /\ char' = IF ustate = utf8Accept THEN <<b>> ELSE Append(char, b)

NextByte ==
    /\ ustate # utf8Reject
    /\ \E b \in NthByte[IF ustate = utf8Accept THEN 1 ELSE Len(char) + 1] : Feed(b)
-----------------------------------------------------------------------------
(* UTF-8 by its definition (RFC 3629): what a character of n bytes says,   *)
(* and which scalar values take n bytes.                                   *)
Length(b) == CASE b < 128 -> 1 [] b \in 192..223 -> 2 [] b \in 224..239 -> 3
               [] b \in 240..247 -> 4 [] OTHER -> 0

Lead(b) == CASE Length(b) = 1 -> b [] Length(b) = 2 -> b - 192
             [] Length(b) = 3 -> b - 224 [] OTHER -> b - 240

Scalars(n) == CASE n = 1 -> {<<0, 127>>}
                [] n = 2 -> {<<128, 2047>>}
                [] n = 3 -> {<<2048, 55295>>, <<57344, 65535>>}
                [] n = 4 -> {<<65536, 1114111>>}
                [] OTHER -> {}

(* The values that the bytes so far can still become are an interval.      *)
Digits(s)  == IF Len(s) = 1 THEN Lead(s[1])
              ELSE IF Len(s) = 2 THEN Lead(s[1]) * 64 + s[2] - 128
              ELSE IF Len(s) = 3 THEN Lead(s[1]) * 4096 + (s[2] - 128) * 64 + s[3] - 128
              ELSE Lead(s[1]) * 262144 + (s[2] - 128) * 4096 + (s[3] - 128) * 64 + s[4] - 128

Unit(s)    == 64^(Length(s[1]) - Len(s))

Possible(s) ==
    /\ Len(s) <= Length(s[1])
    /\ \A i \in 2..Len(s) : s[i] \in 128..191
    /\ \E r \in Scalars(Length(s[1])) :
           Digits(s) * Unit(s) <= r[2] /\ Digits(s) * Unit(s) + Unit(s) - 1 >= r[1]

(* The automaton rejects at the first byte after which no character is     *)
(* possible any more, not before and not later; it accepts exactly at the  *)
(* end of a character, and then has its scalar value (utf8_dfa.go:63-66).  *)
AcceptsUTF8 ==
    char # <<>> =>
        /\ (ustate # utf8Reject) <=> Possible(char)
        /\ ustate = utf8Accept => Len(char) = Length(char[1]) /\ upoint = Digits(char)
        /\ Possible(char) /\ Len(char) = Length(char[1]) => ustate = utf8Accept
=============================================================================
