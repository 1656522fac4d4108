---------------------------------- MODULE Text ----------------------------------
(***************************************************************************)
(* The bytes of a message as both halves of a connection see them: "a"     *)
(* stands for a complete character, "l" must be followed by "t", and "t"   *)
(* must follow "l".  Module Utf8 has the automaton on real bytes.          *)
(***************************************************************************)
EXTENDS Naturals, Sequences, SequencesExt

Bytes == {"a", "l", "t"}

(* utf8DFAStep, and a run of it over some bytes from a state on.           *)
Utf8Step(s, b) ==
    CASE <<s, b>> \in {<<"accept", "a">>, <<"mid", "t">>} -> "accept"
      [] <<s, b>> = <<"accept", "l">> -> "mid"
      [] OTHER -> "reject"

Utf8Run(s, bytes) == FoldLeft(Utf8Step, s, bytes)
=============================================================================
