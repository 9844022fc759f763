----------------------------- MODULE MCLightConsole -----------------------------
(***************************************************************************)
(* Instances of LightConsole for TLC.                                      *)
(***************************************************************************)
EXTENDS LightConsole

Word(chars, means) == [chars |-> chars, means |-> means]
Set(field, head, tail, value, number) ==
  Word(<<head, tail, value, "CR">>, Message("VEHICLE_STATE_UPDATE", field, number))
Key(c, type, payload) == Word(<<c>>, Message(type, payload, 0))
Nothing(chars) == Word(chars, NoMessage)

(* The documented commands, without the lines that begin with h or b; a    *)
(* value out of range, an unknown line and one that overflows the buffer.  *)
MCWords ==
  {Key("L", "LIGHT_CMD", 1), Key("h", "LIGHT_CMD", 16), Key("b", "LIGHT_CMD", 80),
   Key("!", "FAULT_INJECT", MODE_CONFLICT), Key("?", "QUERY", 0), Key("C", "FAULT_CLEAR", 1),
   Set(1, "s", "peed=", "80", 80), Set(2, "i", "gnition=", "0", 0),
   Set(4, "g", "ear=", "reverse", 1), Set(5, "a", "mbient=", "2", 2),
   Set(7, "m", "ode=", "emergency", 3),
   Nothing(<<"s", "peed=", "70000", "CR">>), Nothing(<<"g", "ear=", "4", "CR">>),
   Nothing(<<"CR">>), Nothing(<<"u", "n", "k", "CR">>),
   Nothing(<<"x", "x", "x", "x", "x", "x", "x", "x", "CR">>)}

ASSUME MCWordsAssumption == \A w \in MCWords : IsCommandWord(w) \/ IsLineWord(w)

(* docs/architecture.md:66 and 69.                                         *)
MCHazardWords == {Set(3, "b", "rake=", "1", 1), Set(6, "h", "azard=", "1", 1)}

(* Two light commands.                                                     *)
MCTwoKeys == {Key("L", "LIGHT_CMD", 1), Key("H", "LIGHT_CMD", 17)}
===============================================================================
