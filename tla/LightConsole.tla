------------------------------ MODULE LightConsole ------------------------------
(***************************************************************************)
(* The console: characters reach commandin one interrupt at a time, its    *)
(* parser turns them into transport messages (src/domains/commandin.c,     *)
(* src/core/light_transport.c, light_command_codec.c).                     *)
(*                                                                         *)
(* Only the first character of a line decides how it is read; the rest is  *)
(* appended.  A character is therefore a string: a single character, or a  *)
(* run of characters that is only ever appended ("eed=", "reverse"), which *)
(* counts as one.  commandin's handler runs to completion; the device and  *)
(* the kernel's interrupt controller run beside it.                        *)
(***************************************************************************)
EXTENDS Integers, Sequences, TLC

CONSTANTS
  Words,    (* what the user types: its characters, and the message the    *)
            (* documents give it, or NoMessage                             *)
  LineMax,  (* LIGHT_COMMAND_LINE_MAX                                      *)
  MaxWords, (* the user types at most this many messages: a bound          *)
  Paced     (* each character waits until the one before it is handled     *)

Message(type, payload, value) == [type |-> type, payload |-> payload, value |-> value]
NoMessage == Message("INVALID", 0, 0)

ASSUME WordsAssumption ==
  \A w \in Words : w.chars \in Seq(STRING) /\ w.chars # <<>> /\ w.means.type \in STRING
ASSUME LineMaxAssumption == LineMax \in Nat \ {0, 1}
ASSUME MaxWordsAssumption == MaxWords \in Nat
ASSUME PacedAssumption == Paced \in BOOLEAN

VARIABLES
  typing,   (* characters of the current word not yet received             *)
  typed,    (* messages meant by the words begun                           *)
  register, (* the UART's receive register: at most one character          *)
  irq,      (* its interrupt line                                          *)
  masked,   (* the kernel has delivered the interrupt, no ack yet          *)
  pending,  (* commandin's notification                                    *)
  pc, ch,   (* the handler, and its character                              *)
  line,     (* the parser's line buffer                                    *)
  sent      (* messages dispatched or answered                             *)

device == <<register, irq, masked, pending>>
user   == <<typing, typed>>
vars   == <<user, device, pc, ch, line, sent>>

Init ==
  /\ typing = <<>> /\ typed = <<>>
  /\ register = <<>> /\ irq = FALSE /\ masked = FALSE /\ pending = FALSE
  /\ pc = "wait" /\ ch = "" /\ line = <<>> /\ sent = <<>>
-------------------------------------------------------------------------------
(* The parser. *)

(* light_command_decode_char: the code of each command letter.             *)
LightCommand ==
  [L |-> 1, l |-> 0, H |-> 17, h |-> 16, Z |-> 33, z |-> 32,
   Y |-> 49, y |-> 48, P |-> 65, p |-> 64, B |-> 81, b |-> 80]

MODE_CONFLICT == 2
HW_STATE_ERR  == 4

(* What a character at the start of a line is by itself.                   *)
Immediate ==
  [c \in DOMAIN LightCommand \cup {"!", "#", "?", "C"} |->
     CASE c = "!" -> Message("FAULT_INJECT", MODE_CONFLICT, 0)
       [] c = "#" -> Message("FAULT_INJECT", HW_STATE_ERR, 0)
       [] c = "?" -> Message("QUERY", 0, 0)
       [] c = "C" -> Message("FAULT_CLEAR", 1, 0)
       [] OTHER   -> Message("LIGHT_CMD", LightCommand[c], 0)]

(* light_vehicle_state_parse_line: the keys, with their field and the      *)
(* values each takes.                                                      *)
Flag == [v \in {"0", "1"} |-> IF v = "0" THEN 0 ELSE 1]
Decimal == Flag @@ ("2" :> 2) @@ ("3" :> 3) @@ ("4" :> 4) @@ ("80" :> 80) @@ ("70000" :> 70000)
UpTo(limit, values) == [v \in {x \in DOMAIN values : values[x] <= limit} |-> values[v]]

Keys ==
  [field : {1}, head : {"s"}, tail : {"peed="},    values : {UpTo(65535, Decimal)}]
  \cup [field : {2}, head : {"i"}, tail : {"gnition="}, values : {Flag}]
  \cup [field : {3}, head : {"b"}, tail : {"rake="},    values : {Flag}]
  \cup [field : {4}, head : {"g"}, tail : {"ear="},     values :
         {UpTo(3, Decimal) @@ [park |-> 0, reverse |-> 1, neutral |-> 2, drive |-> 3]}]
  \cup [field : {5}, head : {"a"}, tail : {"mbient="},  values :
         {UpTo(2, Decimal) @@ [day |-> 0, dusk |-> 1, night |-> 2]}]
  \cup [field : {6}, head : {"h"}, tail : {"azard="},   values : {Flag}]
  \cup [field : {7}, head : {"m"}, tail : {"ode="},     values :
         {UpTo(3, Decimal) @@ [city |-> 0, highway |-> 1, parking |-> 2, emergency |-> 3]}]

(* The requests a line can be read as: none or one.                        *)
Parsed(chars) ==
  {Message("VEHICLE_STATE_UPDATE", k.field, k.values[chars[3]]) :
     k \in {key \in Keys : /\ Len(chars) = 3
                           /\ chars[1] = key.head /\ chars[2] = key.tail
                           /\ chars[3] \in DOMAIN key.values}}

(* Mutant: an ended line stays in the buffer.                              *)
FeedKeepsLine(c) ==
  CASE c = "CR" /\ line = <<>> -> [line |-> line, out |-> {}]
    [] c = "CR" /\ line # <<>> -> [line |-> line, out |-> Parsed(line)]
    [] c # "CR" /\ line = <<>> /\ c \in DOMAIN Immediate ->
         [line |-> line, out |-> {Immediate[c]}]
    [] OTHER -> [line |-> IF Len(line) + 1 >= LineMax THEN <<>> ELSE Append(line, c),
                 out |-> {}]

(* Mutant: the terminating NUL has no room.                                *)
FeedWithoutRoom(c) ==
  CASE c = "CR" /\ line = <<>> -> [line |-> line, out |-> {}]
    [] c = "CR" /\ line # <<>> -> [line |-> <<>>, out |-> Parsed(line)]
    [] c # "CR" /\ line = <<>> /\ c \in DOMAIN Immediate ->
         [line |-> line, out |-> {Immediate[c]}]
    [] OTHER -> [line |-> IF Len(line) >= LineMax THEN <<>> ELSE Append(line, c),
                 out |-> {}]

(* light_transport_parser_feed_char: the line after it, and the message it *)
(* completes, if any.                                                      *)
Feed(c) ==
  CASE c = "CR" /\ line = <<>> -> [line |-> line, out |-> {}]
    [] c = "CR" /\ line # <<>> -> [line |-> <<>>, out |-> Parsed(line)]
    [] c # "CR" /\ line = <<>> /\ c \in DOMAIN Immediate ->
         [line |-> line, out |-> {Immediate[c]}]
    [] OTHER -> [line |-> IF Len(line) + 1 >= LineMax THEN <<>> ELSE Append(line, c),
                 out |-> {}]
-------------------------------------------------------------------------------
(* The user, the device and the kernel (external). *)

Quiet == pc = "wait" /\ ~pending /\ ~irq /\ register = <<>>

BeginWord(w) ==
  /\ typing = <<>>
  /\ Paced => Quiet
  /\ Len(typed) < MaxWords
  /\ typing' = w.chars
  /\ typed' = IF w.means = NoMessage THEN typed ELSE Append(typed, w.means)
  /\ UNCHANGED <<device, pc, ch, line, sent>>

(* The device takes a character when its register is free and raises its   *)
(* interrupt line.                                                         *)
Receive ==
  /\ typing # <<>>
  /\ register = <<>>
  /\ Paced => Quiet
  /\ register' = <<Head(typing)>>
  /\ typing' = Tail(typing)
  /\ irq' = TRUE
  /\ UNCHANGED <<typed, masked, pending, pc, ch, line, sent>>

Interrupt ==
  /\ irq /\ ~masked
  /\ masked' = TRUE /\ pending' = TRUE
  /\ UNCHANGED <<user, register, irq, pc, ch, line, sent>>
-------------------------------------------------------------------------------
(* notified() on the interrupt's channel. *)

(* uart_get_char: NUL from an empty register; the read frees it and lowers *)
(* the line.                                                               *)
UartGetChar ==
  /\ pc = "wait" /\ pending
  /\ pending' = FALSE
  /\ ch' = IF register = <<>> THEN "NUL" ELSE register[1]
  /\ register' = <<>> /\ irq' = FALSE
  /\ pc' = "clear"
  /\ UNCHANGED <<user, masked, line, sent>>

UartHandleIrq ==
  /\ pc = "clear"
  /\ irq' = FALSE
  /\ pc' = "ack"
  /\ UNCHANGED <<user, register, masked, pending, ch, line, sent>>

(* Mutant: the acknowledgement is forgotten.                               *)
IrqAckForgotten ==
  /\ pc = "ack"
  /\ pc' = "feed"
  /\ UNCHANGED <<user, device, ch, line, sent>>

IrqAck ==
  /\ pc = "ack"
  /\ masked' = FALSE
  /\ pc' = "feed"
  /\ UNCHANGED <<user, register, irq, pending, ch, line, sent>>

(* The character is parsed; a message is dispatched, a query answered.     *)
FeedChar ==
  /\ pc = "feed"
  /\ line' = Feed(ch).line
  /\ sent' = IF Feed(ch).out = {} THEN sent
             ELSE Append(sent, CHOOSE m \in Feed(ch).out : TRUE)
  /\ pc' = "wait" /\ ch' = ""
  /\ UNCHANGED <<user, device>>

Commandin == UartGetChar \/ UartHandleIrq \/ IrqAck \/ FeedChar

Next == (\E w \in Words : BeginWord(w)) \/ Receive \/ Interrupt \/ Commandin

(* The hardware, the kernel and commandin go on whenever they can; nothing *)
(* makes the user begin another word.                                      *)
Spec == Init /\ [][Next]_vars /\ WF_vars(Receive) /\ WF_vars(Interrupt) /\ WF_vars(Commandin)
-------------------------------------------------------------------------------
(* How a word is read when it is seen whole: a command by its character, a *)
(* line by what is left of it, every LineMax-th character having emptied   *)
(* the buffer.                                                             *)
Meaning(chars) == IF Parsed(chars) = {} THEN NoMessage
                  ELSE CHOOSE m \in Parsed(chars) : TRUE

IsCommandWord(w) ==
  \E c \in DOMAIN Immediate : w.chars = <<c>> /\ w.means = Immediate[c]

IsLineWord(w) ==
  LET n == Len(w.chars) - 1
  IN  /\ w.chars[n + 1] = "CR"
      /\ \A i \in 1 .. n :
           /\ w.chars[i] # "CR"
           /\ (i - 1) % LineMax = 0 => w.chars[i] \notin DOMAIN Immediate
      /\ w.means = Meaning(SubSeq(w.chars, n - (n % LineMax) + 1, n))

(* Every word typed is read as documented: between words, the messages     *)
(* sent are those meant, in order, none twice, none made up, and the line  *)
(* is empty again (docs/architecture.md:62-70, light_transport.c:74-126).  *)
WordsUnderstood ==
  (typing = <<>> /\ Quiet) =>
    /\ sent = typed
    /\ line = <<>>

(* The type invariant: the device holds at most one character, the handler *)
(* is at a step of its code, and the line with its terminating NUL fits    *)
(* the buffer however long the user types without an end of line           *)
(* (light_transport.c:84, 118-124).                                        *)
ConsoleTypeOK ==
  /\ Len(register) <= 1
  /\ {irq, masked, pending} \subseteq BOOLEAN
  /\ pc \in {"wait", "clear", "ack", "feed"}
  /\ Len(line) + 1 <= LineMax
  /\ Len(typed) <= MaxWords

(* REQ-LIGHT-001, docs/requirements.md:9: valid commands propagate, so what *)
(* is typed is eventually read.  A console that does not wait breaks it: a *)
(* character that arrives between the read of the register and the clear   *)
(* of the interrupt stays there (commandin.c:524-536).                     *)
TypedIsRead == []<>(typing = <<>> /\ register = <<>>)
===============================================================================
