--------------------------- MODULE LightConsoleProofs ---------------------------
(***************************************************************************)
(* Theorems about the console, for every set of words, every size of the   *)
(* line buffer and every number of words.                                  *)
(***************************************************************************)
EXTENDS LightConsole, SequenceTheorems, TLAPS

(* Every variable of the console keeps its type: whatever is typed, and    *)
(* however fast, the line with its terminating NUL fits the buffer.        *)
Char == STRING \cup {"", "NUL"}

ConsoleInv ==
  /\ typing \in Seq(Char) /\ typed \in Seq({w.means : w \in Words})
  /\ register \in Seq(Char) /\ Len(register) <= 1
  /\ irq \in BOOLEAN /\ masked \in BOOLEAN /\ pending \in BOOLEAN
  /\ pc \in {"wait", "clear", "ack", "feed"} /\ ch \in Char
  /\ line \in Seq(Char) /\ Len(line) + 1 <= LineMax
  /\ Len(typed) <= MaxWords

LEMMA CharFacts ==
  /\ "" \in Char /\ "NUL" \in Char
  /\ \A w \in Words : w.chars \in Seq(Char)
<1>1. STRING \subseteq Char
  BY DEF Char
<1>2. ASSUME NEW w \in Words PROVE w.chars \in Seq(Char)
  BY <1>1, SeqMonotonic, WordsAssumption
<1> QED BY <1>2 DEF Char

LEMMA FeedFits ==
  ASSUME line \in Seq(Char), Len(line) + 1 <= LineMax, NEW c \in Char
  PROVE  /\ Feed(c).line \in Seq(Char)
         /\ Len(Feed(c).line) + 1 <= LineMax
<1>1. LineMax \in Nat \ {0, 1}
  BY LineMaxAssumption
<1>2. \/ Feed(c).line = line \/ Feed(c).line = <<>>
      \/ Len(line) + 1 < LineMax /\ Feed(c).line = Append(line, c)
  <2>1. CASE c = "CR" /\ line # <<>>
    BY <2>1 DEF Feed
  <2>2. CASE line = <<>> /\ (c = "CR" \/ c \in DOMAIN Immediate)
    BY <2>2 DEF Feed
  <2>3. CASE c # "CR" /\ ~(line = <<>> /\ c \in DOMAIN Immediate)
    <3>1. Feed(c).line = IF Len(line) + 1 >= LineMax THEN <<>> ELSE Append(line, c)
      BY <2>3 DEF Feed
    <3>2. Len(line) \in Nat
      OBVIOUS
    <3> QED BY <1>1, <3>1, <3>2
  <2> QED BY <2>1, <2>2, <2>3
<1>3. CASE Feed(c).line = line
  BY <1>3
<1>4. CASE Feed(c).line = <<>>
  BY <1>1, <1>4, EmptySeq
<1>5. CASE Len(line) + 1 < LineMax /\ Feed(c).line = Append(line, c)
  BY <1>1, <1>5
<1> QED BY <1>2, <1>3, <1>4, <1>5

LEMMA ConsoleStep == ConsoleInv /\ [Next]_vars => ConsoleInv'
<1> SUFFICES ASSUME ConsoleInv, [Next]_vars PROVE ConsoleInv'
  OBVIOUS
<1> USE DEF ConsoleInv, user, device
<1>1. ASSUME NEW w \in Words, BeginWord(w) PROVE ConsoleInv'
  <2>1. w.chars \in Seq(Char) /\ MaxWords \in Nat
    BY CharFacts, MaxWordsAssumption
  <2>2. typed' = typed \/ typed' = Append(typed, w.means)
    BY <1>1 DEF BeginWord
  <2> QED BY <1>1, <2>1, <2>2 DEF BeginWord
<1>2. CASE Receive
  BY <1>2 DEF Receive
<1>3. CASE Interrupt
  BY <1>3 DEF Interrupt
<1>4. CASE UartGetChar
  <2>1. register # <<>> => register[1] \in Char
    BY ElementOfSeq, EmptySeq
  <2>2. ch' \in Char /\ register' = <<>>
    BY <1>4, <2>1, CharFacts DEF UartGetChar
  <2>3. pending' = FALSE /\ irq' = FALSE /\ pc' = "clear" /\ UNCHANGED <<typing, typed, masked, line, sent>>
    BY <1>4 DEF UartGetChar
  <2>4. register' \in Seq(Char) /\ Len(register') <= 1
    BY <2>2, EmptySeq
  <2> QED BY <2>2, <2>3, <2>4
<1>5. CASE UartHandleIrq
  BY <1>5 DEF UartHandleIrq
<1>6. CASE IrqAck
  BY <1>6 DEF IrqAck
<1>7. CASE FeedChar
  <2>1. /\ Feed(ch).line \in Seq(Char)
        /\ Len(Feed(ch).line) + 1 <= LineMax
    BY FeedFits
  <2> QED BY <1>7, <2>1, CharFacts DEF FeedChar
<1>8. CASE UNCHANGED vars
  BY <1>8 DEF vars
<1> QED BY <1>1, <1>2, <1>3, <1>4, <1>5, <1>6, <1>7, <1>8 DEF Next, Commandin

(* However long and however fast the user types, the device holds one      *)
(* character and the line with its terminating NUL fits its buffer.        *)
THEOREM ConsoleTypeCorrect == Spec => []ConsoleTypeOK
<1>1. Init => ConsoleInv
  <2> SUFFICES ASSUME Init PROVE ConsoleInv
    OBVIOUS
  <2>1. typing = <<>> /\ typed = <<>> /\ register = <<>> /\ line = <<>>
    BY DEF Init
  <2>2. <<>> \in Seq(Char) /\ Len(<<>>) = 0
    BY EmptySeq
  <2>3. <<>> \in Seq({w.means : w \in Words})
    BY EmptySeq
  <2>4. irq \in BOOLEAN /\ masked \in BOOLEAN /\ pending \in BOOLEAN /\ pc = "wait" /\ ch \in Char
    BY CharFacts DEF Init
  <2>5. LineMax >= 1 /\ MaxWords >= 0
    BY LineMaxAssumption, MaxWordsAssumption
  <2> QED BY <2>1, <2>2, <2>3, <2>4, <2>5 DEF ConsoleInv
<1>2. ConsoleInv => ConsoleTypeOK
  BY DEF ConsoleInv, ConsoleTypeOK
<1> QED BY <1>1, <1>2, ConsoleStep, PTL DEF Spec
-------------------------------------------------------------------------------
(* The words, character by character. *)

LEMMA Multiple ==
  ASSUME NEW L \in Nat \ {0}, NEW d \in Int, L * d < L, - L < L * d
  PROVE  d = 0
<1>1. L * d \in Int
  OBVIOUS
<1>2. ASSUME d >= 1 PROVE FALSE
  <2>1. L * d = L + L * (d - 1) 
    OBVIOUS
  <2>2. L * (d - 1) >= 0
    BY <1>2
  <2> QED BY <2>1, <2>2
<1>3. ASSUME d <= -1 PROVE FALSE
  <2>1. L * d = L * (d + 1) - L
    OBVIOUS
  <2>2. L * (d + 1) <= 0
    BY <1>3
  <2> QED BY <2>1, <2>2
<1> QED BY <1>2, <1>3
(* Counting modulo the size of the buffer.                                 *)
LEMMA NextModulo ==
  ASSUME NEW i \in Nat, NEW L \in Nat \ {0}
  PROVE  /\ i % L \in 0 .. L - 1
         /\ (i + 1) % L = IF (i % L) + 1 = L THEN 0 ELSE (i % L) + 1
<1> DEFINE q == i \div L
           r == i % L
           s == (i + 1) \div L
           t == (i + 1) % L
<1>1. i = L * q + r /\ r \in 0 .. L - 1 /\ q \in Int
  OBVIOUS
<1>2. i + 1 = L * s + t /\ t \in 0 .. L - 1  /\ s \in Int
  OBVIOUS
<1> HIDE DEF q, r, s, t
<1>3. CASE r + 1 = L
  <2>1. L * (s - (q + 1)) = L * s - L * q - L
    BY <1>1, <1>2
  <2>2. L * (s - (q + 1)) = - t
    BY <1>1, <1>2, <1>3, <2>1
  <2>3. s - (q + 1) = 0
    BY <2>2, <1>1, <1>2, Multiple
  <2> QED BY <1>3, <2>2, <2>3, <1>2 DEF r, t
<1>4. CASE r + 1 # L
  <2>1. L * (s - q) = L * s - L * q
    BY <1>1, <1>2
  <2>2. L * (s - q) = r + 1 - t
    BY <1>1, <1>2, <2>1
  <2>3. s - q = 0
    BY <2>2, <1>1, <1>2, <1>4, Multiple
  <2> QED BY <1>4, <2>2, <2>3, <1>1, <1>2 DEF r, t
<1> QED BY <1>3, <1>4

(* How much of a word the line buffer holds after the first i characters,  *)
(* and what.                                                               *)
Fill(i) == i % LineMax
After(w, i) == SubSeq(w.chars, i - Fill(i) + 1, i)

LEMMA FillRange ==
  ASSUME NEW i \in Nat
  PROVE  Fill(i) \in 0 .. LineMax - 1 /\ Fill(i) <= i
<1>1. LineMax \in Nat \ {0}
  BY LineMaxAssumption
<1>2. Fill(i) \in 0 .. LineMax - 1
  BY <1>1, NextModulo DEF Fill
<1>3. i = LineMax * (i \div LineMax) + (i % LineMax) /\ i \div LineMax \in Nat
  BY <1>1
<1>4. LineMax * (i \div LineMax) >= 0
  BY <1>1, <1>3
<1>5. Fill(i) <= i
  BY <1>1, <1>2, <1>3, <1>4 DEF Fill
<1> QED BY <1>2, <1>5

LEMMA FillNext ==
  ASSUME NEW i \in Nat
  PROVE  Fill(i + 1) = IF Fill(i) + 1 = LineMax THEN 0 ELSE Fill(i) + 1
BY LineMaxAssumption, NextModulo DEF Fill

LEMMA AfterLength ==
  ASSUME NEW w \in Words, NEW i \in 0 .. Len(w.chars)
  PROVE  After(w, i) \in Seq(STRING) /\ Len(After(w, i)) = Fill(i)
<1>1. w.chars \in Seq(STRING) /\ Len(w.chars) \in Nat /\ i \in Nat
  BY WordsAssumption, LenProperties
<1> DEFINE first == i - Fill(i) + 1
<1>2. first \in Int /\ 1 <= first /\ first <= i + 1 /\ i - first + 1 = Fill(i)
  <2>1. Fill(i) \in Nat /\ Fill(i) <= i
    BY <1>1, FillRange, LineMaxAssumption
  <2> QED BY <1>1, <2>1
<1> HIDE DEF first
<1>3. \A j \in first .. i : w.chars[j] \in STRING
  <2> SUFFICES ASSUME NEW j \in first .. i PROVE w.chars[j] \in STRING
    OBVIOUS
  <2>1. j \in 1 .. Len(w.chars)
    BY <1>1, <1>2
  <2> QED BY <1>1, <2>1, ElementOfSeq
<1>4. /\ SubSeq(w.chars, first, i) \in Seq(STRING)
      /\ Len(SubSeq(w.chars, first, i)) = IF first <= i THEN i - first + 1 ELSE 0
  BY <1>1, <1>2, <1>3, SubSeqProperties
<1> QED BY <1>1, <1>2, <1>4 DEF After, first

LEMMA AfterNext ==
  ASSUME NEW w \in Words, NEW i \in 0 .. Len(w.chars) - 1
  PROVE  After(w, i + 1) = IF Fill(i) + 1 = LineMax THEN <<>>
                           ELSE Append(After(w, i), w.chars[i + 1])
<1>1. w.chars \in Seq(STRING) /\ Len(w.chars) \in Nat
  BY WordsAssumption, LenProperties
<1>2. /\ i \in Nat /\ i + 1 \in 1 .. Len(w.chars)
      /\ i \in 0 .. Len(w.chars) /\ i + 1 \in 0 .. Len(w.chars)
  BY <1>1
<1>3. /\ Fill(i) \in Nat /\ Fill(i) <= i
      /\ Fill(i + 1) = IF Fill(i) + 1 = LineMax THEN 0 ELSE Fill(i) + 1
  <2>1. Fill(i) \in Nat /\ Fill(i) <= i
    BY <1>2, FillRange, LineMaxAssumption
  <2>2. Fill(i + 1) = IF Fill(i) + 1 = LineMax THEN 0 ELSE Fill(i) + 1
    BY <1>2, FillNext
  <2> QED BY <2>1, <2>2
<1>4. CASE Fill(i) + 1 = LineMax
  <2>1. Len(After(w, i + 1)) = 0 /\ After(w, i + 1) \in Seq(STRING)
    BY <1>2, <1>3, <1>4, AfterLength
  <2> QED BY <1>4, <2>1, EmptySeq
<1>5. CASE Fill(i) + 1 # LineMax
  <2> DEFINE first == i - Fill(i) + 1
  <2>1. Len(After(w, i)) = Fill(i) /\ After(w, i) \in Seq(STRING)
    BY <1>2, AfterLength
  <2>2. Len(After(w, i + 1)) = Fill(i) + 1 /\ After(w, i + 1) \in Seq(STRING)
    BY <1>2, <1>3, <1>5, AfterLength
  <2>3. first = (i + 1) - Fill(i + 1) + 1 /\ first \in Int
    BY <1>2, <1>3, <1>5
  <2> HIDE DEF first
  <2>4. /\ After(w, i) = SubSeq(w.chars, first, i)
        /\ After(w, i + 1) = SubSeq(w.chars, first, i + 1)
    BY <2>3 DEF After, first
  <2>5. ASSUME NEW j \in 1 .. Len(After(w, i + 1))
        PROVE  After(w, i + 1)[j] = Append(After(w, i), w.chars[i + 1])[j]
    <3>1. Fill(i) = i - first + 1 /\ first \in Int /\ 1 <= first
      BY <1>2, <1>3 DEF first
    <3>2. \A k \in first .. i + 1 : w.chars[k] \in STRING
      BY <1>1, <1>2, <3>1, ElementOfSeq
    <3>3. /\ \A k \in 1 .. i - first + 1 : After(w, i)[k] = w.chars[first + k - 1]
          /\ \A k \in 1 .. (i + 1) - first + 1 : After(w, i + 1)[k] = w.chars[first + k - 1]
      BY <1>2, <2>4, <3>1, <3>2, SubSeqProperties
    <3>4. j \in Nat /\ 1 <= j /\ j <= i - first + 2
      BY <1>2, <1>3, <2>2, <3>1
    <3>5. After(w, i + 1)[j] = w.chars[first + j - 1]
      BY <1>2, <3>1, <3>3, <3>4
    <3>6. CASE j <= i - first + 1
      <4>1. j \in 1 .. i - first + 1 /\ j \in 1 .. Len(After(w, i))
        BY <1>2, <2>1, <3>1, <3>4, <3>6
      <4>2. After(w, i)[j] = w.chars[first + j - 1]
        BY <3>3, <4>1
      <4>3. Append(After(w, i), w.chars[i + 1])[j] = After(w, i)[j]
        BY <2>1, <4>1
      <4> QED BY <3>5, <4>2, <4>3
    <3>7. CASE j = i - first + 2
      <4>1. j = Len(After(w, i)) + 1 /\ first + j - 1 = i + 1
        BY <1>2, <2>1, <3>1, <3>7
      <4>2. Append(After(w, i), w.chars[i + 1])[j] = w.chars[i + 1]
        BY <2>1, <4>1
      <4> QED BY <3>5, <4>1, <4>2
    <3>8. j <= i - first + 1 \/ j = i - first + 2
      BY <1>2, <3>1, <3>4
    <3> QED BY <3>6, <3>7, <3>8
  <2>6. /\ Append(After(w, i), w.chars[i + 1]) \in Seq(STRING)
        /\ Len(Append(After(w, i), w.chars[i + 1])) = Fill(i) + 1
    BY <1>1, <1>2, <2>1, ElementOfSeq
  <2>7. After(w, i + 1) = Append(After(w, i), w.chars[i + 1])
    BY <2>2, <2>5, <2>6, SeqEqual
  <2> QED BY <1>5, <2>7
<1> QED BY <1>4, <1>5

(* The parser, given the characters of a word one after the other.         *)
IsWord(w) == IsCommandWord(w) \/ IsLineWord(w)

LEMMA ImmediateFacts ==
  /\ "CR" \notin DOMAIN Immediate
  /\ \A c \in DOMAIN Immediate : Immediate[c] # NoMessage
BY DEF Immediate, LightCommand, NoMessage, Message

LEMMA ParsedFacts ==
  /\ Parsed(<<>>) = {}
  /\ \A chars : \A m \in Parsed(chars) : m # NoMessage
<1>1. Len(<<>>) = 0
  BY EmptySeq
<1>2. Parsed(<<>>) = {}
  BY <1>1 DEF Parsed
<1>3. \A chars : \A m \in Parsed(chars) : m # NoMessage
  BY DEF Parsed, Message, NoMessage
<1> QED BY <1>2, <1>3

(* What the last character of a word gives.                                *)
Gives(out, m) == IF out = {} THEN m = NoMessage
                 ELSE m # NoMessage /\ m = CHOOSE x \in out : TRUE

LEMMA FeedCommand ==
  ASSUME NEW c \in DOMAIN Immediate, line = <<>>
  PROVE  Feed(c).line = <<>> /\ Gives(Feed(c).out, Immediate[c])
<1>1. Feed(c) = [line |-> line, out |-> {Immediate[c]}]
  BY ImmediateFacts DEF Feed
<1>2. Gives({Immediate[c]}, Immediate[c])
  BY ImmediateFacts DEF Gives
<1> QED BY <1>1, <1>2

LEMMA FeedEnd ==
  /\ Feed("CR").line = <<>> /\ Gives(Feed("CR").out, Meaning(line))
<1>1. Feed("CR") = [line |-> <<>>, out |-> Parsed(line)]
  <2>1. CASE line = <<>>
    <3>1. Feed("CR") = [line |-> line, out |-> {}]
      BY <2>1 DEF Feed
    <3>2. Parsed(line) = {}
      BY <2>1, ParsedFacts
    <3> QED BY <2>1, <3>1, <3>2
  <2>2. CASE line # <<>>
    BY <2>2 DEF Feed
  <2> QED BY <2>1, <2>2
<1>2. Gives(Parsed(line), Meaning(line))
  <2>1. ASSUME Parsed(line) # {}
        PROVE  (CHOOSE x \in Parsed(line) : TRUE) # NoMessage
    BY <2>1, ParsedFacts
  <2> QED BY <2>1 DEF Gives, Meaning
<1> QED BY <1>1, <1>2

LEMMA LineCharacters ==
  ASSUME NEW w, IsLineWord(w), NEW j \in 1 .. Len(w.chars) - 1
  PROVE  w.chars[j] # "CR" /\ (Fill(j - 1) = 0 => w.chars[j] \notin DOMAIN Immediate)
BY DEF IsLineWord, Fill

LEMMA FeedInside ==
  ASSUME NEW w \in Words, IsLineWord(w), NEW i \in 0 .. Len(w.chars) - 2, line = After(w, i)
  PROVE  Feed(w.chars[i + 1]).line = After(w, i + 1) /\ Feed(w.chars[i + 1]).out = {}
<1> DEFINE c == w.chars[i + 1]
<1>1. Len(w.chars) \in Nat /\ i \in Nat /\ i \in 0 .. Len(w.chars) - 1 /\ i \in 0 .. Len(w.chars)
  BY WordsAssumption, LenProperties
<1>2. line \in Seq(STRING) /\ Len(line) = Fill(i)
  BY <1>1, AfterLength
<1>3. Fill(i) \in 0 .. LineMax - 1 /\ LineMax \in Nat
  BY <1>1, FillRange, LineMaxAssumption
<1>4. After(w, i + 1) = IF Fill(i) + 1 = LineMax THEN <<>> ELSE Append(line, c)
  BY <1>1, AfterNext
<1>5. c # "CR" /\ (Fill(i) = 0 => c \notin DOMAIN Immediate)
  <2>1. \A j \in 1 .. Len(w.chars) - 1 :
          w.chars[j] # "CR" /\ (Fill(j - 1) = 0 => w.chars[j] \notin DOMAIN Immediate)
    BY LineCharacters
  <2>2. i + 1 \in 1 .. Len(w.chars) - 1 /\ (i + 1) - 1 = i
    BY <1>1
  <2> QED BY <2>1, <2>2
<1> HIDE DEF c
<1>6. line = <<>> => Fill(i) = 0
  BY <1>2, EmptySeq
<1>7. Feed(c) = [line |-> IF Len(line) + 1 >= LineMax THEN <<>> ELSE Append(line, c),
                 out |-> {}]
  BY <1>5, <1>6 DEF Feed
<1>8. Len(line) + 1 >= LineMax <=> Fill(i) + 1 = LineMax
  BY <1>2, <1>3
<1>9. Feed(c).line = After(w, i + 1) /\ Feed(c).out = {}
  BY <1>4, <1>7, <1>8
<1> QED BY <1>9 DEF c

LEMMA FeedWord ==
  ASSUME NEW w \in Words, IsWord(w), NEW i \in 1 .. Len(w.chars), line = After(w, i - 1)
  PROVE  IF i < Len(w.chars)
         THEN Feed(w.chars[i]).line = After(w, i) /\ Feed(w.chars[i]).out = {}
         ELSE Feed(w.chars[i]).line = <<>> /\ Gives(Feed(w.chars[i]).out, w.means)
<1>1. w.chars \in Seq(STRING) /\ Len(w.chars) \in Nat /\ i \in Nat
  BY WordsAssumption, LenProperties
<1>2. CASE IsCommandWord(w)
  <2>1. PICK c \in DOMAIN Immediate : w.chars = <<c>> /\ w.means = Immediate[c]
    BY <1>2 DEF IsCommandWord
  <2>2. i = 1 /\ Len(w.chars) = 1 /\ w.chars[i] = c
    BY <2>1
  <2>3. line \in Seq(STRING) /\ Len(line) = 0
    <3>1. 0 \in 0 .. Len(w.chars) /\ i - 1 = 0
      BY <2>2
    <3>2. Fill(0) = 0
      BY FillRange, LineMaxAssumption
    <3> QED BY <3>1, <3>2, AfterLength
  <2>4. line = <<>>
    BY <2>3, EmptySeq
  <2>5. Feed(c).line = <<>> /\ Gives(Feed(c).out, Immediate[c])
    BY <2>4, FeedCommand
  <2> QED BY <2>1, <2>2, <2>5
<1>3. CASE IsLineWord(w) /\ i < Len(w.chars)
  <2>1. i - 1 \in 0 .. Len(w.chars) - 2 /\ (i - 1) + 1 = i
    BY <1>1, <1>3
  <2>2. Feed(w.chars[(i - 1) + 1]).line = After(w, (i - 1) + 1) /\ Feed(w.chars[(i - 1) + 1]).out = {}
    BY <1>3, <2>1, FeedInside
  <2> QED BY <1>3, <2>1, <2>2
<1>4. CASE IsLineWord(w) /\ i = Len(w.chars)
  <2>1. w.chars[i] = "CR" /\ w.means = Meaning(line)
    <3>1. (Len(w.chars) - 1) + 1 = i
      BY <1>1, <1>4
    <3>2. /\ w.chars[(Len(w.chars) - 1) + 1] = "CR"
          /\ w.means = Meaning(After(w, Len(w.chars) - 1))
      BY <1>4 DEF IsLineWord, After, Fill
    <3> QED BY <1>4, <3>1, <3>2
  <2> QED BY <1>4, <2>1, FeedEnd
<1> QED BY <1>1, <1>2, <1>3, <1>4 DEF IsWord

-------------------------------------------------------------------------------
(* A console that waits for each character: between words everything meant *)
(* has been sent; within a word some of its characters have been fed to    *)
(* the parser, and one may be on its way.                                  *)
InRegister(c) == pc = "wait" /\ irq /\ register = <<c>>
InHandler(c) ==
  pc \in {"clear", "ack", "feed"} /\ ch = c /\ ~irq /\ ~pending /\ register = <<>>

BetweenWords == Quiet /\ typing = <<>> /\ typed = sent /\ line = <<>>

WithinWord(w, i) ==
  /\ typing = SubSeq(w.chars, i + 1, Len(w.chars))
  /\ typed = IF w.means = NoMessage THEN sent ELSE Append(sent, w.means)
  /\ \/ Quiet /\ i < Len(w.chars) /\ line = After(w, i)
     \/ /\ i > 0 /\ line = After(w, i - 1)
        /\ InRegister(w.chars[i]) \/ InHandler(w.chars[i])

WordsInv == BetweenWords \/ \E w \in Words : \E i \in 0 .. Len(w.chars) : WithinWord(w, i)

(* The characters of a word still to be typed.                             *)
LEMMA ToType ==
  ASSUME NEW w \in Words, NEW i \in 0 .. Len(w.chars),
         typing = SubSeq(w.chars, i + 1, Len(w.chars))
  PROVE  /\ typing = <<>> <=> i = Len(w.chars)
         /\ i < Len(w.chars) =>
              /\ Head(typing) = w.chars[i + 1]
              /\ Tail(typing) = SubSeq(w.chars, (i + 1) + 1, Len(w.chars))
<1>1. w.chars \in Seq(STRING) /\ Len(w.chars) \in Nat /\ i \in Nat
  BY WordsAssumption, LenProperties
<1>2. CASE i = Len(w.chars)
  <2>1. typing = <<>>
    BY <1>1, <1>2, SubSeqEmpty
  <2> QED BY <1>1, <1>2, <2>1
<1>3. CASE i < Len(w.chars)
  <2>1. i + 1 \in 1 .. Len(w.chars) /\ Len(w.chars) \in i + 1 .. Len(w.chars)
    BY <1>1, <1>3
  <2>2. /\ Head(typing) = w.chars[i + 1]
        /\ Tail(typing) = SubSeq(w.chars, (i + 1) + 1, Len(w.chars))
    BY <1>1, <2>1, HeadTailOfSubSeq
  <2>3. Len(typing) = Len(w.chars) - (i + 1) + 1
    BY <1>1, <2>1, SubSeqProperties, ElementOfSeq
  <2>4. Len(typing) # 0 /\ Len(<<>>) = 0
    BY <1>1, <1>3, <2>3, EmptySeq
  <2>5. typing # <<>>
    BY <2>4
  <2> QED BY <1>1, <1>3, <2>2, <2>5
<1> QED BY <1>1, <1>2, <1>3

LEMMA WordsInit == Init => WordsInv
BY DEF Init, WordsInv, BetweenWords, Quiet

(* A word begins only between words.                                       *)
LEMMA WordBegins ==
  ASSUME Paced, WordsInv, NEW w \in Words, BeginWord(w)
  PROVE  WordsInv'
<1>1. BetweenWords
  <2>1. ASSUME NEW v \in Words, NEW i \in 0 .. Len(v.chars), WithinWord(v, i) PROVE FALSE
    <3>1. typing = <<>> /\ Quiet
      BY DEF BeginWord
    <3>2. typing = SubSeq(v.chars, i + 1, Len(v.chars))
      BY <2>1 DEF WithinWord
    <3>3. i = Len(v.chars)
      BY <3>1, <3>2, ToType
    <3>4. Len(v.chars) \in Nat
      BY WordsAssumption, LenProperties
    <3> QED BY <2>1, <3>1, <3>3, <3>4 DEF WithinWord, InRegister, InHandler, Quiet
  <2> QED BY <2>1 DEF WordsInv
<1>2. w.chars \in Seq(STRING) /\ Len(w.chars) \in Nat /\ Len(w.chars) > 0
  BY WordsAssumption, LenProperties, EmptySeq
<1>3. WithinWord(w, 0)'
  <2>1. typing' = SubSeq(w.chars, 0 + 1, Len(w.chars))
    BY <1>2, SubSeqFull DEF BeginWord
  <2>2. typed' = IF w.means = NoMessage THEN sent' ELSE Append(sent', w.means)
    BY <1>1 DEF BeginWord, BetweenWords
  <2>3. Quiet' /\ line' = <<>>
    BY <1>1 DEF BeginWord, BetweenWords, Quiet, device
  <2>4. After(w, 0) = <<>>
    <3>1. 0 \in 0 .. Len(w.chars) /\ Fill(0) = 0
      BY <1>2, FillRange, LineMaxAssumption
    <3>2. After(w, 0) \in Seq(STRING) /\ Len(After(w, 0)) = 0
      BY <3>1, AfterLength
    <3> QED BY <3>2, EmptySeq
  <2> QED BY <1>2, <2>1, <2>2, <2>3, <2>4 DEF WithinWord
<1>4. 0 \in 0 .. Len(w.chars)
  BY <1>2
<1> QED BY <1>3, <1>4 DEF WordsInv

(* A character of it reaches the register only when the one before it has  *)
(* been fed to the parser.                                                 *)
LEMMA CharacterArrives ==
  ASSUME Paced, NEW w \in Words, NEW i \in 0 .. Len(w.chars), WithinWord(w, i), Receive
  PROVE  i + 1 \in 0 .. Len(w.chars) /\ WithinWord(w, i + 1)'
<1>1. /\ typing # <<>> /\ Quiet /\ register' = <<Head(typing)>> /\ typing' = Tail(typing)
      /\ irq' = TRUE /\ UNCHANGED <<typed, pc, line, sent>>
  BY DEF Receive
<1>2. Len(w.chars) \in Nat /\ i \in Nat
  BY WordsAssumption, LenProperties
<1>3. i < Len(w.chars)
  BY <1>1, <1>2, ToType DEF WithinWord
<1>4. line = After(w, i)
  BY <1>1 DEF WithinWord, InRegister, InHandler, Quiet
<1>5. /\ Head(typing) = w.chars[i + 1]
      /\ Tail(typing) = SubSeq(w.chars, (i + 1) + 1, Len(w.chars))
  BY <1>3, ToType DEF WithinWord
<1>6. InRegister(w.chars[i + 1])'
  BY <1>1, <1>5 DEF InRegister, Quiet
<1>7. (i + 1) - 1 = i /\ i + 1 > 0 /\ i + 1 \in 0 .. Len(w.chars)
  BY <1>2, <1>3
<1>8. After(w, (i + 1) - 1) = line'
  BY <1>1, <1>4, <1>7
<1>9. typing' = SubSeq(w.chars, (i + 1) + 1, Len(w.chars))
  BY <1>1, <1>5
<1>10. typed' = IF w.means = NoMessage THEN sent' ELSE Append(sent', w.means)
  BY <1>1 DEF WithinWord
<1> QED BY <1>6, <1>7, <1>8, <1>9, <1>10 DEF WithinWord

(* The interrupt finds the character in the register, and the handler      *)
(* takes it from there once.                                               *)
LEMMA CharacterTaken ==
  ASSUME NEW w \in Words, NEW i \in 0 .. Len(w.chars), WithinWord(w, i),
         Interrupt \/ UartGetChar \/ UartHandleIrq \/ IrqAck
  PROVE  WithinWord(w, i)'
<1>1. UNCHANGED <<typing, typed, line, sent>>
  BY DEF Interrupt, UartGetChar, UartHandleIrq, IrqAck, user
<1>2. /\ i > 0 /\ line = After(w, i - 1)
      /\ InRegister(w.chars[i]) \/ InHandler(w.chars[i])
  BY DEF WithinWord, Quiet, Interrupt, UartGetChar, UartHandleIrq, IrqAck
<1>3. InRegister(w.chars[i])' \/ InHandler(w.chars[i])'
  <2>1. CASE Interrupt
    BY <1>2, <2>1 DEF Interrupt, InRegister, InHandler
  <2>2. CASE UartGetChar
    <3>1. InRegister(w.chars[i])
      BY <1>2, <2>2 DEF UartGetChar, InHandler
    <3>2. ch' = w.chars[i]
      BY <2>2, <3>1 DEF UartGetChar, InRegister
    <3> QED BY <2>2, <3>2 DEF UartGetChar, InHandler
  <2>3. CASE UartHandleIrq
    BY <1>2, <2>3 DEF UartHandleIrq, InRegister, InHandler
  <2>4. CASE IrqAck
    BY <1>2, <2>4 DEF IrqAck, InRegister, InHandler
  <2> QED BY <2>1, <2>2, <2>3, <2>4
<1> QED BY <1>1, <1>2, <1>3 DEF WithinWord

(* Fed to the parser, it is one more of the line, or the end of the word.  *)
LEMMA CharacterFed ==
  ASSUME \A w \in Words : IsWord(w),
         NEW w \in Words, NEW i \in 0 .. Len(w.chars), WithinWord(w, i), FeedChar
  PROVE  WithinWord(w, i)' \/ BetweenWords'
<1>1. /\ line' = Feed(ch).line /\ pc = "feed" /\ pc' = "wait"
      /\ sent' = IF Feed(ch).out = {} THEN sent
                 ELSE Append(sent, CHOOSE m \in Feed(ch).out : TRUE)
      /\ UNCHANGED <<typing, typed, register, irq, pending>>
  BY DEF FeedChar, user, device
<1>2. i > 0 /\ line = After(w, i - 1) /\ InHandler(w.chars[i])
  BY <1>1 DEF WithinWord, Quiet, InRegister
<1>3. Quiet'
  BY <1>1, <1>2 DEF InHandler, Quiet
<1>4. ch = w.chars[i]
  BY <1>2 DEF InHandler
<1>5. i \in 1 .. Len(w.chars) /\ Len(w.chars) \in Nat
  BY <1>2, WordsAssumption, LenProperties
<1>6. IF i < Len(w.chars)
      THEN Feed(ch).line = After(w, i) /\ Feed(ch).out = {}
      ELSE Feed(ch).line = <<>> /\ Gives(Feed(ch).out, w.means)
  BY <1>2, <1>4, <1>5, FeedWord
<1>7. CASE i < Len(w.chars)
  BY <1>1, <1>3, <1>6, <1>7 DEF WithinWord
<1>8. CASE i = Len(w.chars)
  <2>1. typing' = <<>>
    BY <1>1, <1>8, ToType DEF WithinWord
  <2>2. line' = <<>>
    BY <1>1, <1>6, <1>8
  <2>3. typed = IF w.means = NoMessage THEN sent ELSE Append(sent, w.means)
    BY DEF WithinWord
  <2>4. Gives(Feed(ch).out, w.means)
    BY <1>6, <1>8
  <2>5. typed' = sent'
    BY <1>1, <2>3, <2>4 DEF Gives
  <2> QED BY <1>3, <2>1, <2>2, <2>5 DEF BetweenWords
<1> QED BY <1>5, <1>7, <1>8

LEMMA WordsStep ==
  ASSUME Paced, \A w \in Words : IsWord(w), WordsInv, [Next]_vars
  PROVE  WordsInv'
<1>1. ASSUME NEW w \in Words, BeginWord(w) PROVE WordsInv'
  BY <1>1, WordBegins
<1>2. CASE BetweenWords /\ (Receive \/ Interrupt \/ Commandin)
  BY <1>2 DEF BetweenWords, Quiet, Receive, Interrupt, Commandin, UartGetChar, UartHandleIrq,
              IrqAck, FeedChar
<1>3. ASSUME NEW w \in Words, NEW i \in 0 .. Len(w.chars), WithinWord(w, i),
             Receive \/ Interrupt \/ Commandin
      PROVE  WordsInv'
  <2>1. CASE Receive
    BY <1>3, <2>1, CharacterArrives DEF WordsInv
  <2>2. CASE Interrupt \/ UartGetChar \/ UartHandleIrq \/ IrqAck
    BY <1>3, <2>2, CharacterTaken DEF WordsInv
  <2>3. CASE FeedChar
    BY <1>3, <2>3, CharacterFed DEF WordsInv
  <2> QED BY <1>3, <2>1, <2>2, <2>3 DEF Commandin
<1>4. CASE UNCHANGED vars
  BY <1>4 DEF vars, user, device, WordsInv, BetweenWords, WithinWord, Quiet, InRegister, InHandler
<1> QED BY <1>1, <1>2, <1>3, <1>4 DEF Next, WordsInv

(* Every word that is a command letter, or a line whose characters are not *)
(* taken for command letters, is read as it reads as a whole: between the  *)
(* words of a console that waits for each character, what has been sent is *)
(* what was meant.  The interrupt's path neither loses, repeats nor        *)
(* reorders a character, and a line that overflows the buffer leaves only  *)
(* what came after (commandin.c:515-536, light_transport.c:74-126).        *)
THEOREM WordsAreUnderstood ==
  ASSUME Paced, \A w \in Words : IsWord(w)
  PROVE  Spec => []WordsUnderstood
<1>1. WordsInv /\ [Next]_vars => WordsInv'
  BY WordsStep
<1>2. WordsInv => WordsUnderstood
  <2> SUFFICES ASSUME WordsInv, typing = <<>>, Quiet PROVE sent = typed /\ line = <<>>
    BY DEF WordsUnderstood
  <2>1. ASSUME NEW w \in Words, NEW i \in 0 .. Len(w.chars), WithinWord(w, i) PROVE FALSE
    <3>1. i = Len(w.chars)
      BY <2>1, ToType DEF WithinWord
    <3>2. Len(w.chars) \in Nat
      BY WordsAssumption, LenProperties
    <3> QED BY <2>1, <3>1, <3>2 DEF WithinWord, InRegister, InHandler, Quiet
  <2> QED BY <2>1 DEF WordsInv, BetweenWords
<1> QED BY <1>1, <1>2, WordsInit, PTL DEF Spec
===============================================================================
