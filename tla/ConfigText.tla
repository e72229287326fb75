------------------------------ MODULE ConfigText ------------------------------
(***************************************************************************)
(* How manager/src/ConfigParser.cpp reads the text of a value: comments,   *)
(* quotes, lists, words, numbers and sizes.                                *)
(*                                                                         *)
(* A text is a sequence of characters.  One character stands for each      *)
(* class the code tells apart: " " for the blanks, "#" for both comment    *)
(* marks, and a whole word such as "auto" for its letters.  Numbers are    *)
(* integers, Unparsed where std::from_chars refuses the text.              *)
(***************************************************************************)
EXTENDS Integers, Sequences, SequencesExt

CONSTANTS
  Unparsed,        \* std::nullopt
  None,            \* the value "none" of a limit
  MaxNameLength,   \* max_service_name_length, 31
  Kilo,            \* the step of the size suffixes, 1024
  SignedMax,       \* the largest std::int64_t
  UnsignedMax      \* the largest std::uint64_t

ASSUME ConfigTextAssumption ==
  /\ MaxNameLength \in Nat \ {0}
  /\ Kilo \in Nat \ {0, 1}
  /\ SignedMax \in Nat
  /\ UnsignedMax = 2 * SignedMax + 1

IsText(text) == text \in Seq(ToSet(text))

IsBlank(c) == c = " "

Quotes == {"'", "\""}

\* The least of a set of positions, or the one after the text.
FirstOf(positions, text) == Min(positions \cup {Len(text) + 1})

Trim(text) == LET kept == {i \in DOMAIN text : ~IsBlank(text[i])}
              IN SubSeq(text, FirstOf(kept, text), Max(kept \cup {0}))

StartsComment(value, i) == value[i] = "#" /\ (i = 1 \/ IsBlank(value[i - 1]))

CutAtComment(value, from) ==
  SubSeq(value, 1, FirstOf({i \in DOMAIN value : i >= from /\ StartsComment(value, i)}, value) - 1)

\* The backslash here is read together with the quote or backslash after it.
IsEscape(text, i) == text[i] = "\\" /\ i < Len(text) /\ text[i + 1] \in {"\"", "\\"}

\* Where the quote opened at first closes; after the text when it does not.
ClosingQuote(value, first) ==
  LET closing[i \in (first + 1)..(Len(value) + 1)] ==
        IF i > Len(value) \/ value[i] = value[first] THEN i
        ELSE closing[i + (IF value[first] = "\"" /\ IsEscape(value, i) THEN 2 ELSE 1)]
  IN closing[first + 1]

\* The comment of a value that may be quoted as a whole.
StripAfterQuote(value) ==
  LET first == FirstOf({i \in DOMAIN value : ~IsBlank(value[i])}, value)
  IN IF first > Len(value) \/ value[first] \notin Quotes THEN CutAtComment(value, 1)
     ELSE CutAtComment(value, ClosingQuote(value, first) + 1)

\* The comment of a value that is split like a shell's: quotes are looked for anywhere.
StripOutsideQuotes(value) ==
  LET comment[i \in 1..(Len(value) + 1), quote \in Quotes \cup {""}] ==
        CASE i > Len(value) -> i
          [] i <= Len(value) /\ quote # "" ->
               IF value[i] = quote THEN comment[i + 1, ""]
               ELSE IF quote = "\"" /\ value[i] = "\\" /\ i < Len(value) THEN comment[i + 2, quote]
               ELSE comment[i + 1, quote]
          [] i <= Len(value) /\ quote = "" ->
               IF value[i] \in Quotes THEN comment[i + 1, value[i]]
               ELSE IF StartsComment(value, i) THEN i
               ELSE comment[i + 1, ""]
  IN SubSeq(value, 1, comment[1, ""] - 1)

\* Mutant: a mark inside quotes starts a comment all the same.
StripBlindly(value, shellQuotes) == CutAtComment(value, 1)

StripInlineComment(value, shellQuotes) ==
  IF shellQuotes THEN StripOutsideQuotes(value) ELSE StripAfterQuote(value)

Unescape(text) ==
  LET rest[i \in 1..(Len(text) + 2)] ==
        IF i > Len(text) THEN <<>>
        ELSE IF IsEscape(text, i) THEN <<text[i + 1]>> \o rest[i + 2]
        ELSE <<text[i]>> \o rest[i + 1]
  IN rest[1]

Unquote(value) ==
  LET inner == SubSeq(value, 2, Len(value) - 1)
      IsQuotedBy(c) == Len(value) >= 2 /\ value[1] = c /\ value[Len(value)] = c
  IN CASE IsQuotedBy("'") -> inner
       [] IsQuotedBy("\"") -> Unescape(inner)
       [] OTHER -> value

\* The items of a list, separated by commas and blanks.
SplitList(text) ==
  LET IsBreak(i) == i \in {0, Len(text) + 1} \/ text[i] \in {",", " "}
      Starts == {i \in DOMAIN text : ~IsBreak(i) /\ IsBreak(i - 1)}
      EndOf(i) == Min({j \in i..Len(text) : IsBreak(j + 1)})
  IN [k \in 1..Cardinality(Starts) |->
        LET start == SetToSortSeq(Starts, <)[k] IN SubSeq(text, start, EndOf(start))]

\* One character of SplitArguments; skip is set when it was read with the one before.
SplitStep(text, split, i) ==
  LET c == text[i]
      Push(x) == [split EXCEPT !.current = Append(@, x)]
  IN CASE split.skip -> [split EXCEPT !.skip = FALSE]
       [] ~split.skip /\ split.quote # "" ->
            IF split.quote = "\"" /\ IsEscape(text, i) THEN [Push(text[i + 1]) EXCEPT !.skip = TRUE]
            ELSE IF c = split.quote THEN [split EXCEPT !.quote = ""]
            ELSE Push(c)
       [] ~split.skip /\ split.quote = "" /\ IsBlank(c) ->
            IF split.inToken
            THEN [split EXCEPT !.arguments = Append(@, split.current), !.current = <<>>, !.inToken = FALSE]
            ELSE split
       [] OTHER ->
            [(IF c \in Quotes THEN [split EXCEPT !.quote = c] ELSE Push(c)) EXCEPT !.inToken = TRUE]

\* The arguments, or Unparsed when a quote is not closed.
SplitArguments(text) ==
  LET start == [arguments |-> <<>>, current |-> <<>>, inToken |-> FALSE, quote |-> "", skip |-> FALSE]
      split == FoldLeft(LAMBDA s, i : SplitStep(text, s, i), start, [i \in DOMAIN text |-> i])
  IN IF split.quote # "" THEN Unparsed
     ELSE IF split.inToken THEN Append(split.arguments, split.current)
     ELSE split.arguments

----------------------------------------------------------------------------
(* Words, numbers and sizes *)

ParseBool(word) ==
  CASE word \in {"true", "yes", "on", "1"} -> TRUE
    [] word \in {"false", "no", "off", "0"} -> FALSE
    [] OTHER -> Unparsed

ParseRestartMode(word) ==
  CASE word \in {"never", "no"} -> "never"
    [] word \in {"on-failure", "always"} -> word
    [] OTHER -> Unparsed

StopSignals == {"TERM", "INT", "HUP", "QUIT", "KILL", "USR1", "USR2"}

ParseStopSignal(word) ==
  IF \E s \in StopSignals : word \in {s, "SIG" \o s}
  THEN CHOOSE s \in StopSignals : word \in {s, "SIG" \o s}
  ELSE Unparsed

\* ParseInteger: what a number of digits gives in 64 bits.
ParseInteger(number) == IF number # Unparsed /\ number <= SignedMax THEN number ELSE Unparsed

\* number times Kilo to the power, one factor at a time in unsigned arithmetic.
ByteSize(number, power) ==
  LET bytes[p \in 0..power] ==
        IF p = 0 THEN ParseInteger(number)
        ELSE IF bytes[p - 1] = Unparsed \/ bytes[p - 1] > UnsignedMax \div Kilo THEN Unparsed
        ELSE (bytes[p - 1] * Kilo) % (UnsignedMax + 1)
  IN bytes[power]

IsNameCharacter(c) == c \notin {" ", ",", "#", "'", "\"", "\\", "/", "="}

IsValidServiceName(name) ==
  /\ Len(name) \in 1..MaxNameLength
  /\ name \notin {<<".">>, <<".", ".">>}
  /\ \A i \in DOMAIN name : IsNameCharacter(name[i])

=============================================================================
