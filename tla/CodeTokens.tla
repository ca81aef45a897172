----------------------------- MODULE CodeTokens ----------------------------
(***************************************************************************)
(* How the dark studio divides a line of code into the tokens it colours   *)
(* (tokenize_code_line of samples/NativeFrameUIDarkStudio).  A character   *)
(* is known by what it is to the tokenizer; its two kinds of quotes stand  *)
(* for three.                                                              *)
(***************************************************************************)
EXTENDS Integers, Sequences

CONSTANT Longest      \* the length up to which lines are tried

Single == "single quote"
Double == "double quote"
Quotes == {Single, Double}
Characters == Quotes \cup {"word", "blank", "backslash", "slash", "star", "other"}

VARIABLE win          \* the line

-----------------------------------------------------------------------------
(* A token reaches from a place in the line up to, not including, another. *)

FirstFrom(line, i, characters) ==
    LET stops == {j \in i..Len(line) : line[j] \in characters}
    IN IF stops = {} THEN Len(line) + 1 ELSE CHOOSE j \in stops : \A k \in stops : j <= k

\* Slip: a backslash is nothing special.
StringEnd_unescaped(line, i) ==
    LET close == FirstFrom(line, i + 1, {line[i]})
    IN IF close > Len(line) THEN close ELSE close + 1

\* A backslash takes the next character with it.
StringEnd(line, i) ==
    LET close[j \in Nat] ==
            IF j > Len(line) THEN Len(line) + 1
            ELSE IF line[j] = line[i] THEN j + 1
            ELSE IF line[j] = "backslash" /\ j < Len(line) THEN close[j + 2]
            ELSE close[j + 1]
    IN close[i + 1]

IsComment(line, i) ==
    /\ line[i] = "slash"
    /\ i < Len(line)
    /\ line[i + 1] \in {"slash", "star"}

\* A comment takes the rest of the line; punctuation all that is not blank,
\* word or quote, the slashes of a comment included.
TokenEnd(line, i) ==
    CASE line[i] = "blank" -> FirstFrom(line, i, Characters \ {"blank"})
      [] line[i] \in Quotes -> StringEnd(line, i)
      [] IsComment(line, i) -> Len(line) + 1
      [] line[i] = "word" -> FirstFrom(line, i, Characters \ {"word"})
      [] OTHER -> FirstFrom(line, i, Quotes \cup {"blank", "word"})

Tokens(line) ==
    LET from[i \in Nat] ==
            IF i > Len(line) THEN {}
            ELSE {[first |-> i, next |-> TokenEnd(line, i)]} \cup from[TokenEnd(line, i)]
    IN from[1]

Init == win = <<>>

Next == win' \in IF Len(win) < Longest THEN {Append(win, c) : c \in Characters} ELSE {<<>>}

Spec == Init /\ [][Next]_win

-----------------------------------------------------------------------------
(* Property.                                                               *)

\* Within a string, a quote after an odd number of backslashes is escaped.
Escaped(line, k) ==
    \E n \in 0..k - 1 :
        /\ n % 2 = 1
        /\ \A j \in k - n..k - 1 : line[j] = "backslash"
        /\ k - n = 1 \/ line[k - n - 1] # "backslash"

\* The tokens are the line: nothing is drawn twice or left out.  A string ends
\* at its first quote that is not escaped, words are whole, so that a keyword is
\* not found inside of a name, and quotes are only in strings and comments.
LineIsRead ==
    LET tokens == Tokens(win)
        Covers(t) == t.first..t.next - 1
    IN /\ \A i \in DOMAIN win : \E t \in tokens : i \in Covers(t)
       /\ \A t, u \in tokens : t # u => Covers(t) \cap Covers(u) = {}
       /\ \A t \in tokens :
              LET inside == t.first + 1..t.next - 2
                  last == t.next - 1
              IN CASE win[t.first] \in Quotes ->
                          /\ \A k \in inside : win[k] = win[t.first] => Escaped(win, k)
                          /\ \/ t.next = Len(win) + 1
                             \/ win[last] = win[t.first] /\ ~Escaped(win, last)
                   [] win[t.first] = "word" ->
                          \A k \in {t.first - 1, t.next} \cap DOMAIN win : win[k] # "word"
                   [] IsComment(win, t.first) -> TRUE
                   [] OTHER -> \A k \in Covers(t) : win[k] \notin Quotes \cup {"word"}
=============================================================================
