-------------------------------- MODULE Scanner --------------------------------
(***************************************************************************)
(* The Scanner (src/src/scanner.cc): one pass over the characters of the   *)
(* source, with two of them looked at. A step is a turn of one of its      *)
(* loops. A character stands for all that are scanned alike: "1" for the   *)
(* digits, "q" for the quote, "=" for the four that may be followed by an  *)
(* equals sign, "@" for the ones no token begins with, any other that is   *)
(* no letter for those that are a token by themselves.                     *)
(***************************************************************************)
EXTENDS Integers, Sequences, FiniteSets

CONSTANTS Chars,     \* characters of the programs
          Letters,   \* the ones is_alpha() accepts
          Keywords,  \* texts that are reserved words
          MaxLength  \* bound: characters of a program

\* No letter means anything else to the scanner.
ASSUME LettersApart ==
  Letters \cap {"end", "newline", " ", "1", "q", "/", "=", "@"} = {}

ASSUME LengthIsNatural == MaxLength \in Nat

VARIABLES
  source,
  start, current,  \* characters before the lexeme, and consumed
  line,
  mode,            \* which loop the scanner is in
  tokens,          \* <<[type, text, line]>>
  had_error

vars == <<source, start, current, line, mode, tokens, had_error>>

Newline == "newline"
Blanks == {" ", Newline}
Digits == {"1"}

Init ==
  /\ \E n \in 0..MaxLength : source \in [1..n -> Chars]
  /\ start = 0 /\ current = 0 /\ line = 1
  /\ mode = "scan"
  /\ tokens = <<>>
  /\ had_error = FALSE

-----------------------------------------------------------------------------
\* The n-th of the characters ahead; "end" past the last one.
Ahead(n) == IF current + n <= Len(source) THEN source[current + n] ELSE "end"
AtEnd == current >= Len(source)
Peek == Ahead(1)

Text(n) == SubSeq(source, start + 1, n)

\* advance(), n times, where the loops that may meet a newline count it.
Advance(n) ==
  /\ current' = current + n
  /\ line' = IF Peek = Newline THEN line + 1 ELSE line

Add(type) ==
  tokens' = Append(tokens, [type |-> type, text |-> Text(current'), line |-> line'])

NoToken == UNCHANGED <<tokens, had_error>>
InLexeme == UNCHANGED <<source, start>>

-----------------------------------------------------------------------------
(* scan_token(): the first character of a lexeme. Whether "=" or a slash is     *)
(* alone is known at once.                                                    *)
Loop(c) ==
  CASE c = "/" /\ Ahead(2) = "/" -> "comment"
    [] c = "/" /\ Ahead(2) = "*" -> "block"
    [] c = "q" -> "string"
    [] c \in Digits -> "number"
    [] c \in Letters -> "identifier"
    [] OTHER -> "scan"

Length(c) ==
  IF Loop(c) \in {"comment", "block"} \/ (c = "=" /\ Ahead(2) = "=") THEN 2 ELSE 1

ScanToken ==
  /\ mode = "scan" /\ ~AtEnd
  /\ start' = current
  /\ mode' = Loop(Peek)
  /\ Advance(Length(Peek))
  /\ IF mode' = "scan" /\ Peek \notin Blanks \cup {"@"}
     THEN tokens' = Append(tokens, [type |-> IF Length(Peek) = 2 THEN "EQUAL_EQUAL" ELSE Peek,
                                    text |-> SubSeq(source, current + 1, current'),
                                    line |-> line'])
     ELSE UNCHANGED tokens
  /\ had_error' = (had_error \/ Peek = "@")
  /\ UNCHANGED source

\* A comment of one line stops before the newline.
LineComment ==
  /\ mode = "comment"
  /\ IF Peek # Newline /\ ~AtEnd THEN Advance(1) /\ UNCHANGED mode
     ELSE mode' = "scan" /\ UNCHANGED <<current, line>>
  /\ NoToken /\ InLexeme

\* Mutant: the end of the source does not end the comment.
BlockCommentNoEnd ==
  /\ mode = "block" /\ ~AtEnd
  /\ IF Peek = "*" /\ Ahead(2) = "/" THEN Advance(2) /\ mode' = "scan"
     ELSE Advance(1) /\ UNCHANGED mode
  /\ NoToken /\ InLexeme

\* A comment that the end of the source cuts off is accepted.
BlockComment ==
  /\ mode = "block"
  /\ CASE AtEnd -> mode' = "scan" /\ UNCHANGED <<current, line>>
       [] Peek = "*" /\ Ahead(2) = "/" -> Advance(2) /\ mode' = "scan"
       [] OTHER -> Advance(1) /\ UNCHANGED mode
  /\ NoToken /\ InLexeme

\* Mutant: the newlines of a string are not counted.
StringOneLine ==
  /\ mode = "string"
  /\ CASE AtEnd -> mode' = "scan" /\ had_error' = TRUE /\ UNCHANGED <<current, line, tokens>>
       [] Peek = "q" -> Advance(1) /\ mode' = "scan" /\ Add("STRING") /\ UNCHANGED had_error
       [] OTHER -> current' = current + 1 /\ NoToken /\ UNCHANGED <<mode, line>>
  /\ InLexeme

String ==
  /\ mode = "string"
  /\ CASE AtEnd -> mode' = "scan" /\ had_error' = TRUE /\ UNCHANGED <<current, line, tokens>>
       [] Peek = "q" -> Advance(1) /\ mode' = "scan" /\ Add("STRING") /\ UNCHANGED had_error
       [] OTHER -> Advance(1) /\ NoToken /\ UNCHANGED mode
  /\ InLexeme

\* Mutant: the fraction's digits are asked for after the dot is consumed.
NumberDotFirst ==
  /\ mode \in {"number", "fraction"}
  /\ CASE Peek \in Digits -> Advance(1) /\ NoToken /\ UNCHANGED mode
       [] mode = "number" /\ Peek = "." -> Advance(1) /\ mode' = "fraction" /\ NoToken
       [] OTHER -> /\ mode' = "scan"
                   /\ UNCHANGED <<current, line, had_error>>
                   /\ Add("NUMBER")
  /\ InLexeme

\* A dot belongs to the number only if a digit follows it.
Number ==
  /\ mode \in {"number", "fraction"}
  /\ CASE Peek \in Digits -> Advance(1) /\ NoToken /\ UNCHANGED mode
       [] mode = "number" /\ Peek = "." /\ Ahead(2) \in Digits ->
            Advance(1) /\ mode' = "fraction" /\ NoToken
       [] OTHER -> /\ mode' = "scan"
                   /\ UNCHANGED <<current, line, had_error>>
                   /\ Add("NUMBER")
  /\ InLexeme

Identifier ==
  /\ mode = "identifier"
  /\ IF Peek \in Letters \cup Digits THEN Advance(1) /\ NoToken /\ UNCHANGED mode
     ELSE /\ mode' = "scan"
          /\ UNCHANGED <<current, line, had_error>>
          /\ Add(IF Text(current) \in Keywords THEN "KEYWORD" ELSE "IDENTIFIER")
  /\ InLexeme

EndOfFile ==
  /\ mode = "scan" /\ AtEnd
  /\ mode' = "done"
  /\ tokens' = Append(tokens, [type |-> "END_OF_FILE", text |-> <<>>, line |-> line])
  /\ UNCHANGED <<source, start, current, line, had_error>>

Next == \/ ScanToken \/ LineComment \/ BlockComment \/ String \/ Number \/ Identifier
        \/ EndOfFile

Spec == Init /\ [][Next]_vars /\ WF_vars(Next)

-----------------------------------------------------------------------------
(* The line that tokens and errors are given counts the newlines consumed,
   in comments and strings as between tokens (scanner.cc:93-95, 114, 168). *)
LinesCounted == line = 1 + Cardinality({i \in 1..current : source[i] = Newline})

-----------------------------------------------------------------------------
(* What the lexemes of the language are, as predicates on texts; last says     *)
(* whether the text ends with the source.                                     *)
In(S, s) == \A i \in DOMAIN s : s[i] \in S
Begins(p, s) == Len(s) >= Len(p) /\ SubSeq(s, 1, Len(p)) = p
HasBefore(p, s, n) == \E i \in 3..n - 1 : SubSeq(s, i, i + 1) = p

IsNumber(s) ==
  \/ In(Digits, s)
  \/ \E i \in 2..Len(s) - 1 : s[i] = "." /\ \A j \in DOMAIN s \ {i} : s[j] \in Digits
IsIdentifier(s) == s[1] \in Letters /\ In(Letters \cup Digits, s)
IsString(s, last) ==
  /\ s[1] = "q" /\ \A i \in 2..Len(s) - 1 : s[i] # "q"
  /\ last \/ (Len(s) > 1 /\ s[Len(s)] = "q")
IsComment(s, last) ==
  \/ Begins(<<"/", "/">>, s) /\ Newline \notin {s[i] : i \in DOMAIN s}
  \/ /\ Begins(<<"/", "*">>, s)
     /\ ~HasBefore(<<"*", "/">>, s, Len(s) - 1)
     /\ last \/ HasBefore(<<"*", "/">>, s, Len(s))

IsLexeme(s, last) ==
  \/ Len(s) = 1 \/ s = <<"=", "=">>
  \/ IsNumber(s) \/ IsIdentifier(s) \/ IsString(s, last) \/ IsComment(s, last)

\* The type of the token a lexeme is; "none" for blanks, comments and errors.
TokenType(s) ==
  CASE IsComment(s, TRUE) \/ s[1] \in Blanks \cup {"@"} -> "none"
    [] s[1] = "q" -> IF Len(s) > 1 /\ s[Len(s)] = "q" THEN "STRING" ELSE "none"
    [] IsNumber(s) -> "NUMBER"
    [] IsIdentifier(s) -> IF s \in Keywords THEN "KEYWORD" ELSE "IDENTIFIER"
    [] s = <<"=", "=">> -> "EQUAL_EQUAL"
    [] OTHER -> s[1]

(* What scan_token() consumes is the longest lexeme the rest of the source
   begins with, and the last token is the one that lexeme is, if it is one
   (scanner.cc:30-31, 43-131). *)
LongestMatch ==
  mode = "scan" /\ current > 0 =>
    /\ IsLexeme(Text(current), AtEnd)
    /\ \A n \in current + 1..Len(source) : ~IsLexeme(Text(n), n = Len(source))
    /\ LET type == TokenType(Text(current))
       IN  type # "none" => /\ tokens # <<>>
                            /\ tokens[Len(tokens)] = [type |-> type, text |-> Text(current),
                                                      line |-> line]

(* scan_tokens() ends for every source, cut off wherever it is. *)
ScanEnds == <>(mode = "done")
===============================================================================
