-------------------------------- MODULE Text --------------------------------
(***************************************************************************)
(* The texts that the library's formats are made of: splitting and joining *)
(* (string.c, list.c), the URI encoding of str_escape, the serialized form *)
(* of a list, and the "key: value" lines of a serialized hash table.       *)
(*                                                                         *)
(* A text is the sequence of its character codes.  The operators have the  *)
(* names of the functions whose results they are.                          *)
(***************************************************************************)
EXTENDS Integers, Sequences, SequencesExt

LF == 10
CR == 13
SPACE == 32
PERCENT == 37
COLON == 58
BACKSLASH == 92

Digits == 48..57
Letters == (65..90) \cup (97..122)

-----------------------------------------------------------------------------
(* Lines and tokens. *)

str_chomp(s) ==
  LET t == IF s # <<>> /\ Last(s) = LF THEN Front(s) ELSE s
  IN  IF t # <<>> /\ Last(t) = CR THEN Front(t) ELSE t

(* strsep(3): the pieces between the delimiters. *)
strsep(s, delimiter) ==
  LET tok[n \in 0..Len(s)] ==
        IF n = 0 THEN << <<>> >>
        ELSE LET t == tok[n-1] IN
             IF s[n] = delimiter THEN Append(t, <<>>)
             ELSE [t EXCEPT ![Len(t)] = Append(@, s[n])]
  IN  tok[Len(s)]

(* Mutant: the carriage returns inside are kept. *)
SplitKeepsCR(s, delimiter) == strsep(str_chomp(s), delimiter)

(* str_split into a new list.  The last character goes if it is a line     *)
(* feed, whatever the delimiter is.                                        *)
str_split(s, delimiter) ==
  IF s = <<>> THEN <<>> ELSE
  LET tok == strsep(str_chomp(s), delimiter)
  IN  [n \in 1..Len(tok) |-> IF delimiter = LF THEN str_chomp(tok[n]) ELSE tok[n]]

(* str_join: a delimiter after all elements but the last, and a line feed  *)
(* after the last one too.                                                 *)
str_join(list, delimiter) ==
  FlattenSeq([i \in 1..Len(list) |->
                IF i < Len(list) THEN Append(list[i], delimiter) ELSE list[i]])
  \o (IF delimiter = LF THEN <<LF>> ELSE <<>>)

-----------------------------------------------------------------------------
(* URI encoding. *)

HexDigit(n) == IF n < 10 THEN 48 + n ELSE 87 + n
HexValue(c) == CASE c \in Digits -> c - 48
                 [] c \in 97..102 -> c - 87
                 [] c \in 65..70 -> c - 55
IsHex(c) == c \in Digits \cup (97..102) \cup (65..70)

(* isalnum(3), and the characters of "/_.-~" *)
Unreserved == Digits \cup Letters \cup {47, 95, 46, 45, 126}

str_escape(s) ==
  FlattenSeq([i \in 1..Len(s) |->
    IF s[i] \in Unreserved THEN <<s[i]>>
    ELSE <<PERCENT, HexDigit(s[i] \div 16), HexDigit(s[i] % 16)>>])

(* str_unescape into dest, which an empty source leaves as it is.  After a *)
(* code the loop goes on three characters later, whether the code had one  *)
(* digit or two.  Reading past the end, and what else sscanf(3) takes for a*)
(* hexadecimal number, are not modelled: str_escape writes neither.        *)
str_unescape(dest, s) ==
  LET code(i) == IF i + 2 <= Len(s) /\ IsHex(s[i+2])
                   THEN 16 * HexValue(s[i+1]) + HexValue(s[i+2])
                   ELSE HexValue(s[i+1])
      rest[i \in 1..(Len(s) + 3)] ==
        IF i > Len(s) THEN <<>>
        ELSE IF s[i] = PERCENT /\ i < Len(s) /\ IsHex(s[i+1])
               THEN <<code(i)>> \o rest[i+3]
               ELSE <<s[i]>> \o rest[i+1]
  IN  IF s = <<>> THEN dest ELSE rest[1]

-----------------------------------------------------------------------------
(* Lists as text: the escaped elements, separated by spaces. *)

list_serialize(list) ==
  str_join([i \in 1..Len(list) |-> str_escape(list[i])], SPACE)

(* One string, buf, takes the unescaped tokens in turn. *)
list_deserialize(s) ==
  LET tok == str_split(s, SPACE)
      buf[i \in 0..Len(tok)] ==
        IF i = 0 THEN <<>> ELSE str_unescape(buf[i-1], tok[i])
  IN  [i \in 1..Len(tok) |-> buf[i]]

-----------------------------------------------------------------------------
(* Hash tables as text: one "key: value" line for each pair, where a value *)
(* of several lines has a backslash before its line feed.                  *)

(* str_subst_regex(val, "\n", "\\\n"): regex_replace_all replaces the first*)
(* match.                                                                  *)
EscapeLF(s) ==
  IF LF \in ToSet(s)
    THEN LET i == SelectInSeq(s, LAMBDA c : c = LF)
         IN  SubSeq(s, 1, i - 1) \o <<BACKSLASH, LF>> \o SubSeq(s, i + 1, Len(s))
    ELSE s

(* hash_serialize, of the pairs in the order of the buckets *)
hash_serialize(pairs) ==
  FlattenSeq([i \in 1..Len(pairs) |->
                pairs[i][1] \o <<COLON, SPACE>> \o EscapeLF(pairs[i][2]) \o <<LF>>])

(* str_str_regex for key and value: the leftmost match of one or more key  *)
(* characters, a colon, a space and any rest; there may be none.           *)
KeyChars == Digits \cup Letters \cup {45, 46, 95}
KeyStarts(s) ==
  {m \in (1..Len(s)) \X (1..Len(s)) :
     /\ m[1] <= m[2] /\ \A n \in m[1]..m[2] : s[n] \in KeyChars
     /\ m[2] + 2 <= Len(s) /\ s[m[2] + 1] = COLON /\ s[m[2] + 2] = SPACE}
Leftmost(s) ==
  CHOOSE m \in KeyStarts(s) : \A o \in KeyStarts(s) : m[1] <= o[1]

(* Mutant: the end of a value of several lines gets no line feed. *)
ValueNotEnded(st) == st.val

(* The value that is stored once its last line has been read. *)
Ended(st) == IF st.multiline THEN Append(st.val, LF) ELSE st.val

(* hash_deserialize takes in one more line: the first of a pair, or the    *)
(* next line of a value.  Without a key to be found the function returns   *)
(* -1 then and there.                                                      *)
TakeLine(st, line) ==
  LET first == st.key = <<>>
      m == Leftmost(line)
      key == IF first THEN SubSeq(line, m[1], m[2]) ELSE st.key
      val == IF first THEN SubSeq(line, m[2] + 3, Len(line)) ELSE st.val \o line
      more == val # <<>> /\ Last(val) = BACKSLASH
  IN  IF st.failed \/ line = <<>> THEN st
      ELSE IF first /\ KeyStarts(line) = {} THEN [st EXCEPT !.failed = TRUE]
      ELSE IF more
        THEN [st EXCEPT !.key = key, !.val = Append(Front(val), LF), !.multiline = TRUE]
        ELSE [st EXCEPT !.key = <<>>, !.val = <<>>, !.multiline = FALSE,
                        !.pairs = Append(@, <<key, Ended([st EXCEPT !.val = val])>>)]

(* hash_deserialize: the pairs that it passes to hash_set, in order, and   *)
(* whether it fails.                                                       *)
hash_deserialize(s) ==
  LET lines == str_split(s, LF)
      after[n \in 0..Len(lines)] ==
        IF n = 0 THEN [key |-> <<>>, val |-> <<>>, multiline |-> FALSE,
                       pairs |-> <<>>, failed |-> FALSE]
                 ELSE TakeLine(after[n-1], lines[n])
      end == after[Len(lines)]
  IN  [pairs |-> end.pairs, failed |-> end.failed \/ end.key # <<>>]
=============================================================================
