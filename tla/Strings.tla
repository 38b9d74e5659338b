------------------------------- MODULE Strings -------------------------------
(***************************************************************************)
(* The methods of String (modules/std/core/str.cc).  A method takes the    *)
(* text it is called on and the arguments that check_args let through, and *)
(* gives what Operators calls an outcome, with the text afterwards: setChar*)
(* writes into it.                                                         *)
(*                                                                         *)
(* Positions and counts are converted to an unsigned size_t: a negative one*)
(* becomes Huge, and the npos of a failed search becomes -1 again.         *)
(***************************************************************************)
EXTENDS Operators, SequencesExt

Huge == 10000
SizeT(n) == IF n < 0 THEN Huge + n ELSE n
Npos == Huge - 1
Long(p) == IF p = Npos THEN -1 ELSE p

Blank == 0
UpperBy == 100      \* what toupper adds to a letter
IsLower(c) == c \in 1 .. UpperBy - 1
IsUpper(c) == c \in UpperBy + 1 .. 2 * UpperBy - 1

\* A String that an array holds; arrays come back as their parts.
Parts(list) == [t |-> "Array", n |-> 0, s |-> <<>>, parts |-> list]

Or(args, k, default) == IF k <= Len(args) THEN args[k].n ELSE default
Lowest(S) == IF S = {} THEN Npos ELSE CHOOSE x \in S : \A y \in S : x <= y
Highest(S) == IF S = {} THEN Npos ELSE CHOOSE x \in S : \A y \in S : x >= y

-------------------------------------------------------------------------------
(* std::string, external; positions count from 0.                          *)
At(s, p, needle) == p + Len(needle) <= Len(s) /\ SubSeq(s, p + 1, p + Len(needle)) = needle
StdFind(s, needle, pos) == Lowest({p \in 0 .. Len(s) : p >= pos /\ At(s, p, needle)})
StdRFind(s, needle) == Highest({p \in 0 .. Len(s) : At(s, p, needle)})
FirstOf(s, chars, pos) == Lowest({p \in 0 .. Len(s) - 1 : p >= pos /\ s[p + 1] \in chars})
LastOf(s, chars, pos) == Highest({p \in 0 .. Len(s) - 1 : p <= pos /\ s[p + 1] \in chars})
EraseTo(s, p) == IF p >= Len(s) THEN <<>> ELSE SubSeq(s, p + 1, Len(s))

-------------------------------------------------------------------------------
\* find, findFirst, findLast search for `count' characters at the needle's c_str,
\* behind which lies its end.
Needle(args) ==
  LET count == SizeT(Or(args, 3, Len(args[1].s)))
  IN [count |-> count, text |-> SubSeq(args[1].s, 1, IF count > Len(args[1].s) THEN Len(args[1].s) ELSE count)]
Beyond(args) == Needle(args).count > Len(args[1].s) + 1

\* With its end the needle is in no text.
Find(s, args) ==
  LET pos == SizeT(Or(args, 2, 0))
      count == Needle(args).count
  IN IF count <= Len(args[1].s) THEN Answer(IntVal(Long(StdFind(s, Needle(args).text, pos))))
     ELSE IF pos + count > Len(s) \/ ~Beyond(args) THEN Answer(IntVal(-1)) ELSE Stray

Chars(seq) == {seq[i] : i \in DOMAIN seq}
FindFirst(s, args) ==
  IF Beyond(args) /\ SizeT(Or(args, 2, 0)) < Len(s) THEN Stray
  ELSE Answer(IntVal(Long(FirstOf(s, Chars(Needle(args).text), SizeT(Or(args, 2, 0))))))
FindLast(s, args) ==
  IF Beyond(args) /\ s # <<>> THEN Stray
  ELSE Answer(IntVal(Long(LastOf(s, Chars(Needle(args).text), SizeT(Or(args, 2, Len(s)))))))

SubString(s, args) ==
  LET start == SizeT(args[1].n)
      count == SizeT(Or(args, 2, Len(s)))
  IN IF start > Len(s) THEN Stray
     ELSE Answer(StrVal(SubSeq(s, start + 1, IF count > Len(s) - start THEN Len(s) ELSE start + count)))

\* An all-blank text ends at position npos + 1, which is 0.
LTrim(s) == EraseTo(s, FirstOf(s, Chars(s) \ {Blank}, 0))
RTrim(s) == LET p == LastOf(s, Chars(s) \ {Blank}, Len(s)) IN SubSeq(s, 1, IF p = Npos THEN 0 ELSE p + 1)

StartsWith(s, with) == Answer(IntVal(IF StdFind(s, with, 0) = 0 THEN 1 ELSE 0))
EndsWith(s, with) == Answer(IntVal(IF StdRFind(s, with) = SizeT(Len(s) - Len(with)) THEN 1 ELSE 0))

\* Fault: the rest of the text is overwritten from position 0.
MutantSetChar(s, pos, str) == [i \in DOMAIN s |-> IF i <= Len(str) THEN str[i] ELSE s[i]]

SetChar(s, pos, str) ==
  [i \in DOMAIN s |-> IF i - 1 >= SizeT(pos) /\ i - SizeT(pos) <= Len(str) THEN str[i - SizeT(pos)] ELSE s[i]]

CharAt(s, pos) ==
  IF pos < 0 THEN Thrown
  ELSE Answer(IF pos < Len(s) THEN StrVal(<<s[pos + 1]>>) ELSE NullVal)

\* s[key]: a key that equals the size passes the check, and data->at throws.
AtOp(s, key) ==
  IF key < 0 \/ key > Len(s) THEN Thrown
  ELSE IF key = Len(s) THEN Stray
  ELSE Answer(StrVal(<<s[key + 1]>>))

\* split: the loop, at `position' with `buffer' begun and `list' done.  A piece
\* ends where the delimiter does; maximum 0 is no maximum.
RECURSIVE SplitFrom(_, _, _, _, _, _)
SplitFrom(s, delimiter, maximum, position, buffer, list) ==
  IF position >= Len(s) THEN Append(list, buffer)
  ELSE IF (maximum = 0 \/ Len(list) < maximum) /\ StdFind(s, delimiter, position) = position
  THEN SplitFrom(s, delimiter, maximum, position + Len(delimiter), <<>>, Append(list, buffer))
  ELSE SplitFrom(s, delimiter, maximum, position + 1, Append(buffer, s[position + 1]), list)

Split(s, args) ==
  Answer(Parts(IF s = <<>> THEN <<>>
               ELSE IF args[1].s = <<>> THEN <<s>>
               ELSE SplitFrom(s, args[1].s, SizeT(Or(args, 2, 0)), 0, <<>>, <<>>)))

Replace(s, needle, by) ==
  LET pos == StdFind(s, needle, 0)
  IN Answer(StrVal(IF pos = Npos THEN s
                   ELSE SubSeq(s, 1, pos) \o by \o SubSeq(s, pos + Len(needle) + 1, Len(s))))

ToUpper(s) == [i \in DOMAIN s |-> IF IsLower(s[i]) THEN s[i] + UpperBy ELSE s[i]]
ToLower(s) == [i \in DOMAIN s |-> IF IsUpper(s[i]) THEN s[i] - UpperBy ELSE s[i]]

-------------------------------------------------------------------------------
StringMethod(m, s, args) ==
  CASE m = "subString"  -> SubString(s, args)
    [] m = "find"       -> Find(s, args)
    [] m = "findFirst"  -> FindFirst(s, args)
    [] m = "findLast"   -> FindLast(s, args)
    [] m = "ltrim"      -> Answer(StrVal(LTrim(s)))
    [] m = "rtrim"      -> Answer(StrVal(RTrim(s)))
    [] m = "trim"       -> Answer(StrVal(RTrim(LTrim(s))))
    [] m = "startsWith" -> StartsWith(s, args[1].s)
    [] m = "endsWith"   -> EndsWith(s, args[1].s)
    [] m = "setChar"    -> Kept
    [] m = "charAt"     -> CharAt(s, args[1].n)
    [] m = "at_op"      -> AtOp(s, args[1].n)
    [] m = "size"       -> Answer(IntVal(Len(s)))
    [] m = "split"      -> Split(s, args)
    [] m = "replace"    -> Replace(s, args[1].s, args[2].s)
    [] m = "toUpper"    -> Answer(StrVal(ToUpper(s)))
    [] m = "toLower"    -> Answer(StrVal(ToLower(s)))

TextAfter(m, s, args) == IF m = "setChar" THEN SetChar(s, args[1].n, args[2].s) ELSE s

=============================================================================
