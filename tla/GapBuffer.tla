------------------------------ MODULE GapBuffer ------------------------------
(***************************************************************************)
(* gap_buffer/gap_buffer.c: a text of UTF-8 bytes in one array, with a gap *)
(* at the cursor that insertions fill and removals widen.  Counts given to *)
(* the calls are counts of symbols; the code finds the symbols in the      *)
(* bytes, backwards by skipping auxiliary bytes and forwards by the length *)
(* that the first byte of a symbol tells.  The asserts of the file, two of *)
(* them marked "FIXME: This triggers sometimes", set gapAbort.             *)
(*                                                                         *)
(* The array is gap.data, indexed from 0 as in C; the bytes in the gap are *)
(* what earlier calls left there.                                          *)
(***************************************************************************)
EXTENDS Integers, Sequences, FiniteSetsExt, SequencesExt

CONSTANTS Texts,        \* the texts a caller inserts: sequences of code points
          NotUtf8,      \* the byte strings a caller inserts that are no text
          Capacities,   \* sizes of the memory given to create and clone
          MaxTotal,     \* bound of the model: largest buffer
          MaxNum,       \* bound of the model: the largest count in a call
          MaybeSize     \* sizeof(iter->maybe): 512

(* The code points of Unicode *)
MaxRune == 1114111
Runes == 0 .. MaxRune

ASSUME GapAssumption ==
    /\ Texts \subseteq Seq(Runes)
    /\ NotUtf8 \subseteq Seq(0 .. 255)
    /\ Capacities \subseteq Nat
    /\ MaxNum \in Nat

VARIABLES gap,       \* the GapBuffer
          iter,      \* a GapBufferIter, or its absence
          lines,     \* the lines that iter has returned
          gapAbort   \* an assert has failed

gapVars == <<gap, iter, lines, gapAbort>>

Buffer(total, offset, length, data) ==
    [total |-> total, gap_offset |-> offset, gap_length |-> length, data |-> data]

NoIter == [state |-> "none", crossed_gap |-> FALSE, cur |-> 0]

Newline == 10

(* A line whose bytes are not the text's: see GapBufferIter_next *)
Torn == <<-1>>

(* UTF-8 as test.c encodes it *)
Encode(rune) ==
    LET tail(unit) == 128 + ((rune \div unit) % 64)
    IN  CASE rune < 128                    -> <<rune>>
          [] rune >= 128 /\ rune < 2048    -> <<192 + (rune \div 64), tail(1)>>
          [] rune >= 2048 /\ rune < 65536  -> <<224 + (rune \div 4096), tail(64), tail(1)>>
          [] rune >= 65536                 -> <<240 + (rune \div 262144), tail(4096), tail(64), tail(1)>>

EncodeAll(runes) == FlattenSeq([i \in DOMAIN runes |-> Encode(runes[i])])

(* What callers insert *)
Strings == {EncodeAll(runes) : runes \in Texts} \cup NotUtf8

(* GapBuffer_createUsingMemory; what malloc's memory holds is never read. *)
Created(capacity) == Buffer(capacity, 0, capacity, [i \in 0 .. capacity - 1 |-> 0])

GapInit ==
    /\ \E capacity \in Capacities : gap = Created(capacity)
    /\ iter = NoIter
    /\ lines = <<>>
    /\ gapAbort = FALSE
-----------------------------------------------------------------------------
isSymbolAuxiliaryByte(byte) == byte \div 64 = 2

Invalid == [n |-> -1, rune |-> -1]

(* The code point that the first n bytes of a string make *)
CodePoint(str, n) ==
    LET low(i) == str[i] % 64
    IN  CASE n = 1 -> str[1]
          [] n = 2 -> (str[1] % 32) * 64 + low(2)
          [] n = 3 -> ((str[1] % 16) * 64 + low(2)) * 64 + low(3)
          [] n = 4 -> (((str[1] % 8) * 64 + low(2)) * 64 + low(3)) * 64 + low(4)

(* The first n bytes are one symbol, whose code point needs n bytes. *)
Symbol(str, n, least, most) ==
    /\ Len(str) >= n
    /\ \A i \in 2 .. n : isSymbolAuxiliaryByte(str[i])
    /\ CodePoint(str, n) \in least .. most

(* The symbol that starts with the byte first *)
SymbolFrom(first, str) ==
    LET symbol(n, least, most) ==
            IF Symbol(str, n, least, most) THEN [n |-> n, rune |-> CodePoint(str, n)] ELSE Invalid
    IN  CASE first < 128                 -> symbol(1, 0, 127)
          [] first >= 240                -> symbol(4, 65536, MaxRune)
          [] first >= 224 /\ first < 240 -> symbol(3, 2048, 65535)
          [] first >= 192 /\ first < 224 -> symbol(2, 128, 2047)
          [] first >= 128 /\ first < 192 -> Invalid

(* The first symbol of a string: its length and its code point *)
getSymbolRune(str) ==
    IF str = <<>> THEN [n |-> 0, rune |-> -1] ELSE SymbolFrom(str[1], str)

(* Mutant of isValidUTF8: the last symbol may lack auxiliary bytes. *)
isValidUTF8Prefix(str) ==
    LET valid[i \in 0 .. Len(str)] ==
            i < Len(str) =>
               LET n == getSymbolRune(SubSeq(str, i + 1, Len(str))).n
               IN  IF n > 0 THEN valid[i + n] ELSE str[i + 1] >= 192
    IN  valid[0]

isValidUTF8(str) ==
    LET valid[i \in 0 .. Len(str)] ==
            i < Len(str) =>
               LET n == getSymbolRune(SubSeq(str, i + 1, Len(str))).n
               IN  n > 0 /\ valid[i + n]
    IN  valid[0]

getByteCount(g) == g.total - g.gap_length

(* The bytes first .. last - 1 of the array *)
Slice(g, first, last) == [i \in 1 .. last - first |-> g.data[first + i - 1]]

getStringBeforeGap(g) == Slice(g, 0, g.gap_offset)
getStringAfterGap(g) == Slice(g, g.gap_offset + g.gap_length, g.total)

(* memcpy of str to the place at in the array *)
Written(data, at, str) ==
    [i \in DOMAIN data |-> IF i - at + 1 \in DOMAIN str THEN str[i - at + 1] ELSE data[i]]

Fits(g, str) == g.gap_length >= Len(str)

insertBytesBeforeCursor(g, str) ==
    Buffer(g.total, g.gap_offset + Len(str), g.gap_length - Len(str),
           Written(g.data, g.gap_offset, str))

insertBytesAfterCursor(g, str) ==
    Buffer(g.total, g.gap_offset, g.gap_length - Len(str),
           Written(g.data, g.gap_offset + g.gap_length - Len(str), str))
-----------------------------------------------------------------------------
(* Where the num-th symbol before the gap starts, or 0; -1 when the assert *)
(* of the loop over the auxiliary bytes fails.                             *)
getPrecedingSymbol(g, num) ==
    LET i[n \in 0 .. num] ==
            IF n = 0 THEN g.gap_offset
            ELSE IF i[n - 1] <= 0 THEN i[n - 1]
            ELSE Max({-1} \cup {j \in 0 .. i[n - 1] - 1 : ~isSymbolAuxiliaryByte(g.data[j])})
    IN  i[num]

getSymbolLengthFromFirstByte(first) ==
    CASE first >= 240 -> 4
      [] first >= 224 /\ first < 240 -> 3
      [] first >= 192 /\ first < 224 -> 2
      [] first < 192 -> 1

(* Where the num-th symbol after the gap ends, or the end of the text *)
getFollowingSymbol(g, num) ==
    LET i[n \in 0 .. num] ==
            IF n = 0 THEN g.gap_offset + g.gap_length
            ELSE IF i[n - 1] >= g.total THEN i[n - 1]
            ELSE i[n - 1] + getSymbolLengthFromFirstByte(g.data[i[n - 1]])
    IN  i[num]

(* Mutant of AbsolutePosition: the gap is not jumped over. *)
AbsolutePositionNoJump(g, num) ==
    LET i[n \in 0 .. num] ==
            IF n = 0 THEN IF g.gap_offset > 0 THEN 0 ELSE g.gap_length
            ELSE IF i[n - 1] >= g.total THEN i[n - 1]
            ELSE i[n - 1] + getSymbolLengthFromFirstByte(g.data[i[n - 1]])
    IN  i[num]

(* The loop of GapBuffer_moveAbsolute, which jumps over the gap *)
AbsolutePosition(g, num) ==
    LET i[n \in 0 .. num] ==
            IF n = 0 THEN IF g.gap_offset > 0 THEN 0 ELSE g.gap_length
            ELSE IF i[n - 1] >= g.total THEN i[n - 1]
            ELSE LET next == i[n - 1] + getSymbolLengthFromFirstByte(g.data[i[n - 1]])
                 IN  IF next = g.gap_offset THEN next + g.gap_length ELSE next
    IN  i[num]

GapInside(g) == g.gap_offset <= g.total /\ g.gap_offset + g.gap_length <= g.total

Abort ==
    /\ gapAbort' = TRUE
    /\ UNCHANGED <<gap, iter, lines>>

Becomes(g) ==
    /\ gap' = g
    /\ UNCHANGED <<iter, lines, gapAbort>>

(* num is unsigned: a difference below zero fails the first assert. *)
moveBytesAfterGap(num) ==
    IF num \in 0 .. gap.gap_offset /\ GapInside(gap)
    THEN LET from == gap.gap_offset - num
             moved == Slice(gap, from, gap.gap_offset)
         IN  Becomes(Buffer(gap.total, from, gap.gap_length,
                            Written(gap.data, from + gap.gap_length, moved)))
    ELSE Abort

moveBytesBeforeGap(num) ==
    IF num \in 0 .. gap.total - gap.gap_offset - gap.gap_length /\ GapInside(gap)
    THEN LET from == gap.gap_offset + gap.gap_length
             moved == Slice(gap, from, from + num)
         IN  Becomes(Buffer(gap.total, gap.gap_offset + num, gap.gap_length,
                            Written(gap.data, gap.gap_offset, moved)))
    ELSE Abort
-----------------------------------------------------------------------------
(* A caller edits while it does not iterate: the iterator holds offsets    *)
(* into the array.                                                         *)
Editing == iter = NoIter /\ ~gapAbort

GapBuffer_insertString(str) ==
    /\ Editing
    /\ isValidUTF8(str) /\ Fits(gap, str)
    /\ Becomes(insertBytesBeforeCursor(gap, str))

(* The call returns false: not UTF-8, or no room. *)
InsertRefused(str) ==
    /\ Editing
    /\ ~(isValidUTF8(str) /\ Fits(gap, str))
    /\ UNCHANGED gapVars

(* The insertion has failed and malloc has given memory: the string goes   *)
(* into the new buffer, which takes the place of the old one and its text. *)
(* A string that is not UTF-8 is refused there too.                        *)
GapBuffer_insertStringMaybeRelocate(str) ==
    LET total == getByteCount(gap) + Len(str)
    IN  /\ Editing
        /\ isValidUTF8(str) /\ ~Fits(gap, str)
        /\ total <= MaxTotal
        /\ Becomes(insertBytesBeforeCursor(Created(total), str))

GapBuffer_removeForwards(num) ==
    /\ Editing
    /\ Becomes(Buffer(gap.total, gap.gap_offset, getFollowingSymbol(gap, num) - gap.gap_offset,
                      gap.data))

GapBuffer_removeBackwards(num) ==
    LET i == getPrecedingSymbol(gap, num)
    IN  /\ Editing
        /\ IF i < 0 THEN Abort
           ELSE Becomes(Buffer(gap.total, i, gap.gap_length + (gap.gap_offset - i), gap.data))

GapBuffer_moveRelative(off) ==
    /\ Editing
    /\ IF off < 0
       THEN LET i == getPrecedingSymbol(gap, -off)
            IN  IF i < 0 THEN Abort ELSE moveBytesAfterGap(gap.gap_offset - i)
       ELSE moveBytesBeforeGap(getFollowingSymbol(gap, off) - gap.gap_offset - gap.gap_length)

GapBuffer_moveAbsolute(num) ==
    LET i == AbsolutePosition(gap, num)
    IN  /\ Editing
        /\ IF i <= gap.gap_offset
           THEN moveBytesAfterGap(gap.gap_offset - i)
           ELSE moveBytesBeforeGap(i - gap.gap_offset - gap.gap_length)

(* The caller goes on with the clone, in memory of another size.  A clone  *)
(* that does not fit is destroyed and nothing changes.                     *)
GapBuffer_cloneUsingMemory(capacity) ==
    LET before == insertBytesBeforeCursor(Created(capacity), getStringBeforeGap(gap))
    IN  /\ Editing
        /\ Fits(Created(capacity), getStringBeforeGap(gap))
        /\ Fits(before, getStringAfterGap(gap))
        /\ Becomes(insertBytesAfterCursor(before, getStringAfterGap(gap)))
-----------------------------------------------------------------------------
GapBufferIter_init ==
    /\ Editing
    /\ iter' = [NoIter EXCEPT !.state = "open"]
    /\ UNCHANGED <<gap, lines, gapAbort>>

(* Where the line at first ends: at its newline, or at limit *)
LineEnd(first, limit) ==
    Min({limit} \cup {i \in first .. limit - 1 : gap.data[i] = Newline})

IterReturns(line, next, crossed) ==
    /\ lines' = Append(lines, line)
    /\ iter' = [iter EXCEPT !.cur = next, !.crossed_gap = crossed]

(* The call returns false: no line is left. *)
IterEnds ==
    /\ iter' = [iter EXCEPT !.state = "ended"]
    /\ UNCHANGED lines

(* A line that ends at the newline end, or at the end of the text *)
AfterLine(end) == IF end < gap.total THEN end + 1 ELSE end

(* A line that lies on both sides of the gap is put together in maybe.  It *)
(* is torn when it does not fit there: its second half is copied to the    *)
(* wrong place, and line->len is longer than maybe.                        *)
CrossGap ==
    LET first == Slice(gap, iter.cur, gap.gap_offset)
        start == gap.gap_offset + gap.gap_length
        end == LineEnd(start, gap.total)
        line == first \o Slice(gap, start, end)
    IN  IF end = gap.total /\ line = <<>>
        THEN IterEnds
        ELSE IterReturns(IF Len(line) > MaybeSize THEN Torn ELSE line, AfterLine(end), TRUE)

(* Mutant of GapBufferIter_next: the text before the gap is read up to its *)
(* end although a newline comes earlier.                                   *)
GapBufferIter_nextCrossesEarly ==
    /\ iter.state = "open"
    /\ IF iter.crossed_gap
       THEN LET end == LineEnd(iter.cur, gap.total)
            IN  IF end = gap.total /\ end = iter.cur
                THEN IterEnds
                ELSE IterReturns(Slice(gap, iter.cur, end), AfterLine(end), TRUE)
       ELSE CrossGap
    /\ UNCHANGED <<gap, gapAbort>>

GapBufferIter_next ==
    /\ iter.state = "open"
    /\ IF iter.crossed_gap
       THEN LET end == LineEnd(iter.cur, gap.total)
            IN  IF end = gap.total /\ end = iter.cur
                THEN IterEnds
                ELSE IterReturns(Slice(gap, iter.cur, end), AfterLine(end), TRUE)
       ELSE LET end == LineEnd(iter.cur, gap.gap_offset)
            IN  IF end = gap.gap_offset
                THEN CrossGap
                ELSE IterReturns(Slice(gap, iter.cur, end), end + 1, FALSE)
    /\ UNCHANGED <<gap, gapAbort>>

GapBufferIter_free ==
    /\ iter # NoIter
    /\ iter' = NoIter
    /\ lines' = <<>>
    /\ UNCHANGED <<gap, gapAbort>>

GapNext ==
    \/ \E str \in Strings :
          \/ GapBuffer_insertString(str)
          \/ InsertRefused(str)
          \/ GapBuffer_insertStringMaybeRelocate(str)
    \/ \E num \in 0 .. MaxNum :
          \/ GapBuffer_removeForwards(num)
          \/ GapBuffer_removeBackwards(num)
          \/ GapBuffer_moveAbsolute(num)
    \/ \E off \in -MaxNum .. MaxNum : GapBuffer_moveRelative(off)
    \/ \E capacity \in Capacities : GapBuffer_cloneUsingMemory(capacity)
    \/ GapBufferIter_init
    \/ GapBufferIter_next
    \/ GapBufferIter_free

GapSpec == GapInit /\ [][GapNext]_gapVars
-----------------------------------------------------------------------------
(* No assert of gap_buffer.c fails, with cursor movements and removals of  *)
(* any count and after insertions of strings that are not UTF-8.  The two  *)
(* of getPrecedingSymbol and moveBytesBeforeGap are marked "FIXME: This    *)
(* triggers sometimes": they hold because only whole symbols get in, and   *)
(* the gap never comes to lie inside one.                                  *)
SymbolsStayWhole == ~gapAbort

(* The code points of a string that is UTF-8 *)
Decode(str) ==
    LET from[i \in 0 .. Len(str)] ==
            IF i = Len(str) THEN <<>>
            ELSE LET symbol == getSymbolRune(SubSeq(str, i + 1, Len(str)))
                 IN  IF symbol.n > 0 THEN <<symbol.rune>> \o from[i + symbol.n] ELSE <<-1>>
    IN  from[0]

(* The symbols on the two sides of the gap *)
LeftText == Decode(getStringBeforeGap(gap))
RightText == Decode(getStringAfterGap(gap))

Text == INSTANCE RefText WITH left <- LeftText, right <- RightText, room <- gap.gap_length

(* The bytes on the two sides of the gap are the symbols left and right of *)
(* a cursor in a plain text, every call edits them as the same call on     *)
(* that text would, and the gap is the room that is left.  It fails:       *)
(* GapBuffer_insertStringMaybeRelocate does not copy the old text.         *)
ImplementsRefText == Text!RefSpec

(* A string without room takes the place of a text that is not empty. *)
DropsText ==
    \E runes \in Texts :
        /\ Text!Bytes(runes) > gap.gap_length
        /\ LeftText \o RightText # <<>>
        /\ LeftText' = runes /\ RightText' = <<>>

(* Relocations of a text that is not empty apart, all of                   *)
(* ImplementsRefText holds: over any sequence of insertions, movements,    *)
(* removals and clones the bytes around the gap are edited as the plain    *)
(* text would be, and the gap is the room that is left.                    *)
EditsAsRefText == Text!RefInit /\ [][Text!RefNext \/ DropsText]_(Text!refTextVars)

(* The lines of the text: its last one has no newline, and is no line when *)
(* it is empty.                                                            *)
LinesOf(text) ==
    LET from[i \in 0 .. Len(text)] ==
            LET end == Min({Len(text)} \cup {j \in i .. Len(text) - 1 : text[j + 1] = Newline})
            IN  IF i = Len(text) THEN <<>>
                ELSE <<SubSeq(text, i + 1, end)>> \o
                     (IF end < Len(text) THEN from[end + 1] ELSE <<>>)
    IN  from[0]

(* GapBufferIter_next returns the lines of the text in order, none skipped *)
(* or repeated where it crosses the gap, and ends behind the last one;     *)
(* only a line longer than maybe may be torn.                              *)
LinesFaithful ==
    LET wanted == LinesOf(getStringBeforeGap(gap) \o getStringAfterGap(gap))
    IN  /\ Len(lines) <= Len(wanted)
        /\ \A i \in DOMAIN lines :
              \/ lines[i] = wanted[i]
              \/ lines[i] = Torn /\ Len(wanted[i]) > MaybeSize
        /\ iter.state = "ended" => Len(lines) = Len(wanted)
=============================================================================
