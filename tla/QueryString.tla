---------------------------- MODULE QueryString ----------------------------
(***************************************************************************)
(* get_query_string_param of http/query_string.c: the value of one         *)
(* parameter, decoded into the caller's buffer where it is                 *)
(* percent-encoded.  Characters are their ASCII codes.                     *)
(***************************************************************************)
EXTENDS Integers, Sequences, SequencesExt, FiniteSets, FiniteSetsExt

CONSTANTS Queries,    \* the query strings
          Key,        \* the name the caller asks for
          Rooms       \* sizes of the caller's buffer

VARIABLES query,   \* src and max
          at,      \* cur, counted from 1
          answer   \* "", "no", or the value and its place

queryVars == <<query, at, answer>>

Pending == [found |-> "", value |-> <<>>]

is_print(c) == 32 <= c /\ c < 127

Ampersand == 38
Percent == 37
Plus == 43
Equals == 61
Question == 63

(* The letters stand for 0 to 5, not for 10 to 15. *)
hex_to_num(x) ==
    CASE x \in 65 .. 70 -> x - 65
      [] x \in 97 .. 102 -> x - 97
      [] x \in 48 .. 57 -> x - 48
      [] OTHER -> -1

IsPlain(c) == is_print(c) /\ c \notin {Equals, Ampersand, Percent, Plus}

Ch(i) == IF i \in DOMAIN query.src THEN query.src[i] ELSE 0

(* The end of the plain characters from i on *)
skip_any(i) ==
    Min({j \in i .. Len(query.src) + 1 : j \in DOMAIN query.src => ~IsPlain(query.src[j])})

(* Mutant of IsEscape: no escape at the very end of the string. *)
IsEscapeNotLast(i) ==
    i + 2 < Len(query.src) /\ hex_to_num(Ch(i + 1)) >= 0 /\ hex_to_num(Ch(i + 2)) >= 0

(* The %xx at i is whole. *)
IsEscape(i) ==
    i + 2 <= Len(query.src) /\ hex_to_num(Ch(i + 1)) >= 0 /\ hex_to_num(Ch(i + 2)) >= 0

NoString == [ok |-> FALSE, end |-> 0, value |-> <<>>]

(* skip_percent_encoded_substr from i on *)
RECURSIVE Skip(_)
Skip(i) ==
    LET j == skip_any(i)
    IN  CASE Ch(j) = Plus -> Skip(j + 1)
          [] Ch(j) = Percent -> IF IsEscape(j) THEN Skip(j + 3) ELSE NoString
          [] OTHER -> [NoString EXCEPT !.ok = TRUE, !.end = j]

(* The loop of parse_percent_encoded_substr, at the + or % at i, when out  *)
(* has been copied                                                         *)
RECURSIVE DecodeFrom(_, _)
DecodeFrom(i, out) ==
    LET byte == IF Ch(i) = Plus THEN 32 ELSE 16 * hex_to_num(Ch(i + 1)) + hex_to_num(Ch(i + 2))
        start == IF Ch(i) = Plus THEN i + 1 ELSE i + 3
        end == skip_any(start)
        copied == Append(out, byte) \o SubSeq(query.src, start, end - 1)
    IN  IF (Ch(i) = Percent /\ ~IsEscape(i)) \/ Len(copied) > query.max THEN NoString
        ELSE IF Ch(end) \in {Percent, Plus} THEN DecodeFrom(end, copied)
        ELSE [ok |-> TRUE, end |-> end, value |-> copied]

(* parse_percent_encoded_substr from i on.  When not even the characters   *)
(* before the first escape fit, it returns -1, which is true, and the      *)
(* cursor stays.                                                           *)
Parse(i) ==
    LET j == skip_any(i)
        plain == SubSeq(query.src, i, j - 1)
    IN  IF Ch(j) \notin {Percent, Plus} THEN [ok |-> TRUE, end |-> j, value |-> plain]
        ELSE IF Len(plain) > query.max THEN [ok |-> TRUE, end |-> i, value |-> plain]
        ELSE DecodeFrom(j, plain)

QueryInit ==
    /\ query \in [src : Queries, max : Rooms]
    /\ at = IF Ch(1) = Question THEN 2 ELSE 1
    /\ answer = Pending

AnswerQuery(found, value) ==
    /\ answer' = [found |-> found, value |-> value]
    /\ UNCHANGED <<query, at>>

(* One turn of the loop of get_query_string_param *)
Parameter ==
    LET key == Parse(at)
        value == Parse(key.end + 1)
        next == IF Ch(key.end) = Equals THEN Skip(key.end + 1) ELSE key
    IN  /\ answer = Pending /\ at <= Len(query.src)
        /\ IF \/ ~key.ok
              \/ key.end <= Len(query.src) /\ ~is_print(Ch(key.end))
           THEN AnswerQuery("no", <<>>)
           ELSE IF key.value = Key
           THEN IF Ch(key.end) # Equals THEN AnswerQuery("yes", <<>>)
                ELSE IF value.ok THEN AnswerQuery("yes", value.value)
                ELSE AnswerQuery("no", <<>>)
           ELSE IF ~next.ok \/ (next.end <= Len(query.src) /\ Ch(next.end) # Ampersand)
           THEN AnswerQuery("no", <<>>)
           ELSE at' = next.end + 1 /\ UNCHANGED <<query, answer>>

NoParameter ==
    /\ answer = Pending /\ at > Len(query.src)
    /\ AnswerQuery("no", <<>>)

QueryNext == Parameter \/ NoParameter

QuerySpec == QueryInit /\ [][QueryNext]_queryVars
-----------------------------------------------------------------------------
(* What a query string says: its fields are the maximal runs without an    *)
(* ampersand, each with a name before its first equals sign and a value    *)
(* after it.                                                               *)

Fields ==
    LET t == query.src
        first == IF Ch(1) = Question THEN 2 ELSE 1
        ends == {e \in (first .. Len(t)) \X (first .. Len(t)) :
                    /\ e[1] <= e[2]
                    /\ \A k \in e[1] .. e[2] : t[k] # Ampersand
                    /\ e[1] > first => t[e[1] - 1] = Ampersand
                    /\ e[2] < Len(t) => t[e[2] + 1] = Ampersand}
        sorted == SetToSortSeq(ends, LAMBDA d, e : d[1] < e[1])
    IN  [i \in DOMAIN sorted |-> SubSeq(t, sorted[i][1], sorted[i][2])]

NameOf(f) == LET cuts == {i \in DOMAIN f : f[i] = Equals}
             IN  IF cuts = {} THEN f ELSE SubSeq(f, 1, Min(cuts) - 1)

ValueOf(f) == SubSeq(f, Len(NameOf(f)) + 2, Len(f))

(* Each character but the two after a percent sign is one of the meaning. *)
Meant(s) ==
    LET digits == {i \in DOMAIN s : \E d \in {1, 2} : i > d /\ s[i - d] = Percent}
        kept == SetToSortSeq(DOMAIN s \ digits, <)
    IN  [i \in DOMAIN kept |->
           LET c == s[kept[i]]
           IN  CASE c = Percent -> 16 * (s[kept[i] + 1] - 48) + s[kept[i] + 2] - 48
                 [] c = Plus -> 32
                 [] OTHER -> c]

(* Printable, its escapes whole and of decimal digits, each field with one *)
(* equals sign at most, and what is decoded fits                           *)
Regular ==
    LET t == query.src
    IN  /\ \A i \in DOMAIN t :
             /\ is_print(t[i])
             /\ t[i] = Percent => \A d \in {1, 2} : Ch(i + d) \in 48 .. 57
        /\ \A i \in DOMAIN Fields :
             LET f == Fields[i]
             IN  /\ Cardinality({j \in DOMAIN f : f[j] = Equals}) <= 1
                 /\ Len(Meant(NameOf(f))) <= query.max
                 /\ Len(Meant(ValueOf(f))) <= query.max

(* The answer for a regular query string is the value of the first field   *)
(* with the name, with every escape decoded, wherever the escapes are and  *)
(* whichever of the two scanners (the one that decodes and the one that    *)
(* only skips) the code went through before.                               *)
QueryFaithful ==
    answer # Pending /\ Regular =>
        LET named == {i \in DOMAIN Fields : Meant(NameOf(Fields[i])) = Key}
        IN  IF named = {} THEN answer.found = "no"
            ELSE answer.found = "yes" /\ answer.value = Meant(ValueOf(Fields[Min(named)]))
=============================================================================
