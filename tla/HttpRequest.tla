---------------------------- MODULE HttpRequest ----------------------------
(***************************************************************************)
(* The request parser (http/parse.c) as http_server_wait_request uses it:  *)
(* parse_request_head on the bytes up to the first empty line, then the    *)
(* length of the body from the headers it kept.                            *)
(*                                                                         *)
(* A head is a sequence of tokens, each of which counts as one byte: a     *)
(* method "M", "HTTP/" as "H", the header names "Length" and "Encoding",   *)
(* digits, punctuation, the ends of lines, and "x" for everything else.    *)
(***************************************************************************)
EXTENDS Integers, Sequences, SequencesExt, FiniteSets, FiniteSetsExt

CONSTANTS Heads,        \* the heads the peers send
          MAX_HEADERS,  \* headers kept: 32
          SIZE_MAX

VARIABLES head,    \* the head
          cur,     \* cur of parse_request_head; the next byte is head[cur + 1]
          hs,      \* r->hs
          version, \* r->major and r->minor
          parsed,  \* what was returned, or "" while the parser runs
          past,    \* a byte after the end of the head was read
          skipped, \* ghost: headers that were not kept
          verdict, \* what http_server_wait_request makes of it
          length   \* total_request_length

requestVars == <<head, cur, hs, version, parsed, past, skipped, verdict, length>>

Digit(t) == CASE t = "0" -> 0 [] t = "1" -> 1 [] t = "2" -> 2 [] t = "3" -> 3
              [] OTHER -> -1
is_digit(t) == Digit(t) >= 0
is_space(t) == t \in {" ", "\r", "\n"}

CRLF == <<"\r", "\n">>

(* The first token t from position i on, counted from 1; Len + 1 if none   *)
Find(t, i) == Min({j \in i .. Len(head) + 1 : j <= Len(head) => head[j] = t})

Tok(i) == IF i \in DOMAIN head THEN head[i] ELSE ""

(* find in http_server_wait_request: a head ends with its first empty line *)
RequestInit ==
    /\ head \in Heads
    /\ cur = 0 /\ hs = <<>> /\ version = <<0, 0>>
    /\ parsed = "" /\ past = FALSE /\ skipped = 0
    /\ verdict = 0 /\ length = 0

Return(result) ==
    /\ parsed' = result
    /\ UNCHANGED <<head, cur, hs, version, skipped, verdict, length>>
-----------------------------------------------------------------------------
(* The request line.  The digit after "HTTP/" is read without a look at    *)
(* the end of the head.                                                    *)
RequestLine ==
    LET space == Find(" ", 3)
        dotted == Tok(space + 3) = "."
        end == space + (IF dotted THEN 4 ELSE 2)
    IN  /\ cur = 0 /\ parsed = ""
        /\ past' = /\ Tok(1) = "M" /\ Tok(2) = " "
                   /\ Tok(space + 1) = "H" /\ space + 1 = Len(head)
        /\ CASE Tok(1) # "M" -> Return("BADMETHOD")
             [] Tok(1) = "M" /\ (Tok(2) # " " \/ space > Len(head)) -> Return("INCOMPLETE")
             [] OTHER ->
                  IF Tok(space + 1) # "H" \/ ~is_digit(Tok(space + 2))
                     \/ (dotted /\ ~is_digit(Tok(end)))
                  THEN Return("BADVERSION")
                  ELSE IF <<Tok(end + 1), Tok(end + 2)>> # CRLF THEN Return("INCOMPLETE")
                  ELSE /\ cur' = end + 2
                       /\ version' = <<Digit(Tok(space + 2)), IF dotted THEN Digit(Tok(end)) ELSE 0>>
                       /\ UNCHANGED <<head, hs, parsed, skipped, verdict, length>>

(* One header: a name up to the next colon, be it on a later line, and a   *)
(* value up to the next carriage return.                                   *)
HeaderLine ==
    LET colon == Find(":", cur + 1)
        cr == Find("\r", colon + 1)
    IN  /\ cur > 0 /\ parsed = ""
        /\ <<Tok(cur + 1), Tok(cur + 2)>> # CRLF
        /\ past' = (colon <= Len(head) /\ cr > Len(head))
        /\ IF colon > Len(head) \/ Tok(cr + 1) # "\n"
           THEN Return("BADHEADER")
           ELSE /\ cur' = cr + 1
                /\ IF Len(hs) < MAX_HEADERS
                   THEN /\ hs' = Append(hs, [name |-> SubSeq(head, cur + 1, colon - 1),
                                             value |-> SubSeq(head, colon + 1, cr - 1)])
                        /\ UNCHANGED skipped
                   ELSE skipped' = skipped + 1 /\ UNCHANGED hs
                /\ UNCHANGED <<head, version, parsed, verdict, length>>

HeadersDone ==
    /\ cur > 0 /\ parsed = ""
    /\ <<Tok(cur + 1), Tok(cur + 2)>> = CRLF
    /\ cur' = cur + 2
    /\ parsed' = "OK"
    /\ UNCHANGED <<head, hs, version, past, skipped, verdict, length>>
-----------------------------------------------------------------------------
(* The length of the body *)

find_header(name) == {i \in DOMAIN hs : hs[i].name = <<name>>}

(* The value without the spaces around it *)
Trimmed(value) ==
    LET solid == {i \in DOMAIN value : ~is_space(value[i])}
    IN  IF solid = {} THEN <<>> ELSE SubSeq(value, Min(solid), Max(solid))

(* Mutant of AddDigit: the test of the overflow forgets the digit. *)
AddDigitForgets(x, d) ==
    IF x = -1 \/ x > SIZE_MAX \div 10 THEN -1 ELSE x * 10 + d

(* A turn of the loop over the digits; -1 is the overflow. *)
AddDigit(x, d) ==
    IF x = -1 \/ x > (SIZE_MAX - d) \div 10 THEN -1 ELSE x * 10 + d

(* The error is (size_t) -1, that is SIZE_MAX. *)
parse_content_length(value) ==
    LET digits == Trimmed(value)
        x == FoldLeft(LAMBDA y, t : AddDigit(y, Digit(t)), 0, digits)
    IN  IF digits = <<>> \/ (\E i \in DOMAIN digits : ~is_digit(digits[i])) \/ x = -1
        THEN SIZE_MAX ELSE x

(* The loop over the encodings does not end at the end of the value: each  *)
(* Transfer-Encoding is an error.                                          *)
find_and_parse_transfer_encoding == IF find_header("Encoding") = {} THEN 0 ELSE -1

(* http_server_wait_request, from the answer of the parser to the length   *)
(* of the request; the sum may wrap.                                       *)
Judge ==
    LET named == find_header("Length")
        content == IF named = {} THEN 0 ELSE parse_content_length(hs[Min(named)].value)
    IN  /\ parsed # "" /\ verdict = 0
        /\ IF parsed # "OK"
           THEN verdict' = 400 /\ UNCHANGED length
           ELSE IF version \notin {<<1, 0>>, <<1, 1>>} THEN verdict' = 505 /\ UNCHANGED length
           ELSE IF \/ named = {} /\ find_and_parse_transfer_encoding < 0
                   \/ named # {} /\ content = SIZE_MAX
           THEN verdict' = 400 /\ UNCHANGED length
           ELSE /\ verdict' = 200
                /\ length' = (Len(head) + content) % (SIZE_MAX + 1)
        /\ UNCHANGED <<head, cur, hs, version, parsed, past, skipped>>

RequestNext == RequestLine \/ HeaderLine \/ HeadersDone \/ Judge

RequestSpec == RequestInit /\ [][RequestNext]_requestVars
-----------------------------------------------------------------------------
Lines == FlattenSeq([i \in DOMAIN hs |-> hs[i].name \o <<":">> \o hs[i].value \o CRLF])

Number(value) ==
    /\ Trimmed(value) # <<>>
    /\ \A i \in DOMAIN Trimmed(value) : is_digit(Trimmed(value)[i])

Amount(value) ==
    LET digits == Trimmed(value)
    IN  SumSet({Digit(digits[i]) * 10 ^ (Len(digits) - i) : i \in DOMAIN digits})

(* No byte after the head is read.  A head that is accepted is read to its *)
(* end, and its headers, put together again, are its lines.  A request is  *)
(* accepted with its head's length and the amount its first Content-Length *)
(* says, unless the sum wraps, and none is refused for an amount that a    *)
(* size_t can hold.                                                        *)
HeadUnderstood ==
    LET named == find_header("Length")
        value == hs[Min(named)].value
        total == Len(head) + (IF named = {} THEN 0 ELSE Amount(value))
    IN  /\ ~past
        /\ parsed = "OK" =>
              /\ cur = Len(head)
              /\ skipped = 0 => IsSuffix(CRLF \o Lines \o CRLF, head)
        /\ verdict = 200 =>
              /\ named # {} => Number(value) /\ Amount(value) < SIZE_MAX
              /\ length = total \/ total > SIZE_MAX
        /\ verdict = 400 /\ parsed = "OK" /\ named # {} =>
              ~Number(value) \/ Amount(value) >= SIZE_MAX
=============================================================================
