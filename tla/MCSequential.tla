---------------------------- MODULE MCSequential ----------------------------
(***************************************************************************)
(* Small instances of the components that are called and return, for TLC:  *)
(* the hash map, the gap buffer, the buddy allocator, and the functions of *)
(* the HTTP library that work on text.  They share nothing: a behaviour is *)
(* about one of them, the subject, and the others stay as they were        *)
(* created.                                                                *)
(***************************************************************************)
EXTENDS HashMap, GapBuffer, Buddy, HttpRequest, QueryString, StaticFiles, TLC

CONSTANTS k1, k2, k3, k4

VARIABLE subject

(* k1 and k2 start at the same slot of every pool and follow the same path *)
(* at first; k3 starts there in the small pool only; k4 goes with its high *)
(* bits.                                                                   *)
MCHash == k1 :> 1 @@ k2 :> 1 @@ k3 :> 5 @@ k4 :> 98

(* A newline, and symbols of two, three and four bytes *)
MCTexts == {<<10>>, <<2047>>, <<2048>>, <<65536>>}

(* A symbol without its last byte, an auxiliary byte, an overlong symbol *)
MCNotUtf8 == {<<240, 144, 128>>, <<128>>, <<192, 128>>}

(* Memory for no page, for one and for two, with the base at different     *)
(* offsets from an aligned address                                         *)
MCMemories == [base : {8, 11, 13}, size : {0, 12, 26, 32}]

UpTo(n, S) == UNION {[1 .. k -> S] : k \in 0 .. n}

(* Heads of any shape, a request line that goes wrong at any place, and a  *)
(* good one followed by anything; a head has no empty line but its last.   *)
MCHeads ==
    LET line == <<"M", " ", "x", " ", "H", "1", ".", "1">>
        texts == UpTo(5, {"M", " ", "H", "3", "."})
                 \cup {line, line \o CRLF \o <<"Encoding", ":", "x">>}
                 \cup {SubSeq(line, 1, i) \o <<t>> : i \in 0 .. 8, t \in {" ", "H", "3", "."}}
                 \cup {line \o CRLF \o t : t \in UpTo(5, {"Length", ":", " ", "1", "3", "\r", "\n"})}
    IN  {t \in {u \o CRLF \o CRLF : u \in texts} :
            \A i \in 1 .. Len(t) - 4 : SubSeq(t, i, i + 3) # CRLF \o CRLF}

MCQueries == UpTo(5, {97, 49, 54, Percent, Ampersand, Plus, Equals})
             \cup UpTo(4, {9, Question, 97, Equals, Ampersand})
MCKey == <<97>>

MCPaths == UpTo(5, {"/", ".", ":", "m"})
MCMounts == {<<>>, <<"/", "m">>}

(* A component that is not the subject has one initial state. *)
MCInit ==
    /\ subject \in {"map", "text", "memory", "request", "query", "static"}
    /\ Init /\ (subject # "map" => recursive)
    /\ GapInit /\ (subject # "text" => gap.total = 0)
    /\ BuddyInit /\ (subject # "memory" => memory = [base |-> 8, size |-> 0])
    /\ IF subject = "request" THEN RequestInit
       ELSE head = CRLF \o CRLF /\ RequestInit
    /\ IF subject = "query" THEN QueryInit
       ELSE query = [src |-> <<>>, max |-> 1] /\ QueryInit
    /\ IF subject = "static" THEN StaticInit
       ELSE ask = [path |-> <<>>, prefix |-> <<>>, listing |-> FALSE, md |-> FALSE] /\ StaticInit

MCNext ==
    \/ /\ subject = "map" /\ Next
       /\ UNCHANGED <<subject, gapVars, buddyVars, requestVars, queryVars, staticVars>>
    \/ /\ subject = "text" /\ GapNext
       /\ UNCHANGED <<subject, vars, buddyVars, requestVars, queryVars, staticVars>>
    \/ /\ subject = "memory" /\ BuddyNext
       /\ UNCHANGED <<subject, vars, gapVars, requestVars, queryVars, staticVars>>
    \/ /\ subject = "request" /\ RequestNext
       /\ UNCHANGED <<subject, vars, gapVars, buddyVars, queryVars, staticVars>>
    \/ /\ subject = "query" /\ QueryNext
       /\ UNCHANGED <<subject, vars, gapVars, buddyVars, requestVars, staticVars>>
    \/ /\ subject = "static" /\ StaticNext
       /\ UNCHANGED <<subject, vars, gapVars, buddyVars, requestVars, queryVars>>

MCSpec == MCInit /\ [][MCNext]_<<subject, vars, gapVars, buddyVars, requestVars, queryVars,
                                  staticVars>>
=============================================================================
