---------------------------- MODULE StaticFiles ----------------------------
(***************************************************************************)
(* serve_static_dir of http/send_static.c: the path of a request is made   *)
(* clean (http/path.c), its prefix replaced by a directory, and the file,  *)
(* or a listing of the directory, sent as the response.  The file system   *)
(* answers each call as it likes.                                          *)
(*                                                                         *)
(* A path is a sequence of characters.  Of a file only the number of       *)
(* pieces read is kept.                                                    *)
(***************************************************************************)
EXTENDS Integers, Sequences, SequencesExt, FiniteSets, FiniteSetsExt

CONSTANTS Paths,      \* the paths of the requests
          Mounts,     \* the prefixes the caller serves
          MAX_COMPS,  \* components of a path: 64
          PathRoom,   \* room for a path: 1 << 10
          DirLen,     \* length of the directory's name
          FileSizes,  \* sizes of files, in pieces
          MdRoom      \* first capacity of the buffer in send_file_md: 1 << 10

VARIABLES ask,    \* the arguments of serve_static_dir
          where,  \* where it is
          split,  \* the locals of split_path_components
          file,   \* the file (ghost: whether it was read without an error)
          reply   \* the response: status, pieces of content, times sent

staticVars == <<ask, where, split, file, reply>>

NoFile == [name |-> <<>>, open |-> FALSE, size |-> 0, read |-> 0, intact |-> FALSE]

(* split_path_components skips the first slash *)
StaticInit ==
    /\ ask \in [path : Paths, prefix : Mounts, listing : BOOLEAN, md : BOOLEAN]
    /\ where = "split"
    /\ split = [cur |-> IF ask.path # <<>> /\ ask.path[1] = "/" THEN 2 ELSE 1, stack |-> <<>>]
    /\ file = NoFile
    /\ reply = [status |-> 0, content |-> 0, sent |-> 0]
-----------------------------------------------------------------------------
(* path.c *)

(* A colon stands for unprintable characters too. *)
is_pcomp(c) == c \notin {"/", ":"}

(* The first character from i on that is not one of a component *)
EndOfComponent(t, i) == Min({j \in i .. Len(t) + 1 : j \in DOMAIN t => ~is_pcomp(t[j])})

Dot == <<".">>
DotDot == <<".", ".">>

(* serve_static_dir returns false: it is not for this path. *)
Decline ==
    /\ where' = "declined"
    /\ UNCHANGED <<ask, split, file, reply>>

(* Mutant of Component: a component ".." does not take the last one off. *)
ComponentKeeps ==
    LET t == ask.path
        end == EndOfComponent(t, split.cur)
        comp == SubSeq(t, split.cur, end - 1)
    IN  /\ where = "split" /\ split.cur <= Len(t)
        /\ IF \/ Len(split.stack) = MAX_COMPS
              \/ comp = <<>>
              \/ comp = DotDot /\ split.stack = <<>>
              \/ end \in DOMAIN t /\ t[end] # "/"
           THEN Decline
           ELSE /\ split' = [cur |-> end + 1,
                             stack |-> IF comp \in {Dot, DotDot} THEN split.stack
                                       ELSE Append(split.stack, comp)]
                /\ UNCHANGED <<ask, where, file, reply>>

(* One turn of the loop of split_path_components *)
Component ==
    LET t == ask.path
        end == EndOfComponent(t, split.cur)
        comp == SubSeq(t, split.cur, end - 1)
    IN  /\ where = "split" /\ split.cur <= Len(t)
        /\ IF \/ Len(split.stack) = MAX_COMPS
              \/ comp = <<>>
              \/ comp = DotDot /\ split.stack = <<>>
              \/ end \in DOMAIN t /\ t[end] # "/"
           THEN Decline
           ELSE /\ split' = [cur |-> end + 1,
                             stack |-> CASE comp = DotDot -> Front(split.stack)
                                         [] comp = Dot -> split.stack
                                         [] OTHER -> Append(split.stack, comp)]
                /\ UNCHANGED <<ask, where, file, reply>>

(* The path sanitize_path writes *)
clean_path == FlattenSeq([i \in DOMAIN split.stack |-> <<"/">> \o split.stack[i]])
-----------------------------------------------------------------------------
(* send_static.c *)

(* set_status and send_response *)
Answer(status, content) ==
    /\ reply' = [status |-> status, content |-> content, sent |-> reply.sent + 1]
    /\ where' = "served"

(* The rest of sanitize_path, and the path without its prefix *)
StripPrefix ==
    LET clean == clean_path
        rest == SubSeq(clean, Len(ask.prefix) + 1, Len(clean))
    IN  /\ where = "split" /\ split.cur > Len(ask.path)
        /\ IF Len(clean) >= PathRoom \/ ~IsPrefix(ask.prefix, clean) THEN Decline
           ELSE IF DirLen + Len(rest) >= PathRoom
           THEN Answer(500, 0) /\ UNCHANGED <<ask, split, file>>
           ELSE /\ where' = "open"
                /\ file' = [file EXCEPT !.name = rest]
                /\ UNCHANGED <<ask, split, reply>>

Markdown == ask.md /\ DirLen + Len(file.name) > 3 /\ IsSuffix(<<".", "m">>, file.name)

(* open and is_file, in send_file and send_file_md: there is no such file, *)
(* another error, a file, or something else.  What fstat cannot tell is    *)
(* taken for a file.                                                       *)
OpenFile ==
    /\ where = "open"
    /\ \/ where' = "unreplied" /\ UNCHANGED <<file, reply>>
       \/ Answer(500, 0) /\ UNCHANGED file
       \/ /\ \E size \in FileSizes :
                file' = [file EXCEPT !.open = TRUE, !.size = size, !.intact = TRUE]
          /\ where' = "read"
          /\ UNCHANGED reply
    /\ UNCHANGED <<ask, split>>

ReadPiece ==
    /\ where = "read" /\ file.read < file.size
    /\ Markdown => file.read < MdRoom
    /\ file' = [file EXCEPT !.read = @ + 1]
    /\ UNCHANGED <<ask, where, split, reply>>

(* read has no room left in send_file_md's buffer.  The buffer has been    *)
(* reallocated, but neither the new one nor its capacity is stored: the    *)
(* loop ends, and the old buffer is used.                                  *)
Overfull == Markdown /\ file.read = MdRoom

(* Mutant of ReadDone: send_file_md looks at no error either. *)
ReadDoneNoError ==
    /\ where = "read"
    /\ \E error \in BOOLEAN :
          /\ error \/ file.read = file.size \/ Overfull
          /\ \E content \in IF Overfull THEN 0 .. MdRoom ELSE {file.read} : Answer(200, content)
          /\ file' = [file EXCEPT !.open = FALSE, !.intact = ~error]
    /\ UNCHANGED <<ask, split>>

(* The last read of either function: the end of the file or an error,      *)
(* which only send_file_md can still answer with 500.                      *)
ReadDone ==
    /\ where = "read"
    /\ \E error \in BOOLEAN :
          /\ error \/ file.read = file.size \/ Overfull
          /\ IF error /\ Markdown THEN Answer(500, 0)
             ELSE \E content \in IF Overfull THEN 0 .. MdRoom ELSE {file.read} :
                     Answer(200, content)
          /\ file' = [file EXCEPT !.open = FALSE, !.intact = ~error]
    /\ UNCHANGED <<ask, split>>

(* send_dir_listing, when it is asked for, and the 404 otherwise: the      *)
(* directory is there, or not, or there is another error.                  *)
ListOrNotFound ==
    /\ where = "unreplied"
    /\ \/ ask.listing /\ Answer(200, 1)
       \/ ask.listing /\ Answer(500, 0)
       \/ Answer(404, 0)
    /\ UNCHANGED <<ask, split, file>>

StaticNext ==
    Component \/ StripPrefix \/ OpenFile \/ ReadPiece \/ ReadDone \/ ListOrNotFound

StaticSpec == StaticInit /\ [][StaticNext]_staticVars
-----------------------------------------------------------------------------
(* What a path means.  Its components are the maximal runs without a       *)
(* slash; the level of one is the number of names less the number of ".."  *)
(* up to it; a name counts when no later level is below its own.           *)

Runs(t) ==
    LET ends == {e \in (1 .. Len(t)) \X (1 .. Len(t)) :
                    /\ e[1] <= e[2]
                    /\ \A k \in e[1] .. e[2] : t[k] # "/"
                    /\ e[1] > 1 => t[e[1] - 1] = "/"
                    /\ e[2] < Len(t) => t[e[2] + 1] = "/"}
        sorted == SetToSortSeq(ends, LAMBDA d, e : d[1] < e[1])
    IN  [i \in DOMAIN sorted |-> SubSeq(t, sorted[i][1], sorted[i][2])]

Level(runs, k) ==
    Cardinality({i \in 1 .. k : runs[i] \notin {Dot, DotDot}})
    - Cardinality({i \in 1 .. k : runs[i] = DotDot})

Wellformed(t) ==
    LET runs == Runs(t)
    IN  /\ \A i \in DOMAIN t : t[i] # ":" /\ (i < Len(t) => ~(t[i] = "/" /\ t[i + 1] = "/"))
        /\ \A k \in DOMAIN runs : Level(runs, k) >= 0
        /\ \A k \in DOMAIN runs : k < Len(runs) => Level(runs, k) < MAX_COMPS

Meaning(t) ==
    LET runs == Runs(t)
        counts == {k \in DOMAIN runs :
                      /\ runs[k] \notin {Dot, DotDot}
                      /\ \A m \in k .. Len(runs) : Level(runs, m) >= Level(runs, k)}
        kept == SetToSortSeq(counts, <)
    IN  FlattenSeq([i \in DOMAIN kept |-> <<"/">> \o runs[kept[i]]])

(* A request is declined exactly when its path is not well-formed, too     *)
(* long or without the prefix.  Otherwise one response is sent, whatever   *)
(* the file system answers at each step; the file's name is the directory  *)
(* followed by what the path means after the prefix; the descriptor is     *)
(* closed; a file is sent whole unless a read fails or it is a Markdown    *)
(* file that fills the buffer, and a Markdown file never in part.          *)
StaticServed ==
    /\ where = "declined" =>
          /\ reply.sent = 0
          /\ \/ ~Wellformed(ask.path)
             \/ Len(Meaning(ask.path)) >= PathRoom
             \/ ~IsPrefix(ask.prefix, Meaning(ask.path))
    /\ where \in {"open", "served"} =>
          Wellformed(ask.path) /\ IsPrefix(ask.prefix, Meaning(ask.path))
    /\ where = "open" => ask.prefix \o file.name = Meaning(ask.path)
    /\ where = "served" =>
          /\ reply.sent = 1 /\ ~file.open
          /\ file.intact /\ (Markdown => file.size < MdRoom) =>
                reply.status = 200 /\ reply.content = file.size
          /\ reply.status = 200 /\ Markdown /\ file.size \in 1 .. MdRoom - 1 =>
                reply.content = file.size
=============================================================================
