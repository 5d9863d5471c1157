---------------------------- MODULE MCHttpServer ----------------------------
(* Two client structures and three connections, so that a structure is     *)
(* reused.  The first peer sends two requests in a row, the second a       *)
(* malformed one or one whose body comes separately, the third HTTP/1.0.   *)
EXTENDS HttpServer

MCScripts == << {<<Req(0, 1), Req(0, 1)>>},
                {<<Req(1, 1), Body>>, <<BadReq>>},
                {<<Req(0, 0)>>} >>
=============================================================================
