------------------------------- MODULE MCHttp -------------------------------
(* Names in two spellings; version 32 is HTTP/2.0.                          *)
EXTENDS Http

MCLower ==
    [n \in {"connection", "Connection", "content-length", "Content-Length", "x-id"} |->
        CASE n = "Connection" -> "connection"
          [] n = "Content-Length" -> "content-length"
          [] OTHER -> n]
MCNames      == DOMAIN MCLower
MCValues     == {"1", "keep-alive"}
MCNumeral    == <<"1", "2">>
MCExtensions == {"x-id"}
MCBodies     == {0, 2}
MCSettable ==
    [method |-> {"POST", "MSEARCH"}, path |-> {"/a"}, query |-> {"q"}, fragment |-> {"f"},
     version |-> {16, 32}, status |-> {404}, reason |-> {"Fine"}]
=============================================================================
