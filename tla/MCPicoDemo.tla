------------------------------ MODULE MCPicoDemo -----------------------------
(* The demo with small contents, and a compressed and a default page beside   *)
(* its own, so that every handler of the crate serves; one path is unmapped.  *)
EXTENDS PicoDemo

Content(k, b, c) == [kind |-> k, bytes |-> b, chars |-> c]

MCRoutes ==
  DemoRoutes(Content("HtmlText", 3, 2), Content("PlainTextHandler", 2, 1),
             Content("FaviconHandler", 0, 0))
  \o <<[path |-> "/gz", handler |-> Content("HtmlGzip", 1, 1)],
       [path |-> "/default", handler |-> Content("DefaultRootResponse", 3, 3)]>>

MCPaths == {"/", "/version", "/hello_world", "/favicon.ico", "/gz", "/default", "/unknown"}
=============================================================================
