---------------------------- MODULE MCHttpServer ----------------------------
(***************************************************************************)
(* The scripts the client of module HttpServer sends.                      *)
(***************************************************************************)
EXTENDS HttpServer

Host == <<<<"Host">>, <<"h">>>>
ConnectionClose == <<<<"Connection">>, <<"close">>>>
KeepAlive == <<<<"Connection">>, <<"Keep-Alive">>>>
Length(d) == <<<<"Content-Length">>, <<d>>>>

Make(method, path, version, headers) ==
    [method |-> method, path |-> path, query |-> <<>>, version |-> version,
     headers |-> headers, body |-> <<>>]
Get(path, headers) == Make("GET", path, "HTTP/1.1", headers)

File == Get("/", <<Host>>)
Api == Get("/api/hello", <<Host>>)
ApiQuery == [Get("/api/version", <<Host, KeepAlive>>) EXCEPT !.query = <<"q">>]
Old == Make("GET", "/index.html", "HTTP/1.0", <<KeepAlive>>)
Upload == [Make("POST", "/api/hello", "HTTP/1.1", <<Length("2")>>) EXCEPT !.body = <<"x", CR>>]
Final == Get("/index.html", <<ConnectionClose>>)
Bare == Make("GET", "/api/hello", "HTTP/1.0", <<>>)

\* At most n reads that end anywhere
Sends(requests, n) == [requests |-> requests, reads |-> n, sizes |-> 1..60]

\* Reads of k requests each; a GET with one header is 15 symbols.
SendsWhole(requests, k) == [requests |-> requests, reads |-> Len(requests), sizes |-> {15 * k}]

\* Every cut of one and of two requests; files read concurrently, until the ring is
\* full and a request waits.
AllScripts ==
    {Sends(<<File, Api>>, 2),
     Sends(<<Upload>>, 3),
     Sends(<<ApiQuery, Upload>>, 2),
     Sends(<<Make("PATCH", "/", "HTTP/1.1", <<Host>>)>>, 1),
     Sends(<<Make("POST", "/api/hello", "HTTP/1.0", <<Host>>), Api>>, 1),
     Sends(<<Bare>>, 2),
     SendsWhole(<<Old, Final, Api>>, 1),
     SendsWhole(<<Get("/none", <<Host>>), File>>, 1),
     SendsWhole(<<File, Get("/readonly", <<Host>>)>>, 1),
     SendsWhole(<<Get("/..", <<Host>>)>>, 1),
     SendsWhole(<<File, File, File, File>>, 4)}

\* One request, cut once.
CutScripts == {Sends(<<Api>>, 2)}
=============================================================================
