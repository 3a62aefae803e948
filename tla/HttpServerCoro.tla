--------------------------- MODULE HttpServerCoro ---------------------------
(***************************************************************************)
(* HttpServerCoro (_sources/http_server_coro): one thread runs coroutines, *)
(* one that accepts and one per connection.  A coroutine gives the thread  *)
(* up only where it waits for accept, read or write; what it does between  *)
(* two of these waits is one step here, except the database query, which   *)
(* blocks the thread, and with it every coroutine, while the database goes *)
(* on.  What the query finds is the argument found of Searched.            *)
(***************************************************************************)
EXTENDS Naturals, Sequences, Vocabulary

CONSTANTS
  Connection, NoConnection,
  Requests,  \* the requests that clients send
  FileSets   \* which of the page files may be there

Files == {"search_page", "style", "result_page_1", "result_page_2", "result_page_3"}

Messages == {"Invalid request-method", "Page not found", "Bad request",
             "Internal server error", "did not match any documents"}

(* form: what is left and right of the first "=" of a POST body; words: the
   right side, decoded, in lower case, cut where no letter is.             *)
Request == [method : {"get", "post", "other"},
            target : {"/", "/style.css", "elsewhere"},
            form : {"no =", "wrong key", "empty", "search"},
            words : SUBSET Word]

(* An answer is its status, the files and messages in its body, and the
   links in it.                                                            *)
Answer == [status : {"ok", "bad_request", "internal_server_error"},
           body : Seq(Files \cup Messages \cup {"Search results for", "list"}),
           links : Seq(Link)]

CONSTANTS NoRequest, NoAnswer

ASSUME ServerConstants ==
  /\ NoConnection \notin Connection
  /\ Requests \subseteq Request
  /\ FileSets \subseteq SUBSET Files
  /\ NoRequest \notin Request
  /\ NoAnswer \notin Answer

VARIABLES
  life,       \* "starting", "running"; "returned" or "crashed": main() goes on
  accepting,  \* does the accepting coroutine live?
  conn,       \* where each connection is in handleConnection
  querying,   \* the connection whose query blocks the thread
  files,      \* the page files that are there
  request,    \* what each connection has asked
  answer      \* what it is told

svars == <<life, accepting, conn, querying, files, request, answer>>

ServerInit ==
  /\ life = "starting"
  /\ accepting = FALSE
  /\ conn = [c \in Connection |-> "none"]
  /\ querying = NoConnection
  /\ files \in FileSets
  /\ request = [c \in Connection |-> NoRequest]
  /\ answer = [c \in Connection |-> NoAnswer]

-----------------------------------------------------------------------------
(* Building an answer.                                                     *)
Ok == [status |-> "ok", body |-> <<>>, links |-> <<>>]

Result(a, status) == [a EXCEPT !.status = status]

Write(a, part) == [a EXCEPT !.body = Append(@, part)]

(* Slip: what was in the body before stays there.                          *)
FailureAppended(a, message) == Write(a, message)

CreateResponseFailure(a, message) == [a EXCEPT !.body = <<message>>, !.links = <<>>]

GetContentFromFile(a, name) ==
  IF name \in files THEN Write(a, name)
                    ELSE CreateResponseFailure(a, "Internal server error")

WholePage(name) ==
  Result(GetContentFromFile(Ok, name),
         IF name \in files THEN "ok" ELSE "internal_server_error")

CreateResponseGet(r) ==
  CASE r.target = "/" -> WholePage("search_page")
    [] r.target = "/style.css" -> WholePage("style")
    [] OTHER -> CreateResponseFailure(Ok, "Page not found")

(* Only what the third file yields is remembered in successFileReading.    *)
ResultPage(found) ==
  LET first == Write(GetContentFromFile(Ok, "result_page_1"), "Search results for")
      second == Write(GetContentFromFile(first, "result_page_2"), "list")
      third == GetContentFromFile([second EXCEPT !.links = found], "result_page_3")
  IN Result(third, IF "result_page_3" \in files THEN "ok" ELSE "internal_server_error")

SearchAnswer(found) ==
  IF found # <<>> THEN ResultPage(found)
  ELSE CreateResponseFailure(Ok, "did not match any documents")

IsSearch(r) == r.method = "post" /\ r.target = "/" /\ r.form = "search"

(* What is answered to a request that asks for no search.                  *)
PlainAnswer(r) ==
  CASE r.method = "get" -> CreateResponseGet(r)
    [] r.method = "post" /\ r.target # "/" -> CreateResponseFailure(Ok, "Page not found")
    [] r.method = "post" /\ r.form = "empty" -> CreateResponseGet(r)
    [] r.method = "post" /\ r.form \in {"no =", "wrong key"} ->
         Result(CreateResponseFailure(Ok, "Bad request"), "bad_request")
    [] OTHER -> Result(CreateResponseFailure(Ok, "Invalid request-method"), "bad_request")

-----------------------------------------------------------------------------
(* start(): spawn acceptConnection and run the io_context; the acceptor
   may fail to bind its port.                                              *)
Listen ==
  /\ life = "starting"
  /\ \/ life' = "running" /\ accepting' = TRUE
     \/ life' = "crashed" /\ UNCHANGED accepting
  /\ UNCHANGED <<conn, querying, files, request, answer>>

(* The thread is free to resume a coroutine.                               *)
Free == life = "running" /\ querying = NoConnection

Accept(c) ==
  /\ Free /\ accepting
  /\ conn[c] = "none"
  /\ conn' = [conn EXCEPT ![c] = "reading"]
  /\ UNCHANGED <<life, accepting, querying, files, request, answer>>

(* The io_context is destroyed with the coroutines that are left.          *)
Destroyed ==
  /\ conn' = [c \in Connection |-> IF conn[c] \in {"reading", "writing"} THEN "dropped"
                                   ELSE conn[c]]
  /\ request' = [c \in Connection |-> NoRequest]
  /\ answer' = [c \in Connection |-> NoAnswer]
  /\ UNCHANGED <<querying, files>>

(* Slip: an accept error stops the io_context.                             *)
StopOnError ==
  /\ Free /\ accepting
  /\ accepting' = FALSE
  /\ life' = "returned"
  /\ Destroyed

(* async_accept fails, in whichever way: the accepting coroutine returns.  *)
AcceptFails ==
  /\ Free /\ accepting
  /\ accepting' = FALSE
  /\ UNCHANGED <<life, conn, querying, files, request, answer>>

(* async_read completes, and handleConnection runs on to its next wait.    *)
ReadRequest(c, r) ==
  /\ Free
  /\ conn[c] = "reading"
  /\ request' = [request EXCEPT ![c] = r]
  /\ IF IsSearch(r)
     THEN /\ conn' = [conn EXCEPT ![c] = "searching"]
          /\ querying' = c
          /\ UNCHANGED answer
     ELSE /\ conn' = [conn EXCEPT ![c] = "writing"]
          /\ answer' = [answer EXCEPT ![c] = PlainAnswer(r)]
          /\ UNCHANGED querying
  /\ UNCHANGED <<life, accepting, files>>

(* The query returns: a list of links, empty when it failed.               *)
Searched(c, found) ==
  /\ life = "running"
  /\ querying = c
  /\ querying' = NoConnection
  /\ conn' = [conn EXCEPT ![c] = "writing"]
  /\ answer' = [answer EXCEPT ![c] = SearchAnswer(found)]
  /\ UNCHANGED <<life, accepting, files, request>>

(* The connection's coroutine returns; its locals go with it.              *)
Done(c, how) ==
  /\ conn' = [conn EXCEPT ![c] = how]
  /\ request' = [request EXCEPT ![c] = NoRequest]
  /\ answer' = [answer EXCEPT ![c] = NoAnswer]
  /\ UNCHANGED <<life, accepting, querying, files>>

(* async_read or async_write fails.                                        *)
Broken(c) ==
  /\ Free
  /\ conn[c] \in {"reading", "writing"}
  /\ Done(c, "broken")

(* Slip: the connection is kept for another request, and its response too. *)
KeepAlive(c) ==
  /\ Free
  /\ conn[c] = "writing"
  /\ conn' = [conn EXCEPT ![c] = "reading"]
  /\ UNCHANGED <<life, accepting, querying, files, request, answer>>

(* async_write completes; whether the shutdown fails or not, that was all. *)
Written(c) ==
  /\ Free
  /\ conn[c] = "writing"
  /\ Done(c, "answered")

(* An exception in handleConnection, as from decoding, converting or a
   missing locale, leaves io_context::run, and start() is unwound.         *)
HandlerThrows(c) ==
  /\ Free
  /\ conn[c] = "reading"
  /\ life' = "crashed"
  /\ accepting' = FALSE
  /\ Destroyed

(* run() returns once no coroutine is left.                                *)
RunReturns ==
  /\ Free /\ ~accepting
  /\ \A c \in Connection : conn[c] \notin {"reading", "writing"}
  /\ life' = "returned"
  /\ UNCHANGED <<accepting, conn, querying, files, request, answer>>

(* The steps that need no database.                                        *)
ServerStep ==
  \/ Listen \/ AcceptFails \/ RunReturns
  \/ \E c \in Connection :
       \/ Accept(c) \/ Broken(c) \/ Written(c) \/ HandlerThrows(c)
       \/ \E r \in Requests : ReadRequest(c, r)

-----------------------------------------------------------------------------
ServerTypeOK ==
  /\ life \in {"starting", "running", "returned", "crashed"}
  /\ accepting \in BOOLEAN
  /\ conn \in [Connection -> {"none", "reading", "searching", "writing", "answered",
                              "broken", "dropped"}]
  /\ querying \in Connection \cup {NoConnection}
  /\ files \in SUBSET Files
  /\ request \in [Connection -> Request \cup {NoRequest}]
  /\ answer \in [Connection -> Answer \cup {NoAnswer}]
  /\ \A c \in Connection : /\ conn[c] = "searching" <=> querying = c
                           /\ conn[c] = "writing" <=> answer[c] # NoAnswer

(* A request that has been read is answered, unless its own connection
   breaks or an exception ends the server: neither other connections nor an
   acceptor that has stopped keep it from that.                            *)
EveryRequestAnswered ==
  \A c \in Connection :
    request[c] # NoRequest ~> conn[c] \in {"answered", "broken"} \/ life = "crashed"

(* An answer with an error status is an error page and nothing else: no
   half of a result page is left in it (http_server_coro.cpp:207-227).     *)
ErrorsAreWhole ==
  \A c \in Connection :
    answer[c] # NoAnswer /\ answer[c].status # "ok" =>
      answer[c].links = <<>> /\ \E m \in Messages : answer[c].body = <<m>>

(* A page that says "Internal server error" has the status that says so
   (http_server_coro.cpp:103-106, 224-227, 276).                           *)
InternalErrorHasItsStatus ==
  \A c \in Connection :
    answer[c] # NoAnswer /\ (\E i \in DOMAIN answer[c].body :
                               answer[c].body[i] = "Internal server error") =>
      answer[c].status = "internal_server_error"
=============================================================================
