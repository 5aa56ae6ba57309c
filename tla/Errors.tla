------------------------------- MODULE Errors -------------------------------
(***************************************************************************)
(* What the program throws and what becomes of it: the exceptions of       *)
(* core/errors, the parser of foreign errors, the filters that answer a    *)
(* client and the severity under which Sentry is told.  Messages, details  *)
(* and stacks are left out; a thrown value is its class, name and status.  *)
(***************************************************************************)
EXTENDS Integers

Status == [contract |-> 400, unauthorized |-> 401, business |-> 403, notFound |-> 404,
           conflict |-> 409, manyRequests |-> 429, invalidToken |-> 498,
           internal |-> 500, integration |-> 503]

Kind == DOMAIN Status

Exception(kind) == [class |-> "HttpException", name |-> kind, status |-> Status[kind]]

(* Thrown by the framework (BadRequestException and its like), by a driver,
   and by a guard of the gateway, which wraps an exception of the program. *)
Framework(status) == [class |-> "HttpException", name |-> "framework", status |-> status]
Plain == [class |-> "Error", name |-> "Error", status |-> 0]
Wrapped(e) == [class |-> "WsException", name |-> "WsException", status |-> e.status]

(* An answer of another service that axios rejects; 0 when there was none. *)
Axios(status) == [class |-> "AxiosError", name |-> "AxiosError", status |-> status]

exceptionsMapper(status) ==
    IF \E k \in Kind : Status[k] = status
    THEN CHOOSE k \in Kind : Status[k] = status
    ELSE "internal"

(* A foreign error becomes the exception of its status, a plain one an
   internal one, under the name it had.                                    *)
externalErrorParser(e) ==
    LET kind == IF e.class \in {"HttpException", "AxiosError"}
                THEN exceptionsMapper(e.status) ELSE "internal"
    IN  [Exception(kind) EXCEPT !.name = e.name]

Severity(status) ==
    CASE status < 500          -> "warning"
      [] status \in {503, 504} -> "fatal"
      [] OTHER                 -> "error"

(* Errors of a client's own making are not captured: known exceptions by
   their name, any HTTP or axios error by its status.                      *)
Ignored(e) ==
    \/ e.class = "HttpException" /\ e.name \in {"manyRequests", "invalidToken", "contract"}
    \/ e.class \in {"HttpException", "AxiosError"} /\ e.status \in {418, 429, 498}

captureException(e) == Severity(externalErrorParser(e).status)

(* Mutant of capture: only exceptions are worth a report. *)
captureExceptions(e) ==
    IF Ignored(e) \/ e.class = "Error" THEN "none" ELSE captureException(e)

(* What the body of the filters' capture reports.  External and left out: the
   decorator SentryExceptionCaptured on it, which may report what is no HTTP
   exception (an ignored axios error too) before, at the default level.    *)
capture(e) == IF Ignored(e) THEN "none" ELSE captureException(e)

Answer(status, severity) == [status |-> status, severity |-> severity]

(* What the two filters answer; and, where a controller has no filter, the
   exceptions layer of the framework, which captures nothing.              *)
HttpExceptionsFilter(e) ==
    Answer(IF e.class = "HttpException" THEN e.status ELSE externalErrorParser(e).status, capture(e))

WebSocketExceptionsFilter(e) ==
    Answer(IF e.class = "WsException" THEN e.status ELSE externalErrorParser(e).status, capture(e))

DefaultExceptionsFilter(e) == Answer(IF e.class = "HttpException" THEN e.status ELSE 500, "none")
=============================================================================
