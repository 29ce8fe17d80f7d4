------------------------------ MODULE Dispatch ------------------------------
(***************************************************************************)
(* Which handler a URL leads to, which operation a handler calls, and the  *)
(* HTTP code of an answer: the parts of the REST server without a state.   *)
(*                                                                         *)
(* A URL is a sequence of slashes and names. The name of a handler is its  *)
(* URL.                                                                    *)
(***************************************************************************)
EXTENDS Naturals, Sequences, SequencesExt

Slash == "/"

\* ADEPTNESS_SERVICE_SPECIFIC, and the handlers of one URL each.
Specific == <<Slash, "adms", Slash, "v2", Slash>>
Ping     == Specific \o <<"ping">>
Info     == Specific \o <<"microservice-info">>
Metrics  == Specific \o <<"performance">>
Status   == Specific \o <<"status">>

\* In the order in which startConfigured registers them.
Handlers == <<Specific, Ping, Info, Metrics, Status>>

Methods(h) == IF h = Specific THEN {"GET", "PUT", "POST", "DELETE"} ELSE {"GET"}

IsRoot(url) == url \in {<<>>, <<Slash>>}

\* What is at these places of a URL, in order.
Keep(url, places) ==
    LET upTo[n \in 0 .. Len(url)] ==
            IF n = 0 THEN <<>>
            ELSE IF n \in places THEN Append(upTo[n - 1], url[n])
            ELSE upTo[n - 1]
    IN  upTo[Len(url)]

\* normalizeUrl: of slashes in a row the first one stays.
Repeated(url)  == {i \in 2 .. Len(url) : url[i] = Slash /\ url[i - 1] = Slash}
Normalize(url) == Keep(url, DOMAIN url \ Repeated(url))

\* A handler whose URL ends with a slash takes every URL that begins so.
Matches(h, nurl) == IF Last(h) = Slash THEN IsPrefix(h, nurl) ELSE nurl = h

\* What is left of the URL for the handler.
Remainder(h, nurl) == SubSeq(nurl, Len(h) + 1, Len(nurl))

\* A fault: each pair starts the list again.
LastPair(arguments) ==
    LET pairs == SelectSeq(arguments, LAMBDA a : a.key = "id")
    IN  IF pairs = <<>> THEN <<>> ELSE <<Last(pairs)>>

\* queryIterator, called for each pair in turn: one whose key is in QUERY_KEYS
\* becomes the first one of the list.
QueryPairs(arguments) ==
    LET pairs[n \in 0 .. Len(arguments)] ==
            IF n = 0 THEN <<>>
            ELSE IF arguments[n].key = "id" THEN <<arguments[n]>> \o pairs[n - 1]
            ELSE pairs[n - 1]
    IN  pairs[Len(arguments)]

-----------------------------------------------------------------------------
(* myAdeptnessService_..._handler                                          *)

Agent == <<"monitoring-agent", Slash>>
Conf  == Agent \o <<"config", Slash>>

Setup         == <<"setup">>
Connection    == Conf \o <<"connection">>
SensorsConf   == Conf \o <<"sensors">>
Sensorgroups  == Conf \o <<"sensorgroups">>
AgentStatus   == Agent \o <<"monitoring-agent-status">>
CmdExecute    == Agent \o <<"cmd-execute">>
SensorsVal    == Agent \o <<"sensors">>

Served(method) ==
    CASE method = "GET" -> {Connection, SensorsConf, Sensorgroups, AgentStatus, SensorsVal}
      [] method = "PUT" -> {Setup, Connection, SensorsConf, Sensorgroups, CmdExecute}
      [] OTHER          -> {SensorsConf, Sensorgroups}

\* The codes of adeptness_specific_handler. It has more, for responses that no
\* operation gives.
CodeOf(response) ==
    CASE response = "OK"                 -> 200
      [] response = "RESOURCE_NOT_FOUND" -> 404
      [] response = "ERROR"              -> 409
=============================================================================
