---------------------------- MODULE HttpCommands ----------------------------
(***************************************************************************)
(* One request of the HTTP API, from the line the user typed to the status  *)
(* of the response (execute, health and key_detail of http.rs): the        *)
(* tokenizer, the policy, the exchange with the child under the reply       *)
(* budgets, the conversion to JSON and the bounded response body.  HttpApi  *)
(* has the connections and the permits around it; other handlers and their  *)
(* permits are only seen here as a pool that may be empty.                  *)
(***************************************************************************)
EXTENDS CommandLine, CommandPolicy, ReplyDecoder, KeyDetail

CONSTANTS
    Lines,                   \* bound: the lines users type
    API_ENVELOPE,            \* bytes of {"success":true,"data": and of the last }
    MAX_JSON_VALUE_BYTES,
    MAX_RESPONSE_BODY_BYTES

ASSUME ResponseAssumption ==
    /\ Lines \subseteq Seq(STRING)
    /\ API_ENVELOPE \in Nat
    /\ MAX_JSON_VALUE_BYTES \in Nat
    /\ MAX_RESPONSE_BODY_BYTES \in Nat
    /\ API_ENVELOPE + MAX_JSON_VALUE_BYTES <= MAX_RESPONSE_BODY_BYTES

VARIABLES
    phase,      \* of the handler: "idle", "handling", "exchange", "responding"
    route,      \* the handler: "none", "execute", "health", "detail"
    line,       \* the line of the request, until its command is forwarded
    httpStatus  \* of the response being written

handlerVars == <<phase, route, line, httpStatus>>
requestVars == <<handlerVars, decoderVars, detailVars>>

HttpCommandsInit ==
    /\ phase = "idle"
    /\ route = "none"
    /\ line = <<>>
    /\ httpStatus = 0
    /\ DecoderInit
    /\ DetailInit

-----------------------------------------------------------------------------
(* The line *)

\* The text of an argument.
Text(argument) == SeqOps!FoldLeft(LAMBDA text, c : text \o c, "", argument)
Argv(l) == [i \in DOMAIN Parse(l) |-> Text(Parse(l)[i])]

\* SELECT is refused by its bare name: no connection outlives a request.
IsSelect(l) == Caseless(Argv(l)[1]) = "SELECT"

-----------------------------------------------------------------------------
(* The handlers *)

Respond(code) ==
    /\ phase' = "responding"
    /\ httpStatus' = code
    /\ line' = line
    /\ UNCHANGED route

\* An error that quotes the request or the child may exceed the body's limit.
RespondQuoting(code) == Respond(code) \/ Respond(413)

\* serialize_api_response refuses a body over MAX_RESPONSE_BODY_BYTES.
RespondValue ==
    IF API_ENVELOPE + json.printed <= MAX_RESPONSE_BODY_BYTES
    THEN Respond(200) ELSE Respond(413)

ReceiveRequest ==
    /\ phase = "idle"
    /\ phase' = "handling"
    /\ \/ \E l \in Lines : route' = "execute" /\ line' = l
       \/ route' \in {"health", "detail"} /\ UNCHANGED line
    /\ UNCHANGED <<httpStatus, decoderVars, detailVars>>

\* The checks of execute before it asks for a permit.
RefuseLine ==
    /\ phase = "handling" /\ route = "execute"
    /\ \/ ~Parses(line) /\ Respond(400)
       \/ Parses(line) /\ IsSelect(line) /\ Respond(409)
       \/ /\ Parses(line) /\ ~IsSelect(line)
          /\ ~Allowed(Argv(line))
          /\ RespondQuoting(403)
    /\ UNCHANGED <<decoderVars, detailVars>>

RefuseEmptyKey ==
    /\ phase = "handling" /\ route = "detail"
    /\ Respond(400)
    /\ UNCHANGED <<decoderVars, detailVars>>

Admitted(l) == Parses(l) /\ ~IsSelect(l) /\ Allowed(Argv(l))

\* try_acquire_owned fails: other handlers hold all of the permits.
RespondBusy ==
    /\ phase = "handling"
    /\ route = "execute" => Admitted(line)
    /\ Respond(429)
    /\ UNCHANGED <<decoderVars, detailVars>>

\* With a permit, one command is sent on a connection of its own: the line's,
\* or the PING of health.
SendCommand ==
    /\ phase = "handling" /\ route \in {"execute", "health"}
    /\ route = "execute" => Admitted(line)
    /\ phase' = "exchange"
    /\ UNCHANGED <<route, line, httpStatus, decoderVars, detailVars>>

\* The child has the command; what is left of the request is its reply.
AwaitReply ==
    /\ phase = "exchange" /\ route # "detail" /\ decoding = "idle"
    /\ line' = <<>>
    /\ BeginReply
    /\ UNCHANGED <<phase, route, httpStatus, detailVars>>

ReadReply ==
    /\ phase = "exchange"
    /\ DecoderStep
    /\ UNCHANGED <<handlerVars, detailVars>>

\* The value is converted within MAX_JSON_VALUE_BYTES, unless it is an error; of
\* the two, the one that is met first decides.
ExecuteAnswers ==
    /\ phase = "exchange" /\ route = "execute"
    /\ \/ decoding = "failed" /\ Respond(502)
       \/ /\ decoding = "done"
          /\ \/ json.charged > MAX_JSON_VALUE_BYTES /\ Respond(413)
             \/ json.error /\ RespondQuoting(422)
             \/ /\ json.charged <= MAX_JSON_VALUE_BYTES
                /\ ~json.error
                /\ RespondValue
    /\ UNCHANGED <<decoderVars, detailVars>>

\* +PONG, another reply, or none.
HealthAnswers ==
    /\ phase = "exchange" /\ route = "health"
    /\ \/ decoding = "done" /\ used.nodes = 1 /\ ~json.error /\ Respond(200)
       \/ decoding = "done" /\ RespondQuoting(502)
       \/ decoding = "failed" /\ Respond(503)
    /\ UNCHANGED <<decoderVars, detailVars>>

BeginDetail ==
    /\ phase = "handling" /\ route = "detail"
    /\ phase' = "exchange"
    /\ StartDetail
    /\ UNCHANGED <<route, line, httpStatus, decoderVars>>

DetailGoesOn ==
    /\ phase = "exchange" /\ route = "detail"
    /\ DetailCommand \/ OthersWrite
    /\ UNCHANGED <<handlerVars, decoderVars>>

DetailAnswers ==
    /\ phase = "exchange" /\ route = "detail"
    /\ \/ detailStep = "failed" /\ RespondQuoting(502)
       \/ /\ detailStep = "done"
          /\ IF detail.type = "none" THEN Respond(404) ELSE RespondQuoting(200)
    /\ DetailEnds
    /\ UNCHANGED decoderVars

\* The response is written; the next request starts from nothing.
FinishResponse ==
    /\ phase = "responding"
    /\ phase' = "idle"
    /\ route' = "none"
    /\ line' = <<>>
    /\ httpStatus' = 0
    /\ decoding' = "idle"
    /\ used' = NoBudgetUsed
    /\ json' = NoJson
    /\ owed' = 0
    /\ UNCHANGED <<incoming, stack, payload, detailVars>>

HttpCommandsNext ==
    \/ ReceiveRequest
    \/ RefuseLine
    \/ RefuseEmptyKey
    \/ RespondBusy
    \/ SendCommand
    \/ AwaitReply
    \/ ReadReply
    \/ ExecuteAnswers
    \/ HealthAnswers
    \/ BeginDetail
    \/ DetailGoesOn
    \/ DetailAnswers
    \/ FinishResponse

HttpCommandsSpec == HttpCommandsInit /\ [][HttpCommandsNext]_requestVars

-----------------------------------------------------------------------------
(* What an admitted command asks of the child *)

Number(w) == IF w \in DOMAIN Numeral THEN Numeral[w] ELSE 0
Magnitude(i) == IF i < 0 THEN -i ELSE i

\* Options of a range by score or by name follow its two bounds: WITHSCORES, and
\* a clause LIMIT offset count, where a negative count is no limit.
IsOption(args, i) == args[i] = "WITHSCORES"
LimitClauses(args) ==
    {i \in 4..(Len(args) - 2) :
        /\ args[i] = "LIMIT"
        /\ \A j \in (4..Len(args)) \ (i..(i + 2)) : IsOption(args, j)}

\* External: what such a range returns of n elements; options that are neither
\* are an error.
LimitCount(args, n) ==
    IF \A i \in 4..Len(args) : IsOption(args, i) THEN n
    ELSE IF LimitClauses(args) = {} THEN 0
    ELSE LET count == Number(args[(CHOOSE i \in LimitClauses(args) : TRUE) + 2])
         IN  IF count < 0 THEN n ELSE count

\* The commands whose arguments state how much they ask for; the policy bounds
\* just these.
Windowed == IndexRanges \cup StringRanges \cup BoundRanges \cup StreamRanges
                \cup Pops \cup RandomReads \cup {"SETBIT"}

\* External: the values, or the bytes of a string, that the child returns,
\* removes or allocates for a windowed command whose collection has n elements.
\* The child reads a word as the policy does, or refuses it and returns nothing.
Demand(name, args, n) ==
    IF name \in IndexRanges \cup StringRanges
    THEN WindowSize(Number(args[2]), Number(args[3]), n)
    ELSE IF name \in BoundRanges THEN LimitCount(args, n)
    ELSE IF name \in StreamRanges THEN Number(args[5])
    ELSE IF name \in Pops \cup RandomReads
    THEN IF Len(args) = 1 THEN 1 ELSE Magnitude(Number(args[2]))
    ELSE Number(args[2]) \div 8 + 1     \* SETBIT

DemandLimit(name) ==
    IF name \in StringRanges \cup {"SETBIT"} THEN MAX_STRING_RANGE
                                            ELSE MAX_COLLECTION_PAGE

CommandName(l) == Normalize(Argv(l)[1])
CommandArgs(l) == [i \in 1..(Len(Argv(l)) - 1) |-> Normalize(Argv(l)[i + 1])]

\* The policy looks for the clause in every argument: a key that is named LIMIT
\* is taken for it, and what it says of the options is not checked.
KeyTakenForClause(l) ==
    CommandName(l) \in BoundRanges /\ CommandArgs(l)[1] = "LIMIT"

\* Collections that tell a bounded window from an unbounded one.
Lengths == 0..(4 * (IntMax + 1))

-----------------------------------------------------------------------------
(* Properties *)

\* Whatever quoting and escaping the user typed, the argument list the policy
\* decides on is one that can be typed: quoting it gives the same list, no
\* argument lost, joined with another or started by the one before it.
ArgumentsQuotable ==
    phase # "idle" /\ Parses(line) => Parse(Quote(Parse(line))) = Parse(line)

\* A windowed command that is about to be sent makes the child return, remove or
\* allocate at most one page, however long the collection is that it meets there,
\* unless its key is named LIMIT.  Commands without a window (GET, DEL, COPY,
\* LREM, LTRIM, XTRIM, ZREMRANGEBYRANK and others) are admitted unbounded: their
\* replies meet the reply budgets, what they remove or copy meets none.
WindowedDemandBounded ==
    phase = "exchange" /\ line # <<>>
        /\ CommandName(line) \in Windowed
        /\ ~KeyTakenForClause(line) =>
        \A n \in Lengths :
            Demand(CommandName(line), CommandArgs(line), n)
                <= DemandLimit(CommandName(line))

\* A value that was converted within its budget fits into the response body: what
\* the conversion charges one by one as it visits the children (a comma if one
\* went before, a key once more as the string it becomes, its colon) adds up to
\* what the serializer prints of the whole, which would otherwise replace the
\* value by an error.  A double is the exception, because it is charged by its
\* text and printed by its value.
ConvertedValueFits ==
    /\ decoding = "done"
    /\ ~json.error /\ ~json.double
    /\ json.charged <= MAX_JSON_VALUE_BYTES
    => API_ENVELOPE + json.printed <= MAX_RESPONSE_BODY_BYTES
============================================================================
