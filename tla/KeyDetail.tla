----------------------------- MODULE KeyDetail -----------------------------
(***************************************************************************)
(* The bounded view of one key (keys.rs): TYPE, TTL, a length and a page    *)
(* are separate commands on separate connections, and other clients write   *)
(* to the key between any two of them.  The child's data is external.       *)
(***************************************************************************)
EXTENDS Integers, FiniteSets

CONSTANTS
    PAGE_LIMIT,
    STRING_PREVIEW_BYTES,
    MaxSize,                 \* bound: elements or bytes of the key's value
    MaxValues                \* bound: values the key takes during one request

ASSUME DetailAssumption ==
    /\ PAGE_LIMIT \in Nat \ {0}
    /\ STRING_PREVIEW_BYTES \in Nat \ {0}
    /\ MaxSize \in Nat
    /\ MaxValues \in Nat

VARIABLES
    keyValue,   \* what the child holds under the key
    detailStep, \* the next command: "type", "ttl", "length", "page", or none
    detail,     \* what the answers so far said
    seen        \* values of the key since TYPE was answered

detailVars == <<keyValue, detailStep, detail, seen>>

Collections == {"list", "zset", "set", "hash"}
Omitted == {"set", "hash"}
\* The value types of the child that detail has no page for.
Unsupported == "json"

Absent == [type |-> "none", size |-> 0]
KeyValues ==
    {Absent} \cup [type : {"string", "stream", Unsupported}, size : 0..MaxSize]
             \cup [type : Collections, size : 1..MaxSize]

NoDetail == [type |-> "none", gone |-> FALSE, total |-> 0, returned |-> 0,
             limit |-> 0]

DetailInit ==
    /\ keyValue = Absent
    /\ detailStep = "none"
    /\ detail = NoDetail
    /\ seen = {}

-----------------------------------------------------------------------------
Least(a, b) == IF a < b THEN a ELSE b

PageLimit(type) ==
    CASE type = "string" -> STRING_PREVIEW_BYTES
      [] type \in Omitted -> 0
      [] OTHER -> PAGE_LIMIT

\* STRLEN, LLEN, GETRANGE and so on: an absent key is empty, and a key of
\* another type is an error.
Readable(type) == keyValue.type \in {type, "none"}

\* Elements of the reply to the page command: members and scores of a sorted
\* set alternate.
ReplyLength(type) ==
    LET n == Least(keyValue.size, PageLimit(type))
    IN  IF type = "zset" THEN 2 * n ELSE n

\* Mutant: the elements of the reply are counted, whatever they are.
Returned_ReplyLength(type) == ReplyLength(type)

Returned(type) ==
    IF type = "zset" THEN ReplyLength(type) \div 2 ELSE ReplyLength(type)

-----------------------------------------------------------------------------
(* The commands of detail *)

\* A request for the key, whatever has become of it since the last one.
StartDetail ==
    /\ detailStep = "none"
    /\ detailStep' = "type"
    /\ keyValue' \in KeyValues
    /\ UNCHANGED <<detail, seen>>

ReadType ==
    /\ detailStep = "type"
    /\ detail' = [NoDetail EXCEPT !.type = keyValue.type]
    /\ seen' = {keyValue}
    /\ detailStep' = IF keyValue = Absent THEN "done" ELSE "ttl"
    /\ UNCHANGED keyValue

\* -2 says that the key is gone; it is put into the answer all the same.
ReadTtl ==
    /\ detailStep = "ttl"
    /\ detail' = [detail EXCEPT !.gone = keyValue = Absent]
    /\ detailStep' = "length"
    /\ UNCHANGED <<keyValue, seen>>

ReadLength ==
    /\ detailStep = "length"
    /\ detail.type # Unsupported
    /\ Readable(detail.type)
    /\ detail' = [detail EXCEPT !.total = keyValue.size,
                                !.limit = PageLimit(detail.type)]
    /\ detailStep' = IF detail.type \in Omitted THEN "done" ELSE "page"
    /\ UNCHANGED <<keyValue, seen>>

ReadPage ==
    /\ detailStep = "page"
    /\ Readable(detail.type)
    /\ detail' = [detail EXCEPT !.returned = Returned(detail.type)]
    /\ detailStep' = "done"
    /\ UNCHANGED <<keyValue, seen>>

\* WRONGTYPE, a type without a page, RESP_TIMEOUT, a reply that does not decode
\* or whose JSON is over KEY_DETAIL_JSON_VALUE_BYTES: detail returns an error.
DetailFails ==
    /\ detailStep \in {"type", "ttl", "length", "page"}
    /\ detailStep' = "failed"
    /\ UNCHANGED <<keyValue, detail, seen>>

\* The handler has answered; nobody looks at the key until the next request.
DetailEnds ==
    /\ detailStep \in {"done", "failed"}
    /\ detailStep' = "none"
    /\ keyValue' = Absent
    /\ detail' = NoDetail
    /\ seen' = {}

\* Another client changes, deletes or recreates the key, or it expires.
OthersWrite ==
    /\ detailStep \notin {"none", "done", "failed"}
    /\ keyValue' \in KeyValues
    /\ seen' = IF detailStep = "type" THEN seen ELSE seen \cup {keyValue'}
    /\ Cardinality(seen') <= MaxValues
    /\ UNCHANGED <<detailStep, detail>>

DetailCommand == ReadType \/ ReadTtl \/ ReadLength \/ ReadPage \/ DetailFails

DetailNext == StartDetail \/ DetailCommand \/ OthersWrite \/ DetailEnds
DetailSpec == DetailInit /\ [][DetailNext]_detailVars

-----------------------------------------------------------------------------
(* Properties *)

Answered == detailStep = "done" /\ detail.type # "none"

\* Every number of an answer was true at some time between TYPE and the answer,
\* of a value of the reported type or of a deleted key; when nobody wrote in
\* between, the answer is the key as it was.
DetailFromSeenValues ==
    Answered =>
        /\ \E v \in seen : v.type = detail.type
        /\ \E v \in seen : /\ v.type \in {detail.type, "none"}
                           /\ detail.total = v.size
        /\ \E v \in seen : /\ v.type \in {detail.type, "none"}
                           /\ detail.returned = Least(v.size, detail.limit)
        /\ detail.gone => Absent \in seen
============================================================================
