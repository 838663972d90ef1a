---------------------------- MODULE ReplyDecoder ----------------------------
(***************************************************************************)
(* Decoding one reply of the Ferrite child under its budgets (resp.rs:      *)
(* read_value_budgeted), and what the conversion of the values read to JSON *)
(* charges and prints (to_json_budgeted).  The recursion is a stack: for    *)
(* every open aggregate the values its loop has still to read.              *)
(*                                                                         *)
(* The sender is external: it sends values of any kind as long as it owes    *)
(* some of the reply, stops, or sends what is not RESP.                      *)
(***************************************************************************)
EXTENDS Integers, Sequences, FiniteSets

CONSTANTS
    MAX_RESP_BULK_LENGTH,
    MAX_RESP_ARRAY_LENGTH,
    MAX_RESP_DEPTH,
    MAX_RESPONSE_NODES,
    MAX_RESPONSE_ELEMENTS,
    MAX_RESPONSE_BYTES,
    BASE64_ENVELOPE,        \* bytes of {"encoding":"base64","data":""}
    Values                  \* bound: the values the sender may send

VARIABLES
    decoding,   \* "idle", "value" due, "line" read, "payload" due, "done", "failed"
    incoming,   \* the value whose first line is read but not yet charged
    stack,      \* the open aggregates: what their loops have still to read
    used,       \* the budget: bytes, nodes and elements charged
    payload,    \* bytes of the bulk or blob buffer that is being filled
    json,       \* the JSON conversion of the values read so far
    owed        \* the sender's count of the values the reply still lacks

decoderVars == <<decoding, incoming, stack, used, payload, json, owed>>

\* A value as its first line announces it.  size: bytes of the text or payload,
\* children (pairs of a map), or -1 for the null bulk and the null array;
\* escaped: bytes that JSON escapes add to the text; printed: digits of a
\* number as JSON prints it.
TextKinds == {"simple", "number", "bulk", "verbatim"}
LineKinds == {"simple", "number", "error", "integer", "double", "null", "bool"}
BlobKinds == {"bulk", "binary", "bloberror", "verbatim"}
AggregateKinds == {"array", "map", "set"}

ASSUME DecoderAssumption ==
    /\ Values \subseteq [kind : LineKinds \cup BlobKinds \cup AggregateKinds,
                         size : Int, escaped : Nat, printed : Nat]
    /\ \A v \in Values : v.kind \in LineKinds => v.size \in Nat
    /\ MAX_RESP_BULK_LENGTH \in Nat
    /\ MAX_RESP_ARRAY_LENGTH \in Nat
    /\ MAX_RESP_DEPTH \in Nat
    /\ {MAX_RESPONSE_NODES, MAX_RESPONSE_ELEMENTS, MAX_RESPONSE_BYTES} \subseteq Nat
    /\ BASE64_ENVELOPE \in Nat

NoBudgetUsed == [bytes |-> 0, nodes |-> 0, elements |-> 0]
NoValue == [kind |-> "none", size |-> 0, escaped |-> 0, printed |-> 0]
NoJson == [charged |-> 0, printed |-> 0, error |-> FALSE, double |-> FALSE]

DecoderInit ==
    /\ decoding = "idle"
    /\ incoming = NoValue
    /\ stack = <<>>
    /\ used = NoBudgetUsed
    /\ payload = 0
    /\ json = NoJson
    /\ owed = 0

-----------------------------------------------------------------------------
(* What a first line announces *)

IsNull(v) == v.kind = "null" \/ (v.kind \in {"bulk", "array"} /\ v.size = -1)

\* Type byte, text or length, CRLF; a length of the model has one digit.
LineLength(v) ==
    CASE v.kind \in LineKinds \ {"null", "bool"} -> v.size + 3
      [] v.kind = "null" -> 3
      [] v.kind \notin LineKinds /\ v.size < 0 -> 5
      [] OTHER -> 4

LengthValid(v) ==
    \/ v.kind \in LineKinds
    \/ IsNull(v)
    \/ v.kind \in BlobKinds /\ v.size \in 0..MAX_RESP_BULK_LENGTH
    \/ v.kind \in AggregateKinds /\ v.size \in 0..MAX_RESP_ARRAY_LENGTH

\* What RESP says follows the first line of an aggregate.
Announced(v) ==
    CASE v.kind = "map" -> 2 * v.size
      [] v.kind \in {"array", "set"} /\ v.size > 0 -> v.size
      [] OTHER -> 0

\* Mutant: the slots of a map are its entries.
Reserved_Entries(v) ==
    IF v.kind \in AggregateKinds /\ v.size > 0 THEN v.size ELSE 0

\* Child slots reserved in the budget: two for an entry of a map.
Reserved(v) ==
    IF v.kind \in AggregateKinds /\ v.size > 0
    THEN (IF v.kind = "map" THEN 2 * v.size ELSE v.size)
    ELSE 0

\* Mutant: the loop over the entries of a map reads one value for each.
ToRead_OnePerEntry(v) ==
    IF v.kind \in AggregateKinds /\ v.size > 0 THEN v.size ELSE 0

\* Values the loop of an aggregate reads: a map reads a key, then a value.
ToRead(v) ==
    IF v.kind \in AggregateKinds /\ v.size > 0
    THEN v.size + (IF v.kind = "map" THEN v.size ELSE 0)
    ELSE 0

\* Bytes of a payload with its CRLF.
PayloadLength(v) ==
    IF v.kind \in BlobKinds /\ ~IsNull(v) THEN v.size + 2 ELSE 0

-----------------------------------------------------------------------------
(* The JSON conversion *)

\* The aggregate whose loop reads the next value, and whether that value is the
\* key of an entry (an odd number of values is left after it) or the first.
Innermost == stack[Len(stack)]
IsKey == /\ stack # <<>>
         /\ Innermost.of.kind = "map"
         /\ Innermost.left % 2 = 1
IsFirst == stack = <<>> \/ Innermost.left + 1 = ToRead(Innermost.of)

\* Quotes, text and escapes; a verbatim string loses its format prefix.
StringLength(v) ==
    2 + v.size + v.escaped
      - (IF v.kind = "verbatim" /\ v.size >= 4 THEN 4 ELSE 0)

Base64Length(n) == ((n + 2) \div 3) * 4

\* Brackets, the commas between elements, and the colons of a map.
Punctuation(v) ==
    2 + (IF v.size > 1 THEN v.size - 1 ELSE 0)
      + (IF v.kind = "map" THEN v.size ELSE 0)

\* Bytes a value is printed as, without its children.
Printed(v) ==
    CASE IsNull(v) -> 4
      [] ~IsNull(v) /\ v.kind \in TextKinds -> StringLength(v)
      [] v.kind = "binary" -> BASE64_ENVELOPE + Base64Length(v.size)
      [] ~IsNull(v) /\ v.kind \in AggregateKinds -> Punctuation(v)
      [] OTHER -> v.printed

\* Bytes charged for a value itself before it is built: the brackets of an
\* aggregate, the text of a double.
OwnCharge(v) ==
    CASE ~IsNull(v) /\ v.kind \in AggregateKinds -> 2
      [] v.kind = "double" -> v.size
      [] OTHER -> Printed(v)

\* Mutant: the commas are not charged.
SeparatorCharge_None(v) == 0

\* The comma before an element or an entry that is not the first: its loop
\* charges one byte.
SeparatorCharge(v) ==
    IF IsFirst \/ (Innermost.of.kind = "map" /\ ~IsKey) THEN 0 ELSE 1

\* A key is converted and charged like a value, then charged as the string it
\* is printed as, and its colon.
KeyLength(v) ==
    IF v.kind \in TextKinds /\ ~IsNull(v) THEN StringLength(v)
                                          ELSE 2 + Printed(v)
KeyCharge(v) == IF IsKey THEN KeyLength(v) + 1 ELSE 0

Converted(v) ==
    [charged |-> json.charged + SeparatorCharge(v) + OwnCharge(v) + KeyCharge(v),
     printed |-> json.printed + (IF IsKey THEN KeyLength(v) ELSE Printed(v)),
     error |-> json.error \/ v.kind \in {"error", "bloberror"},
     double |-> json.double \/ v.kind = "double"]

-----------------------------------------------------------------------------
(* read_value_budgeted *)

\* A value is complete: the innermost loop with values left goes on.
Proceed(s) ==
    \/ /\ \A i \in DOMAIN s : s[i].left = 0
       /\ decoding' = "done"
       /\ stack' = <<>>
    \/ \E last \in DOMAIN s :
          /\ s[last].left > 0
          /\ \A i \in (last + 1)..Len(s) : s[i].left = 0
          /\ decoding' = "value"
          /\ stack' = [SubSeq(s, 1, last) EXCEPT ![last].left = @ - 1]

FailReply ==
    /\ decoding' = "failed"
    /\ incoming' = NoValue
    /\ stack' = <<>>
    /\ payload' = 0

\* What a value adds to the budget once its line has been read.
Spent(v) ==
    [used EXCEPT !.bytes = @ + LineLength(v) + PayloadLength(v),
                 !.elements = @ + Reserved(v)]

Affordable(v) ==
    /\ Spent(v).bytes <= MAX_RESPONSE_BYTES
    /\ Spent(v).elements <= MAX_RESPONSE_ELEMENTS

\* One call up to its first line: nesting and node are checked before the line
\* is waited for.  read_until allocates the line whatever its length; only the
\* child's CRLF, or RESP_TIMEOUT, ends it.
ReadLine(v) ==
    /\ decoding = "value"
    /\ Len(stack) <= MAX_RESP_DEPTH
    /\ used.nodes < MAX_RESPONSE_NODES
    /\ owed > 0
    /\ IsKey => v.kind \notin AggregateKinds \cup {"binary"}
    /\ decoding' = "line"
    /\ incoming' = v
    /\ used' = [used EXCEPT !.nodes = @ + 1]
    /\ owed' = owed - 1
    /\ UNCHANGED <<stack, payload, json>>

\* The rest of the call up to its first await on a child or a payload: the line
\* is charged, then what it announces, before a buffer or vector is allocated.
ChargeLine ==
    /\ decoding = "line"
    /\ LengthValid(incoming)
    /\ Affordable(incoming)
    /\ incoming' = NoValue
    /\ used' = Spent(incoming)
    /\ json' = Converted(incoming)
    /\ owed' = owed + Announced(incoming)
    /\ payload' = PayloadLength(incoming)
    /\ IF payload' > 0
       THEN decoding' = "payload" /\ UNCHANGED stack
       ELSE Proceed(Append(stack, [left |-> ToRead(incoming), of |-> incoming]))

ReadPayload ==
    /\ decoding = "payload"
    /\ payload' = 0
    /\ Proceed(stack)
    /\ UNCHANGED <<incoming, used, json, owed>>

\* Every error: the connection ended, RESP_TIMEOUT passed, a line or a payload
\* does not end with CRLF, is not UTF-8 where it has to be or has no known type,
\* a length is invalid, the nesting is too deep or a budget is exceeded (then
\* this is all that is left to do).
ReplyFails ==
    /\ decoding \in {"value", "line", "payload"}
    /\ FailReply
    /\ UNCHANGED <<used, json, owed>>

BeginReply ==
    /\ decoding' = "value"
    /\ owed' = 1
    /\ UNCHANGED <<incoming, stack, used, payload, json>>

DecoderStep ==
    \/ \E v \in Values : ReadLine(v)
    \/ ChargeLine
    \/ ReadPayload
    \/ ReplyFails

-----------------------------------------------------------------------------
(* Properties *)

\* Loop iterations that allocated vectors still wait for.
Awaited ==
    (IF decoding = "value" THEN 1 ELSE 0)
        + Cardinality(UNION {{i} \X (1..stack[i].left) : i \in DOMAIN stack})

\* The decoder asks for a value exactly as long as the reply lacks one: it never
\* stops inside a reply, whose rest would answer the next command, and never
\* waits for a value that nobody owes.
OneReplyRead ==
    /\ decoding \in {"value", "line", "payload"} => owed = Awaited
    /\ decoding = "done" => owed = 0

\* Whatever is nested in it, a reply being decoded never holds more values and
\* slots than the element budget and its root, nor a payload buffer that the byte
\* budget was not charged for, nor deeper recursion than one level below the
\* limit.  The line in incoming is not covered: it is allocated before it is
\* charged (README, section 7).
ReplyWithinBudget ==
    /\ used.nodes + Awaited <= 1 + MAX_RESPONSE_ELEMENTS
    /\ used.nodes <= MAX_RESPONSE_NODES
    /\ payload <= used.bytes
    /\ used.bytes <= MAX_RESPONSE_BYTES
    /\ Len(stack) <= MAX_RESP_DEPTH + 1
============================================================================
