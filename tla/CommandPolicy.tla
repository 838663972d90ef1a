--------------------------- MODULE CommandPolicy ---------------------------
(***************************************************************************)
(* The command policy of the playground (policy.rs): a command is allowed   *)
(* when its normalized name is on the allowlist and its arguments pass the  *)
(* validator of that name.  Operators only; both ports ask them before a    *)
(* command reaches Ferrite.                                                 *)
(*                                                                         *)
(* An argument is a word.  What a word says is given by constants: Trim and *)
(* Upper, the words they change; Numeral, the words that spell an integer;  *)
(* Scores, those that parse as an f64 other than NaN; StreamIds, those of   *)
(* the form <u64>-<u64>.  i64 and u64 have the width that IntMax gives.     *)
(***************************************************************************)
EXTENDS Integers, Sequences

CONSTANTS
    Trim, Upper, Numeral, Scores, StreamIds,
    IntMax,                 \* i64::MAX
    MAX_MULTI_ITEMS,
    MAX_COLLECTION_PAGE,
    MAX_STRING_RANGE,
    MAX_DATABASE

IntMin == -IntMax - 1
UIntMax == 2 * IntMax + 1
MAX_BIT_OFFSET == MAX_STRING_RANGE * 8 - 1

ASSUME PolicyAssumption ==
    /\ IntMax \in Nat
    /\ MAX_MULTI_ITEMS \in Nat \ {0}
    /\ MAX_COLLECTION_PAGE \in 1..(IntMax - 1)
    /\ MAX_STRING_RANGE \in 1..(IntMax - 1)
    /\ MAX_DATABASE \in Nat
    /\ \A w \in DOMAIN Numeral : Numeral[w] \in Int
    /\ \A w \in {"", "LIMIT", "WITHSCORES"} : w \notin DOMAIN Numeral

-----------------------------------------------------------------------------
(* Words *)

Caseless(w) == IF w \in DOMAIN Upper THEN Upper[w] ELSE w
Trimmed(w) == IF w \in DOMAIN Trim THEN Trim[w] ELSE w
Normalize(w) == Caseless(Trimmed(w))

ParsesI64(w) == w \in DOMAIN Numeral /\ Numeral[w] \in IntMin..IntMax
ParsesU64(w) == w \in DOMAIN Numeral /\ Numeral[w] \in 0..UIntMax

\* The i-th argument, or the empty word, which nothing accepts.
Arg(args, i) == IF i \in DOMAIN args THEN args[i] ELSE ""
From(args, i) == SubSeq(args, i, Len(args))

\* Pairs to the end of the command, at most MAX_MULTI_ITEMS of them.
Pairs(s) == s # <<>> /\ Len(s) % 2 = 0 /\ Len(s) \div 2 <= MAX_MULTI_ITEMS

-----------------------------------------------------------------------------
(* Validators *)

IsDatabase(w) == ParsesU64(w) /\ Numeral[w] <= MAX_DATABASE

BoundedPositiveCount(w) ==
    ParsesU64(w) /\ Numeral[w] \in 1..MAX_COLLECTION_PAGE

\* Options of COPY: each at most once, in any order.
Copy(args) ==
    \/ From(args, 3) \in {<<>>, <<"REPLACE">>}
    \/ \E i \in DOMAIN args :
          /\ IsDatabase(args[i])
          /\ From(args, 3) \in {<<"DB", args[i]>>,
                                <<"REPLACE", "DB", args[i]>>,
                                <<"DB", args[i], "REPLACE">>}

RandomMember(args) ==
    /\ Len(args) \in 1..3
    /\ Len(args) > 1 => /\ ParsesI64(args[2])
                        /\ Numeral[args[2]] # 0
                        /\ Numeral[args[2]] \in
                              -MAX_COLLECTION_PAGE..MAX_COLLECTION_PAGE
    /\ Len(args) = 3 => args[3] \in {"WITHSCORES", "WITHVALUES"}

\* Mutant: the width is the difference of the two indexes.
RangeWithin_OffByOne(from, to, limit) ==
    /\ from = 0 \/ to = 0 \/ (from < 0 <=> to < 0)
    /\ ~(from >= 0 /\ to < 0)
    /\ to < from \/ to - from <= limit

\* The checks of bounded_range on its two indexes; a subtraction or an
\* addition that overflows makes the range invalid.
RangeWithin(from, to, limit) ==
    /\ from = 0 \/ to = 0 \/ (from < 0 <=> to < 0)
    /\ ~(from >= 0 /\ to < 0)
    /\ \/ to < from
       \/ /\ to - from <= IntMax
          /\ to - from + 1 <= IntMax
          /\ to - from + 1 <= limit

BoundedRange(args, limit) ==
    /\ ParsesI64(args[2])
    /\ ParsesI64(args[3])
    /\ RangeWithin(Numeral[args[2]], Numeral[args[3]], limit)

\* The clause is looked for in all of the arguments, the key included.
LimitedSortedRange(args) ==
    \E i \in DOMAIN args :
        /\ args[i] = "LIMIT"
        /\ \A j \in 1..(i - 1) : args[j] # "LIMIT"
        /\ ParsesU64(Arg(args, i + 1))
        /\ BoundedPositiveCount(Arg(args, i + 2))

ZaddOptions == {"NX", "XX", "GT", "LT", "CH", "INCR"}

Zadd(args) ==
    \E last \in 1..(Len(args) - 1) :
        LET options == SubSeq(args, 2, last)
            pairs == From(args, last + 1)
        IN  /\ \A i \in DOMAIN options : options[i] \in ZaddOptions
            /\ pairs[1] \notin ZaddOptions
            /\ \A i, j \in DOMAIN options : options[i] = options[j] => i = j
            /\ Pairs(pairs)
            /\ \A i \in DOMAIN pairs : i % 2 = 1 => pairs[i] \in Scores
            /\ (\E i \in DOMAIN options : options[i] = "INCR")
                    => Len(pairs) = 2

\* The argument after a trim specification that begins at start, 0 if invalid.
TrimSpecEnd(args, start) ==
    LET approximate == Arg(args, start + 1) = "~"
        at == IF Arg(args, start + 1) \in {"=", "~"} THEN start + 2
                                                     ELSE start + 1
        limited == Arg(args, at + 1) = "LIMIT"
        valid == /\ \/ /\ Arg(args, start) = "MAXLEN"
                       /\ ParsesU64(Arg(args, at))
                    \/ /\ Arg(args, start) = "MINID"
                       /\ Arg(args, at) \in StreamIds
                 /\ limited => /\ approximate
                               /\ BoundedPositiveCount(Arg(args, at + 2))
    IN  IF ~valid THEN 0 ELSE IF limited THEN at + 3 ELSE at + 1

Xadd(args) ==
    LET first == IF Arg(args, 2) = "NOMKSTREAM" THEN 3 ELSE 2
        id == IF Arg(args, first) \in {"MAXLEN", "MINID"}
              THEN TrimSpecEnd(args, first) ELSE first
    IN  Len(args) >= 4 /\ id > 0 /\ Arg(args, id) = "*" /\ Pairs(From(args, id + 1))

\* External: the elements of a collection of n that the child returns for a
\* window; a negative index counts from the end.
WindowSize(from, to, n) ==
    LET first == IF from >= 0 THEN from ELSE IF n + from > 0 THEN n + from ELSE 0
        last == IF to < 0 THEN n + to ELSE IF to < n THEN to ELSE n - 1
    IN  IF first <= last THEN last - first + 1 ELSE 0

-----------------------------------------------------------------------------
(* The allowlist *)

StringRanges == {"GETRANGE"}
IndexRanges == {"LRANGE", "ZRANGE", "ZREVRANGE"}
BoundRanges == {"ZRANGEBYLEX", "ZRANGEBYSCORE", "ZREVRANGEBYLEX",
                "ZREVRANGEBYSCORE"}
StreamRanges == {"XRANGE", "XREVRANGE"}
Pops == {"LPOP", "RPOP", "SPOP", "ZPOPMAX", "ZPOPMIN"}
RandomReads == {"HRANDFIELD", "SRANDMEMBER", "ZRANDMEMBER"}

\* The number of arguments of the names whose validator is exact, at_most,
\* between, keyed_items, key_value_pairs or hash_pairs.
ArityAllows(name, n) ==
    \/ n = 0 /\ name \in {"COMMAND.COUNT", "DBSIZE", "TIME", "RANDOMKEY"}
    \/ n <= 1 /\ name \in {"PING", "INFO"}
    \/ n = 1 /\ name \in {"ECHO", "TYPE", "TTL", "PTTL", "PERSIST", "GET",
                          "GETDEL", "STRLEN", "INCR", "DECR", "HLEN", "LLEN",
                          "SCARD", "ZCARD", "XLEN"}
    \/ n \in 1..MAX_MULTI_ITEMS /\
          name \in {"COMMAND.INFO", "EXISTS", "DEL", "UNLINK", "TOUCH", "MGET",
                    "PFCOUNT"}
    \/ n \in 1..3 /\ name = "GETEX"
    \/ n \in 1..4 /\ name = "BITCOUNT"
    \/ n = 2 /\ name \in {"RENAME", "RENAMENX", "INCRBY", "DECRBY",
                          "INCRBYFLOAT", "HGET", "HEXISTS", "HSTRLEN",
                          "LINDEX", "RPOPLPUSH"}
    \/ n \in 2..3 /\ name \in {"EXPIRE", "PEXPIRE", "EXPIREAT", "PEXPIREAT",
                               "SISMEMBER", "SMOVE", "ZSCORE", "ZRANK",
                               "ZREVRANK"}
    \/ n \in 2..5 /\ name = "BITPOS"
    \/ n \in 2..8 /\ name \in {"SET", "SETNX"}
    \/ n = 3 /\ name \in {"HSETNX", "HINCRBY", "HINCRBYFLOAT", "LSET", "LREM",
                          "LTRIM", "ZCOUNT", "ZLEXCOUNT", "ZINCRBY",
                          "ZREMRANGEBYLEX", "ZREMRANGEBYRANK",
                          "ZREMRANGEBYSCORE"}
    \/ n = 4 /\ name \in {"LINSERT", "LMOVE"}
    \/ n \in 2..(MAX_MULTI_ITEMS + 1) /\
          name \in {"HDEL", "HMGET", "LPUSH", "LPUSHX", "RPUSH", "RPUSHX",
                    "SADD", "SREM", "SMISMEMBER", "ZMSCORE", "ZREM", "XDEL",
                    "PFADD", "PFMERGE"}
    \/ n > 0 /\ n % 2 = 0 /\ n \div 2 <= MAX_MULTI_ITEMS
          /\ name \in {"MSET", "MSETNX"}
    \/ n >= 3 /\ n % 2 = 1 /\ n \div 2 <= MAX_MULTI_ITEMS /\ name = "HSET"

\* The names whose validator looks at the arguments.
ArgumentsAllow(name, args) ==
    LET n == Len(args) IN
    \/ name = "HELLO" /\ n = 1 /\ args[1] \in {"2", "3"}
    \/ name = "SELECT" /\ n = 1 /\ IsDatabase(args[1])
    \/ name = "COPY" /\ n \in 2..5 /\ Copy(args)
    \/ name = "GETBIT" /\ n = 2 /\ ParsesU64(args[2])
    \/ name = "SETBIT" /\ n = 3 /\ ParsesU64(args[2])
          /\ Numeral[args[2]] <= MAX_BIT_OFFSET /\ args[3] \in {"0", "1"}
    \/ name \in Pops /\ n \in 1..2 /\ (n = 2 => BoundedPositiveCount(args[2]))
    \/ name \in RandomReads /\ RandomMember(args)
    \/ name \in StringRanges /\ n = 3 /\ BoundedRange(args, MAX_STRING_RANGE)
    \/ name = "LRANGE" /\ n = 3 /\ BoundedRange(args, MAX_COLLECTION_PAGE)
    \/ name \in {"ZRANGE", "ZREVRANGE"} /\ n \in 3..4
          /\ (n = 4 => args[4] = "WITHSCORES")
          /\ BoundedRange(args, MAX_COLLECTION_PAGE)
    \/ name \in BoundRanges /\ n \in 6..7 /\ LimitedSortedRange(args)
    \/ name = "ZADD" /\ n >= 3 /\ Zadd(args)
    \/ name = "XADD" /\ Xadd(args)
    \/ name \in StreamRanges /\ n = 5 /\ args[4] = "COUNT"
          /\ BoundedPositiveCount(args[5])
    \/ name = "XTRIM" /\ n >= 3 /\ TrimSpecEnd(args, 2) = n + 1

\* Root and subcommand are one name; the arguments follow it.
NameOf(words) ==
    IF words[1] = "COMMAND" THEN "COMMAND." \o Arg(words, 2) ELSE words[1]
ArgumentsOf(words) == From(words, IF words[1] = "COMMAND" THEN 3 ELSE 2)

\* The decision on a command: classify_arguments.
Allowed(command) ==
    LET words == [i \in DOMAIN command |-> Normalize(command[i])] IN
    /\ command # <<>>
    /\ \/ ArityAllows(NameOf(words), Len(ArgumentsOf(words)))
       \/ ArgumentsAllow(NameOf(words), ArgumentsOf(words))
============================================================================
