--------------------------- MODULE MCHttpCommands ---------------------------
(* Instances of HttpCommands for TLC. *)
EXTENDS HttpCommands, TLC

\* i64 has five bits: IntMax = 15, u64 up to 31.
MCTrim == " 2" :> "2" @@ "SELECT " :> "SELECT" @@ " LIMIT" :> "LIMIT"
MCUpper == "select" :> "SELECT" @@ "limit" :> "LIMIT" @@ "lrange" :> "LRANGE"
              @@ "nx" :> "NX"
MCNumeral == "-17" :> -17 @@ "-16" :> -16 @@ "-15" :> -15 @@ "-4" :> -4
                @@ "-3" :> -3 @@ "-2" :> -2 @@ "-1" :> -1 @@ "0" :> 0 @@ "1" :> 1
                @@ "2" :> 2 @@ "3" :> 3 @@ "4" :> 4 @@ "14" :> 14 @@ "15" :> 15
                @@ "16" :> 16 @@ "31" :> 31 @@ "32" :> 32
Numerals == DOMAIN MCNumeral \cup {"x", " 2"}

\* The words of a command as a line; a word with a space is quoted.
Line(words) ==
    LET Word(w) == IF w \in DOMAIN MCTrim THEN <<"\"", w, "\"">> ELSE <<w>>
    IN  SeqOps!FlattenSeq([i \in DOMAIN words |-> Word(words[i]) \o <<" ">>])

Windows ==
    {<<name, "k", from, to>> :
        name \in {"GETRANGE", "LRANGE", "ZREVRANGE"},
        from \in Numerals, to \in Numerals}
Counts ==
    {<<name, "k", n>> : name \in {"LPOP", "SRANDMEMBER"}, n \in Numerals}
        \cup {<<"SETBIT", "k", n, "1">> : n \in Numerals}
        \cup {<<"XRANGE", "k", "-", "+", "COUNT", n>> : n \in Numerals}
Bounds ==
    {<<"ZRANGEBYSCORE", "k", a, b>> \o options :
        a \in {"0", "limit"}, b \in {"1", "LIMIT"},
        options \in {<<"LIMIT", o, n>> : o \in {"-1", "0", "32"},
                                         n \in {"-1", "0", "1", "3", "4", "x"}}
            \cup {<<"WITHSCORES", "LIMIT", "0", "3">>,
                  <<"LIMIT", "0", "3", "WITHSCORES">>,
                  <<"LIMIT", "0", "3", "LIMIT">>,
                  <<"WITHSCORES", "1", "2">>, <<" LIMIT", "0", "3">>}}
        \cup {<<"ZRANGEBYSCORE", "k", "LIMIT", "0", "3", "WITHSCORES", "WITHSCORES">>,
              <<"ZRANGEBYSCORE", "limit", "0", "3", "WITHSCORES", "WITHSCORES", "WITHSCORES">>,
              <<"ZRANGEBYSCORE", "LIMIT", "0", "3", "LIMIT", "0", "15">>}
Others ==
    {<<"PING">>, <<"SELECT", "1">>, <<"select", "1">>, <<"SELECT ", "1">>,
     <<"HELLO", "3">>, <<"HELLO", "4">>, <<"COMMAND">>, <<"COMMAND", "COUNT">>,
     <<"COMMAND", "DOCS">>, <<"KEYS", "k">>, <<"lrange", "k", "0", "2">>,
     <<"COPY", "a", "k", "DB", "2", "REPLACE">>, <<"COPY", "a", "k", "DB", "16">>,
     <<"MSET", "a", "1", "k">>, <<"MSET", "a", "1", "k", "2">>,
     <<"HSET", "k", "a", "1">>, <<"SET", "k">>, <<"GETBIT", "k", "31">>,
     <<"ZADD", "k", "nx", "1", "a">>, <<"ZADD", "k", "NX", "NX", "1", "a">>,
     <<"ZADD", "k", "INCR", "1", "a", "2", "b">>, <<"ZADD", "k", "x", "a">>,
     <<"XADD", "k", "*", "a", "1">>, <<"XADD", "k", "1-1", "a", "1">>,
     <<"XADD", "k", "MAXLEN", "~", "9", "LIMIT", "2", "*", "a", "1">>,
     <<"XADD", "k", "NOMKSTREAM", "MINID", "1-1", "*", "a", "1">>,
     <<"XTRIM", "k", "MAXLEN", "~", "9", "LIMIT", "4">>,
     <<"XTRIM", "k", "MAXLEN", "9">>, <<"XTRIM", "k", "MAXLEN", "9", "LIMIT", "2">>,
     <<"MGET", "a", "k", "1", "2">>, <<"ZRANGE", "k", "0", "2", "WITHSCORES">>,
     <<"ZRANGE", "k", "0", "2", "REV">>, <<"LPOP", "k">>,
     <<"ECHO", "a", "a", "a", "a", "a", "a", "a", "a", "a", "a">>}
Lexemes == {"a", "n", " ", "\"", "'", Backslash}
Typed == {<<"ECHO", " ">> \o l : l \in UNION {[1..n -> Lexemes] : n \in 0..4}}

MCLines == {Line(words) : words \in Windows \cup Counts \cup Bounds \cup Others}
              \cup Typed \cup {<<>>, <<" ">>}

Sized(kind, size, escaped, printed) ==
    [kind |-> kind, size |-> size, escaped |-> escaped, printed |-> printed]
MCValues ==
    {Sized("simple", 2, 0, 0), Sized("error", 3, 0, 0), Sized("integer", 1, 0, 1),
     Sized("double", 3, 0, 16), Sized("null", 0, 0, 4), Sized("bool", 1, 0, 4)}
        \cup {Sized("bulk", n, 0, 0) : n \in {-2, -1, 0, 4, 9}}
        \cup {Sized("bulk", 2, 2, 0), Sized("binary", 2, 0, 0),
              Sized("bloberror", 2, 0, 0), Sized("verbatim", 4, 0, 0)}
        \cup {Sized("array", n, 0, 0) : n \in {-1, 0, 1, 2, 4}}
        \cup {Sized("map", n, 0, 0) : n \in {-1, 0, 1, 2}}
=============================================================================
