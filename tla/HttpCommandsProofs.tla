-------------------------- MODULE HttpCommandsProofs --------------------------
(***************************************************************************)
(* Proofs about one request of the HTTP API, for every line, reply, key,    *)
(* limit and page size: bounded_range and what an admitted command asks of  *)
(* the child, the tokenizer and its inverse, the reply decoder under its    *)
(* budgets, and the key detail.                                             *)
(***************************************************************************)
EXTENDS HttpCommands, SetFacts, SequenceTheorems

-----------------------------------------------------------------------------
(* bounded_range *)

\* The bounds of i64, and the limits.
LEMMA IntBounds ==
    /\ IntMax \in Nat /\ IntMin \in Int /\ IntMin..IntMax \subseteq Int
    /\ MAX_COLLECTION_PAGE \in Nat \ {0} /\ MAX_STRING_RANGE \in Nat \ {0}
<1>1. IntMax \in Nat
    BY PolicyAssumption DEF PolicyAssumption
<1>2. /\ MAX_COLLECTION_PAGE \in 1..(IntMax - 1)
      /\ MAX_STRING_RANGE \in 1..(IntMax - 1)
    BY PolicyAssumption DEF PolicyAssumption
<1> QED
    BY <1>1, <1>2 DEF IntMin

\* The window of two i64 numbers never overflows to an accepted one: what
\* bounded_range accepts makes the child return at most limit elements.
THEOREM AcceptedWindowBounded ==
    ASSUME NEW from \in IntMin..IntMax, NEW to \in IntMin..IntMax,
           NEW limit \in Nat \ {0}, RangeWithin(from, to, limit)
    PROVE  \A n \in Nat : WindowSize(from, to, n) <= limit
<1> SUFFICES ASSUME NEW n \in Nat PROVE WindowSize(from, to, n) <= limit
    OBVIOUS
<1>1. IntMin \in Int /\ IntMax \in Int /\ from \in Int /\ to \in Int
    BY IntBounds
<1>2. \/ from >= 0 /\ to >= 0
      \/ from <= 0 /\ to <= 0
    BY <1>1 DEF RangeWithin
<1>3. to < from \/ to - from + 1 <= limit
    BY <1>1 DEF RangeWithin
<1>4. ~(from >= 0 /\ to < 0)
    BY DEF RangeWithin
<1>5. CASE from >= 0 /\ to >= 0
    BY <1>1, <1>3, <1>5 DEF WindowSize
<1>6. CASE from < 0 /\ to < 0
    BY <1>1, <1>3, <1>6 DEF WindowSize
<1>7. CASE from < 0 /\ to = 0
    BY <1>1, <1>7 DEF WindowSize
<1> QED
    BY <1>1, <1>2, <1>4, <1>5, <1>6, <1>7

\* And it does not refuse too much: a window of two numbers from the same end,
\* or one that never ends, is only refused if some collection has more than
\* limit elements in it.
THEOREM RefusedWindowWide ==
    ASSUME NEW from \in IntMin..IntMax, NEW to \in IntMin..IntMax,
           NEW limit \in 1..(IntMax - 1), ~RangeWithin(from, to, limit),
           from >= 0 \/ to < 0
    PROVE  \E n \in Nat : WindowSize(from, to, n) > limit
<1>1. IntMin \in Int /\ IntMax \in Int /\ from \in Int /\ to \in Int
      /\ limit \in Nat
    BY IntBounds
<1>2. CASE from >= 0 /\ to < 0
    <2>1. from - to + limit \in Nat
        BY <1>1, <1>2
    <2>2. WindowSize(from, to, from - to + limit) = limit + 1
        BY <1>1, <1>2 DEF WindowSize
    <2> QED
        BY <1>1, <2>1, <2>2
<1>3. ASSUME ~(from >= 0 /\ to < 0)
      PROVE  to >= from /\ to - from + 1 > limit
    BY <1>1, <1>3 DEF RangeWithin
<1>4. CASE from >= 0 /\ to >= 0
    <2>1. to + 1 \in Nat /\ WindowSize(from, to, to + 1) = to - from + 1
        BY <1>1, <1>3, <1>4 DEF WindowSize
    <2> QED
        BY <1>1, <1>3, <1>4, <2>1
<1>5. CASE from < 0 /\ to < 0
    <2>1. -from \in Nat /\ WindowSize(from, to, -from) = to - from + 1
        BY <1>1, <1>3, <1>5 DEF WindowSize
    <2> QED
        BY <1>1, <1>3, <1>5, <2>1
<1> QED
    BY <1>1, <1>2, <1>4, <1>5

-----------------------------------------------------------------------------
(* What an admitted command asks of the child *)

\* classify_arguments: none of these names is admitted by its arity alone.
LEMMA WindowedByArguments ==
    ASSUME NEW name \in Windowed, NEW k \in Nat
    PROVE  ~ArityAllows(name, k)
BY DEF Windowed, ArityAllows, IndexRanges, StringRanges, BoundRanges, StreamRanges,
       Pops, RandomReads

\* classify_arguments: what the validators of these names have looked at.
LEMMA WindowedArguments ==
    ASSUME NEW name \in Windowed, NEW args, ArgumentsAllow(name, args)
    PROVE  /\ name \in Pops => Len(args) \in 1..2
                              /\ (Len(args) = 2 => BoundedPositiveCount(args[2]))
           /\ name \in RandomReads => RandomMember(args)
           /\ name \in StringRanges => BoundedRange(args, MAX_STRING_RANGE)
           /\ name \in IndexRanges => BoundedRange(args, MAX_COLLECTION_PAGE)
           /\ name \in BoundRanges => Len(args) \in 6..7 /\ LimitedSortedRange(args)
           /\ name \in StreamRanges => BoundedPositiveCount(args[5])
           /\ name = "SETBIT" => ParsesU64(args[2]) /\ Numeral[args[2]] <= MAX_BIT_OFFSET
BY DEF Windowed, ArgumentsAllow, IndexRanges, StringRanges, BoundRanges, StreamRanges,
       Pops, RandomReads

\* bounded_positive_count: an accepted count is at most a page, and it is not
\* one of the words that a range has for its options.
LEMMA CountBounded ==
    ASSUME NEW w, BoundedPositiveCount(w)
    PROVE  /\ Number(w) \in 1..MAX_COLLECTION_PAGE
           /\ w \notin {"", "LIMIT", "WITHSCORES"}
BY IntBounds, PolicyAssumption DEF BoundedPositiveCount, ParsesU64, Number, PolicyAssumption

\* bounded_range: an accepted range asks for at most limit elements.
LEMMA RangeDemand ==
    ASSUME NEW args, NEW limit \in Nat \ {0}, BoundedRange(args, limit), NEW n \in Nat
    PROVE  WindowSize(Number(args[2]), Number(args[3]), n) <= limit
<1>1. Number(args[2]) \in IntMin..IntMax /\ Number(args[3]) \in IntMin..IntMax
    BY DEF BoundedRange, ParsesI64, Number
<1>2. RangeWithin(Number(args[2]), Number(args[3]), limit)
    BY DEF BoundedRange, ParsesI64, Number
<1> QED
    BY <1>1, <1>2, AcceptedWindowBounded

\* limited_sorted_range: when the key is not taken for it, the first LIMIT is the
\* only clause the child can read, and its count is the one that was checked; at
\* any other place the options are an error there.
LEMMA LimitDemand ==
    ASSUME NEW S, NEW args \in Seq(S), Len(args) \in 6..7, LimitedSortedRange(args),
           args[1] # "LIMIT", NEW n \in Nat
    PROVE  LimitCount(args, n) \in 0..MAX_COLLECTION_PAGE
<1>0. DOMAIN args = 1..Len(args) /\ MAX_COLLECTION_PAGE \in Nat
    BY LenProperties, IntBounds
<1>1. PICK i \in DOMAIN args :
         /\ args[i] = "LIMIT"
         /\ \A j \in 1..(i - 1) : args[j] # "LIMIT"
         /\ ParsesU64(Arg(args, i + 1))
         /\ BoundedPositiveCount(Arg(args, i + 2))
    BY DEF LimitedSortedRange
<1>2. i \in 2..Len(args)
    BY <1>0, <1>1
<1>3. i + 2 \in DOMAIN args
    <2>1. Arg(args, i + 2) # ""
        BY <1>1, CountBounded
    <2> QED
        BY <2>1 DEF Arg
<1>4. i \in 2..5 /\ i + 1 \in 1..Len(args) /\ i + 2 \in 1..Len(args)
    BY <1>0, <1>2, <1>3
<1>5. Number(args[i + 2]) \in 1..MAX_COLLECTION_PAGE
    BY <1>0, <1>1, <1>4, CountBounded DEF Arg
<1>6. args[i + 1] \notin {"", "LIMIT", "WITHSCORES"} /\ args[i + 2] \notin {"", "LIMIT", "WITHSCORES"}
    <2>1. Arg(args, i + 1) \in DOMAIN Numeral
        BY <1>1 DEF ParsesU64
    <2>2. args[i + 1] \notin {"", "LIMIT", "WITHSCORES"}
        BY <1>0, <1>4, <2>1, PolicyAssumption DEF Arg, PolicyAssumption
    <2> QED
        BY <1>0, <1>1, <1>4, <2>2, CountBounded DEF Arg
<1>7. ~ \A j \in 4..Len(args) : IsOption(args, j)
    <2>1. CASE i \in 4..5
        BY <1>1, <1>4, <2>1 DEF IsOption
    <2>2. CASE i \in 2..3
        <3>1. i + 2 \in 4..Len(args)
            BY <1>4, <2>2
        <3> QED
            BY <1>6, <3>1 DEF IsOption
    <2> QED
        BY <1>4, <2>1, <2>2
<1>8. ASSUME NEW k \in LimitClauses(args) PROVE k = i
    <2>1. /\ k \in 4..(Len(args) - 2) /\ args[k] = "LIMIT"
          /\ \A j \in (4..Len(args)) \ (k..(k + 2)) : args[j] = "WITHSCORES"
        BY DEF LimitClauses, IsOption
    <2>2. i <= k
        BY <1>1, <1>4, <2>1
    <2>3. CASE i \in 4..5
        <3>1. i \in k..(k + 2)
            BY <1>1, <1>4, <2>1, <2>3
        <3> QED
            BY <1>4, <2>1, <2>2, <3>1
    <2>4. CASE i \in 2..3
        <3>1. k \in {4, 5} /\ i + 2 # k /\ i + 1 # k
            <4>1. k \in 4..5
                <5>1. k \in 4..(Len(args) - 2)
                    BY <2>1
                <5> QED
                    BY <1>0, <5>1
            <4>2. args[k] \notin {args[i + 1], args[i + 2]}
                BY <1>6, <2>1
            <4> QED
                BY <1>4, <2>1, <4>1, <4>2
        <3>2. i + 2 \in (4..Len(args)) \ (k..(k + 2))
            BY <1>4, <2>4, <2>1, <3>1
        <3> QED
            BY <1>6, <2>1, <3>2
    <2> QED
        BY <1>4, <2>3, <2>4
<1>9. CASE LimitClauses(args) = {}
    BY <1>0, <1>7, <1>9 DEF LimitCount
<1>10. CASE LimitClauses(args) # {}
    <2>1. (CHOOSE k \in LimitClauses(args) : TRUE) = i
        BY <1>8, <1>10
    <2>2. LimitCount(args, n) = Number(args[i + 2])
        <3>1. LimitCount(args, n) = IF Number(args[i + 2]) < 0 THEN n ELSE Number(args[i + 2])
            BY <1>7, <1>10, <2>1 DEF LimitCount
        <3> QED
            BY <1>0, <1>5, <3>1
    <2> QED
        BY <1>0, <1>5, <2>2
<1> QED
    BY <1>9, <1>10

\* classify_arguments: whatever command with a window passes the policy asks for at
\* most one page of a collection of any length.
LEMMA PolicyBoundsDemand ==
    ASSUME NEW name \in Windowed, NEW S, NEW args \in Seq(S),
           ArityAllows(name, Len(args)) \/ ArgumentsAllow(name, args),
           ~(name \in BoundRanges /\ args[1] = "LIMIT"), NEW n \in Nat
    PROVE  Demand(name, args, n) <= DemandLimit(name)
<1>0. Len(args) \in Nat /\ MAX_COLLECTION_PAGE \in Nat \ {0} /\ MAX_STRING_RANGE \in Nat \ {0}
    BY LenProperties, IntBounds
<1>2. ArgumentsAllow(name, args)
    BY <1>0, WindowedByArguments
<1>3. CASE name \in IndexRanges
    <2>1. BoundedRange(args, MAX_COLLECTION_PAGE)
        BY <1>2, <1>3, WindowedArguments DEF Windowed
    <2>2. DemandLimit(name) = MAX_COLLECTION_PAGE
        BY <1>3 DEF DemandLimit, IndexRanges, StringRanges
    <2>3. Demand(name, args, n) = WindowSize(Number(args[2]), Number(args[3]), n)
        BY <1>3 DEF Demand
    <2> QED
        BY <1>0, <2>1, <2>2, <2>3, RangeDemand
<1>4. CASE name \in StringRanges
    <2>1. BoundedRange(args, MAX_STRING_RANGE)
        BY <1>2, <1>4, WindowedArguments DEF Windowed
    <2>2. DemandLimit(name) = MAX_STRING_RANGE
        BY <1>4 DEF DemandLimit
    <2>3. Demand(name, args, n) = WindowSize(Number(args[2]), Number(args[3]), n)
        BY <1>4 DEF Demand
    <2> QED
        BY <1>0, <2>1, <2>2, <2>3, RangeDemand
<1>5. CASE name \in BoundRanges
    <2>1. Len(args) \in 6..7 /\ LimitedSortedRange(args)
        BY <1>2, <1>5, WindowedArguments DEF Windowed
    <2>2. DemandLimit(name) = MAX_COLLECTION_PAGE
        BY <1>5 DEF DemandLimit, BoundRanges, StringRanges
    <2>3. Demand(name, args, n) = LimitCount(args, n)
        BY <1>5 DEF Demand, BoundRanges, IndexRanges, StringRanges
    <2>4. LimitCount(args, n) \in 0..MAX_COLLECTION_PAGE
        BY <1>5, <2>1, LimitDemand
    <2> QED
        BY <1>0, <2>2, <2>3, <2>4
<1>6. CASE name \in StreamRanges
    <2>1. Number(args[5]) \in 1..MAX_COLLECTION_PAGE
        BY <1>2, <1>6, WindowedArguments, CountBounded DEF Windowed
    <2>2. DemandLimit(name) = MAX_COLLECTION_PAGE
        BY <1>6 DEF DemandLimit, StreamRanges, StringRanges
    <2>3. Demand(name, args, n) = Number(args[5])
        BY <1>6 DEF Demand, StreamRanges, BoundRanges, IndexRanges, StringRanges
    <2> QED
        BY <1>0, <2>1, <2>2, <2>3
<1>7. CASE name \in Pops \cup RandomReads
    <2>1. Len(args) \in 1..3 /\ (Len(args) > 1 =>
              Number(args[2]) \in -MAX_COLLECTION_PAGE..MAX_COLLECTION_PAGE)
        <3>1. CASE name \in Pops
            <4>1. Len(args) \in 1..2 /\ (Len(args) = 2 => BoundedPositiveCount(args[2]))
                BY <1>2, <3>1, WindowedArguments DEF Windowed
            <4>2. Len(args) = 2 => Number(args[2]) \in 1..MAX_COLLECTION_PAGE
                BY <4>1, CountBounded
            <4> QED
                BY <1>0, <4>1, <4>2
        <3>2. CASE name \in RandomReads
            <4>1. RandomMember(args)
                BY <1>2, <3>2, WindowedArguments DEF Windowed
            <4> QED
                BY <1>0, <4>1 DEF RandomMember, ParsesI64, Number
        <3> QED
            BY <1>7, <3>1, <3>2
    <2>2. DemandLimit(name) = MAX_COLLECTION_PAGE
        BY <1>7 DEF DemandLimit, Pops, RandomReads, StringRanges
    <2>3. Demand(name, args, n) = IF Len(args) = 1 THEN 1 ELSE Magnitude(Number(args[2]))
        BY <1>7 DEF Demand, Pops, RandomReads, StreamRanges, BoundRanges, IndexRanges,
                    StringRanges
    <2> QED
        BY <1>0, <2>1, <2>2, <2>3 DEF Magnitude
<1>8. CASE name = "SETBIT"
    <2>1. ParsesU64(args[2]) /\ Numeral[args[2]] <= MAX_BIT_OFFSET
        BY <1>2, <1>8, WindowedArguments DEF Windowed
    <2>2. Number(args[2]) \in Nat /\ Number(args[2]) <= MAX_STRING_RANGE * 8 - 1
        BY <1>0, <2>1, IntBounds DEF ParsesU64, Number, MAX_BIT_OFFSET, UIntMax
    <2>3. \A k, m \in Nat : k <= m * 8 - 1 => k \div 8 + 1 <= m
        OBVIOUS
    <2>4. Demand(name, args, n) = Number(args[2]) \div 8 + 1
        BY <1>8 DEF Demand, Pops, RandomReads, StreamRanges, BoundRanges, IndexRanges,
                    StringRanges
    <2>5. DemandLimit(name) = MAX_STRING_RANGE
        BY <1>8 DEF DemandLimit
    <2> QED
        BY <1>0, <2>2, <2>3, <2>4, <2>5
<1> QED
    BY <1>3, <1>4, <1>5, <1>6, <1>7, <1>8 DEF Windowed

-----------------------------------------------------------------------------
(* The tokenizer *)

\* A run of the scanner over the first n characters of a line.
ScanRun(start, l, n, f) ==
    f = [i \in 0..n |-> IF i = 0 THEN start ELSE Scan(f[i - 1], l[i])]

\* parse: the scanner can go on over any number of characters.
LEMMA ScanRunExists ==
    ASSUME NEW start, NEW l
    PROVE  \A n \in Nat : \E f : ScanRun(start, l, n, f)
<1> DEFINE M == {n \in Nat : \E f : ScanRun(start, l, n, f)}
<1>1. 0 \in M
    <2> DEFINE f == [i \in 0..0 |-> start]
    <2>1. ScanRun(start, l, 0, f)
        BY DEF ScanRun
    <2> QED
        BY <2>1
<1>2. ASSUME NEW n \in Nat, n \in M PROVE n + 1 \in M
    <2>1. PICK f : ScanRun(start, l, n, f)
        BY <1>2
    <2> DEFINE g == [i \in 0..(n + 1) |-> IF i = n + 1 THEN Scan(f[n], l[n + 1]) ELSE f[i]]
    <2>2. \A i \in 0..n : f[i] = IF i = 0 THEN start ELSE Scan(f[i - 1], l[i])
        BY <2>1 DEF ScanRun
    <2>3. \A i \in 0..(n + 1) : g[i] = IF i = 0 THEN start ELSE Scan(g[i - 1], l[i])
        BY <2>2
    <2>4. ScanRun(start, l, n + 1, g)
        <3>1. g = [i \in 0..(n + 1) |-> g[i]]
            OBVIOUS
        <3> HIDE DEF g
        <3> QED
            BY <2>3, <3>1 DEF ScanRun
    <2> QED
        BY <2>4
<1> QED
    <2> HIDE DEF M
    <2>1. Nat \subseteq M
        BY <1>1, <1>2, NaturalInduction
    <2> QED
        BY <2>1 DEF M

\* parse: what it has read so far does not depend on what follows.
LEMMA ScanRunsAgree ==
    ASSUME NEW start, NEW l, NEW m \in Nat, NEW f, ScanRun(start, l, m, f),
           NEW k, NEW n \in Nat, NEW g, ScanRun(start, k, n, g),
           m <= n, \A i \in 1..m : l[i] = k[i]
    PROVE  f[m] = g[m]
<1> DEFINE M == {j \in Nat : j <= m => f[j] = g[j]}
<1>1. /\ \A j \in 0..m : f[j] = IF j = 0 THEN start ELSE Scan(f[j - 1], l[j])
      /\ \A j \in 0..n : g[j] = IF j = 0 THEN start ELSE Scan(g[j - 1], k[j])
    BY DEF ScanRun
<1>2. 0 \in M
    BY <1>1
<1>3. ASSUME NEW j \in Nat, j \in M PROVE j + 1 \in M
    <2> SUFFICES ASSUME j + 1 <= m PROVE f[j + 1] = g[j + 1]
        OBVIOUS
    <2>1. f[j] = g[j] /\ l[j + 1] = k[j + 1]
        BY <1>3
    <2>2. f[j + 1] = Scan(f[j], l[j + 1]) /\ g[j + 1] = Scan(g[j], k[j + 1])
        BY <1>1
    <2> QED
        BY <2>1, <2>2
<1>4. Nat \subseteq M
    <2> HIDE DEF M
    <2> QED
        BY <1>2, <1>3, NaturalInduction
<1> QED
    BY <1>4

\* The state after a line is the last one of a run over it.
LEMMA ScanFromRun ==
    ASSUME NEW start, NEW S, NEW l \in Seq(S)
    PROVE  \E f : ScanRun(start, l, Len(l), f) /\ ScanFrom(start, l) = f[Len(l)]
<1> DEFINE f == CHOOSE f : ScanRun(start, l, Len(l), f)
<1>1. ScanRun(start, l, Len(l), f)
    BY ScanRunExists, LenProperties
<1>2. ScanFrom(start, l) = f[Len(l)]
    BY DEF ScanFrom, ScanRun
<1> QED
    BY <1>1, <1>2

\* Before the first character the scanner is where it started.
LEMMA ScanNothing == \A start : ScanFrom(start, <<>>) = start
<1> TAKE start
<1>1. <<>> \in Seq({}) /\ Len(<<>>) = 0
    BY EmptySeq
<1>2. PICK f : ScanRun(start, <<>>, 0, f) /\ ScanFrom(start, <<>>) = f[0]
    BY <1>1, ScanFromRun
<1> QED
    BY <1>2 DEF ScanRun

\* parse: one more character is one more step.
LEMMA ScanAppend ==
    ASSUME NEW start, NEW S, NEW l \in Seq(S), NEW c \in S
    PROVE  ScanFrom(start, Append(l, c)) = Scan(ScanFrom(start, l), c)
<1> DEFINE m == Append(l, c)
           n == Len(l)
<1>1. n \in Nat /\ m \in Seq(S) /\ Len(m) = n + 1 /\ m[n + 1] = c /\ \A i \in 1..n : m[i] = l[i]
    BY LenProperties, AppendProperties
<1>2. PICK f : ScanRun(start, l, n, f) /\ ScanFrom(start, l) = f[n]
    BY ScanFromRun
<1>3. PICK g : ScanRun(start, m, n + 1, g) /\ ScanFrom(start, m) = g[n + 1]
    <2> HIDE DEF m
    <2> QED
        BY <1>1, ScanFromRun
<1>4. f[n] = g[n]
    <2>1. n + 1 \in Nat /\ n <= n + 1 /\ \A i \in 1..n : l[i] = m[i]
        BY <1>1
    <2> HIDE DEF m, n
    <2> QED
        BY <1>1, <1>2, <1>3, <2>1, ScanRunsAgree
<1>5. g[n + 1] = Scan(g[n], m[n + 1])
    <2> HIDE DEF m, n
    <2> QED
        BY <1>1, <1>3 DEF ScanRun
<1> QED
    BY <1>1, <1>2, <1>3, <1>4, <1>5

\* The characters of a line and of its arguments.
Lexemes == STRING \cup Whitespace \cup Quotes \cup {Backslash, ""}

ScanStates == [arguments : Seq(Seq(Lexemes)), current : Seq(Lexemes),
               started : BOOLEAN, quote : Lexemes, escape : BOOLEAN]

\* parse: ending an argument keeps the scanner's state of one form.
LEMMA EndArgumentCloses ==
    ASSUME NEW s \in ScanStates
    PROVE  EndArgument(s) \in ScanStates
<1>1. Append(s.arguments, s.current) \in Seq(Seq(Lexemes)) /\ <<>> \in Seq(Lexemes)
    BY AppendProperties, EmptySeq DEF ScanStates
<1> QED
    BY <1>1 DEF EndArgument, ScanStates

\* parse: the same for one character.
LEMMA ScanCloses ==
    ASSUME NEW s \in ScanStates, NEW c \in Lexemes
    PROVE  Scan(s, c) \in ScanStates
<1>1. \A d \in Lexemes : Append(s.current, d) \in Seq(Lexemes)
    BY AppendProperties DEF ScanStates
<1>2. Unescape(c) \in Lexemes
    BY DEF Unescape, Lexemes, Whitespace
<1>3. \A d \in Lexemes : /\ Take(s, d) \in ScanStates
                         /\ Take([s EXCEPT !.escape = FALSE], d) \in ScanStates
    BY <1>1 DEF Take, ScanStates
<1>4. /\ [s EXCEPT !.escape = TRUE] \in ScanStates
      /\ [s EXCEPT !.quote = ""] \in ScanStates
      /\ [s EXCEPT !.quote = c, !.started = TRUE] \in ScanStates
    BY DEF ScanStates, Lexemes
<1> QED
    BY <1>2, <1>3, <1>4, EndArgumentCloses DEF Scan

\* parse: the same for a line.
LEMMA ScanFromCloses ==
    ASSUME NEW s \in ScanStates
    PROVE  \A l \in Seq(Lexemes) : ScanFrom(s, l) \in ScanStates
<1> DEFINE M == {l \in Seq(Lexemes) : ScanFrom(s, l) \in ScanStates}
<1>1. <<>> \in M
    <2>1. <<>> \in Seq(Lexemes)
        BY EmptySeq
    <2>2. ScanFrom(s, <<>>) = s
        BY <2>1, ScanNothing
    <2> QED
        BY <2>1, <2>2
<1>2. ASSUME NEW l \in Seq(Lexemes), NEW c \in Lexemes, l \in M
      PROVE  Append(l, c) \in M
    BY <1>2, ScanAppend, ScanCloses, AppendProperties
<1>3. Seq(Lexemes) \subseteq M
    <2> HIDE DEF M
    <2> QED
        BY <1>1, <1>2, SequenceInduction
<1> QED
    BY <1>3

\* parse: a line becomes a list of arguments, each a sequence of characters.
LEMMA ParseShape ==
    ASSUME NEW l \in Seq(Lexemes)
    PROVE  Parse(l) \in Seq(Seq(Lexemes))
<1>1. ScanStart \in ScanStates
    <2>1. <<>> \in Seq(Seq(Lexemes)) /\ <<>> \in Seq(Lexemes)
        BY EmptySeq
    <2> QED
        BY <2>1 DEF ScanStart, ScanStates, Lexemes
<1>2. Scanned(l) \in ScanStates
    BY <1>1, ScanFromCloses DEF Scanned
<1> QED
    BY <1>2, EndArgumentCloses DEF Parse, ScanStates

-----------------------------------------------------------------------------
(* What is typed for an argument list *)

\* The pieces of a sequence of sequences, put together one by one.
FlattenRun(seqs, n, f) ==
    f = [i \in 1..n |-> IF i = 1 THEN seqs[i] ELSE f[i - 1] \o seqs[i]]

\* It can go on over any number of pieces.
LEMMA FlattenRunExists ==
    ASSUME NEW seqs
    PROVE  \A n \in Nat : \E f : FlattenRun(seqs, n, f)
<1> DEFINE M == {n \in Nat : \E f : FlattenRun(seqs, n, f)}
<1>1. 0 \in M
    <2> DEFINE f == [i \in 1..0 |-> <<>>]
    <2>1. FlattenRun(seqs, 0, f)
        BY DEF FlattenRun
    <2> QED
        BY <2>1
<1>2. ASSUME NEW n \in Nat, n \in M PROVE n + 1 \in M
    <2>1. PICK f : FlattenRun(seqs, n, f)
        BY <1>2
    <2> DEFINE g == [i \in 1..(n + 1) |->
                        IF i # n + 1 THEN f[i]
                        ELSE IF i = 1 THEN seqs[i] ELSE f[n] \o seqs[i]]
    <2>2. \A i \in 1..n : f[i] = IF i = 1 THEN seqs[i] ELSE f[i - 1] \o seqs[i]
        BY <2>1 DEF FlattenRun
    <2>3. \A i \in 1..(n + 1) : g[i] = IF i = 1 THEN seqs[i] ELSE g[i - 1] \o seqs[i]
        BY <2>2
    <2>4. FlattenRun(seqs, n + 1, g)
        <3>1. g = [i \in 1..(n + 1) |-> g[i]]
            OBVIOUS
        <3> HIDE DEF g
        <3> QED
            BY <2>3, <3>1 DEF FlattenRun
    <2> QED
        BY <2>4
<1> QED
    <2> HIDE DEF M
    <2>1. Nat \subseteq M
        BY <1>1, <1>2, NaturalInduction
    <2> QED
        BY <2>1 DEF M

\* What is put together does not depend on the pieces that follow.
LEMMA FlattenRunsAgree ==
    ASSUME NEW m \in Nat, NEW n \in Nat, m <= n,
           NEW k, NEW f, FlattenRun(k, m, f),
           NEW l, NEW g, FlattenRun(l, n, g), \A i \in 1..m : l[i] = k[i]
    PROVE  \A i \in 1..m : f[i] = g[i]
<1> DEFINE M == {j \in Nat : j \in 1..m => f[j] = g[j]}
<1>1. /\ \A j \in 1..m : f[j] = IF j = 1 THEN k[j] ELSE f[j - 1] \o k[j]
      /\ \A j \in 1..n : g[j] = IF j = 1 THEN l[j] ELSE g[j - 1] \o l[j]
    BY DEF FlattenRun
<1>2. 0 \in M
    OBVIOUS
<1>3. ASSUME NEW j \in Nat, j \in M PROVE j + 1 \in M
    <2> SUFFICES ASSUME j + 1 \in 1..m PROVE f[j + 1] = g[j + 1]
        OBVIOUS
    <2>1. l[j + 1] = k[j + 1] /\ (j = 0 \/ f[j] = g[j])
        BY <1>3
    <2>2. f[j + 1] = IF j = 0 THEN k[j + 1] ELSE f[j] \o k[j + 1]
        BY <1>1
    <2>3. g[j + 1] = IF j = 0 THEN l[j + 1] ELSE g[j] \o l[j + 1]
        BY <1>1
    <2> QED
        BY <2>1, <2>2, <2>3
<1>4. Nat \subseteq M
    <2> HIDE DEF M
    <2> QED
        BY <1>2, <1>3, NaturalInduction
<1> QED
    BY <1>4

\* The whole is the last of them.
LEMMA FlattenIsRun ==
    ASSUME NEW S, NEW l \in Seq(S), Len(l) # 0
    PROVE  \E f : FlattenRun(l, Len(l), f) /\ SeqOps!FlattenSeq(l) = f[Len(l)]
<1> DEFINE f == CHOOSE f : FlattenRun(l, Len(l), f)
<1>1. FlattenRun(l, Len(l), f)
    BY FlattenRunExists, LenProperties
<1>2. SeqOps!FlattenSeq(l) = f[Len(l)]
    BY DEF SeqOps!FlattenSeq, FlattenRun
<1> QED
    BY <1>1, <1>2

\* Of no pieces it is empty.
LEMMA FlattenEmpty == SeqOps!FlattenSeq(<<>>) = <<>>
BY DEF SeqOps!FlattenSeq

\* One more piece follows what there is.
LEMMA FlattenAppend ==
    ASSUME NEW S, NEW l \in Seq(Seq(S)), NEW s \in Seq(S)
    PROVE  SeqOps!FlattenSeq(Append(l, s)) = SeqOps!FlattenSeq(l) \o s
<1> DEFINE m == Append(l, s)
           n == Len(l)
<1>1. /\ n \in Nat /\ m \in Seq(Seq(S)) /\ Len(m) = n + 1 /\ m[n + 1] = s
      /\ \A i \in 1..n : m[i] = l[i]
    BY LenProperties, AppendProperties
<1>2. SeqOps!FlattenSeq(<<>>) = <<>>
    BY FlattenEmpty
<1>3. PICK g : FlattenRun(m, n + 1, g) /\ SeqOps!FlattenSeq(m) = g[n + 1]
    <2>1. n + 1 # 0
        BY <1>1
    <2> HIDE DEF m, n
    <2> QED
        BY <1>1, <2>1, FlattenIsRun
<1>4. CASE n = 0
    <2>1. l = <<>>
        BY <1>4, EmptySeq
    <2>2. g[1] = m[1]
        BY <1>3, <1>4 DEF FlattenRun
    <2>3. <<>> \o s = s
        BY ConcatEmptySeq
    <2>4. SeqOps!FlattenSeq(m) = s
        BY <1>1, <1>3, <1>4, <2>2
    <2> QED
        BY <1>2, <2>1, <2>3, <2>4
<1>5. CASE n # 0
    <2>1. PICK f : FlattenRun(l, n, f) /\ SeqOps!FlattenSeq(l) = f[n]
        BY <1>5, FlattenIsRun
    <2>2. f[n] = g[n]
        <3>1. n + 1 \in Nat /\ n <= n + 1 /\ n \in 1..n
            BY <1>1, <1>5
        <3> HIDE DEF m, n
        <3> QED
            BY <1>1, <1>3, <2>1, <3>1, FlattenRunsAgree
    <2>3. g[n + 1] = g[n] \o m[n + 1]
        <3>1. \A i \in 1..(n + 1) : g[i] = IF i = 1 THEN m[i] ELSE g[i - 1] \o m[i]
            <4> HIDE DEF m, n
            <4> QED
                BY <1>3 DEF FlattenRun
        <3>2. n + 1 \in 1..(n + 1) /\ n + 1 # 1 /\ (n + 1) - 1 = n
            BY <1>1, <1>5
        <3> HIDE DEF m, n
        <3> QED
            BY <3>1, <3>2
    <2> QED
        BY <1>1, <1>2, <1>3, <2>1, <2>2, <2>3
<1> QED
    BY <1>2, <1>4, <1>5

\* What is put together from a part for each element of a sequence.
Joined(h, s) == SeqOps!FlattenSeq([i \in DOMAIN s |-> h[s[i]]])

\* One more element adds its part.
LEMMA JoinedAppend ==
    ASSUME NEW S, NEW T, NEW h \in [S -> Seq(T)], NEW s \in Seq(S), NEW e \in S
    PROVE  Joined(h, Append(s, e)) = Joined(h, s) \o h[e]
<1> DEFINE r == Append(s, e)
           f == [i \in DOMAIN s |-> h[s[i]]]
           g == [i \in DOMAIN r |-> h[r[i]]]
           k == Len(s)
<1>1. /\ k \in Nat /\ DOMAIN s = 1..k /\ \A i \in 1..k : s[i] \in S
    BY LenProperties, ElementOfSeq
<1>2. /\ r \in Seq(S) /\ Len(r) = k + 1 /\ r[k + 1] = e
      /\ \A i \in 1..k : r[i] = s[i]
    BY AppendProperties
<1>3. DOMAIN r = 1..(k + 1) /\ \A i \in 1..(k + 1) : r[i] \in S
    <2> HIDE DEF r
    <2> QED
        BY <1>2, LenProperties, ElementOfSeq
<1>4. f \in [1..k -> Seq(T)] /\ g \in [1..(k + 1) -> Seq(T)]
    <2> HIDE DEF r, k
    <2> QED
        BY <1>1, <1>3
<1>5. f \in Seq(Seq(T)) /\ g \in Seq(Seq(T)) /\ Len(f) = k /\ Len(g) = k + 1
    <2>1. \A n \in Nat : \A x \in [1..n -> Seq(T)] : x \in Seq(Seq(T)) /\ Len(x) = n
        BY SeqDef, LenProperties
    <2> HIDE DEF f, g, k
    <2> QED
        BY <1>1, <1>4, <2>1
<1>6. /\ \A i \in 1..k : f[i] = h[s[i]]
      /\ \A i \in 1..(k + 1) : g[i] = h[r[i]]
    <2> HIDE DEF r, k
    <2> QED
        BY <1>1, <1>3
<1>7. h[e] \in Seq(T)
    OBVIOUS
<1>8. /\ Append(f, h[e]) \in Seq(Seq(T)) /\ Len(Append(f, h[e])) = k + 1
      /\ \A i \in 1..k : Append(f, h[e])[i] = f[i]
      /\ Append(f, h[e])[k + 1] = h[e]
    <2> HIDE DEF f
    <2> QED
        BY <1>5, <1>7, AppendProperties
<1>9. \A i \in 1..(k + 1) : g[i] = Append(f, h[e])[i]
    <2> HIDE DEF r, k, f, g
    <2> QED
        BY <1>1, <1>2, <1>6, <1>8
<1>10. g = Append(f, h[e])
    <2> HIDE DEF f, g
    <2> QED
        BY <1>5, <1>8, <1>9, SeqEqual
<1>11. SeqOps!FlattenSeq(Append(f, h[e])) = SeqOps!FlattenSeq(f) \o h[e]
    <2> HIDE DEF f
    <2> QED
        BY <1>5, <1>7, FlattenAppend
<1>12. Joined(h, s) = SeqOps!FlattenSeq(f) /\ Joined(h, r) = SeqOps!FlattenSeq(g)
    BY DEF Joined
<1> QED
    <2> HIDE DEF f, g
    <2> QED
        BY <1>10, <1>11, <1>12

\* Of no elements it is empty.
LEMMA JoinedEmpty == \A h : Joined(h, <<>>) = <<>>
<1>1. \A h : [i \in DOMAIN <<>> |-> h[<<>>[i]]] = <<>>
    OBVIOUS
<1> QED
    BY <1>1, FlattenEmpty DEF Joined

\* It is a sequence of what the parts are sequences of.
LEMMA JoinedShape ==
    ASSUME NEW S, NEW T, NEW h \in [S -> Seq(T)]
    PROVE  \A s \in Seq(S) : Joined(h, s) \in Seq(T)
<1> DEFINE M == {s \in Seq(S) : Joined(h, s) \in Seq(T)}
<1>1. <<>> \in M
    BY EmptySeq, JoinedEmpty
<1>2. ASSUME NEW s \in Seq(S), NEW e \in S, s \in M PROVE Append(s, e) \in M
    <2>1. Joined(h, Append(s, e)) = Joined(h, s) \o h[e]
        BY JoinedAppend
    <2>2. Joined(h, s) \o h[e] \in Seq(T)
        BY <1>2, ConcatProperties
    <2> QED
        BY <2>1, <2>2, AppendProperties
<1>3. Seq(S) \subseteq M
    <2> HIDE DEF M
    <2> QED
        BY <1>1, <1>2, SequenceInduction
<1> QED
    BY <1>3

\* What is typed for the characters of an argument.
LEMMA EscapedAppend ==
    /\ EscapedText(<<>>) = <<>>
    /\ \A text \in Seq(Lexemes) : EscapedText(text) \in Seq(Lexemes)
    /\ \A text \in Seq(Lexemes), c \in Lexemes :
          EscapedText(Append(text, c)) = EscapedText(text) \o Escaped(c)
<1> DEFINE h == [c \in Lexemes |-> Escaped(c)]
<1>1. \A c \in Lexemes : Escaped(c) \in Seq(Lexemes)
    <2>1. Backslash \in Lexemes
        BY DEF Lexemes
    <2>2. \A c \in Lexemes : <<c>> \in Seq(Lexemes) /\ <<Backslash, c>> \in Seq(Lexemes)
        BY <2>1
    <2> QED
        BY <2>2 DEF Escaped
<1>2. h \in [Lexemes -> Seq(Lexemes)] /\ \A c \in Lexemes : h[c] = Escaped(c)
    BY <1>1
<1>3. ASSUME NEW text \in Seq(Lexemes)
      PROVE  EscapedText(text) = Joined(h, text)
    <2>1. \A i \in DOMAIN text : h[text[i]] = Escaped(text[i])
        BY <1>2, LenProperties, ElementOfSeq
    <2> HIDE DEF h
    <2> QED
        BY <2>1 DEF EscapedText, Joined
<1> HIDE DEF h
<1>4. EscapedText(<<>>) = <<>>
    BY <1>3, EmptySeq, JoinedEmpty
<1>5. ASSUME NEW text \in Seq(Lexemes), NEW c \in Lexemes
      PROVE  /\ Joined(h, text) \in Seq(Lexemes)
             /\ Joined(h, Append(text, c)) = Joined(h, text) \o h[c]
    <2>1. h \in [Lexemes -> Seq(Lexemes)]
        BY <1>2
    <2>2. Joined(h, text) \in Seq(Lexemes)
        BY <2>1, JoinedShape
    <2>3. Joined(h, Append(text, c)) = Joined(h, text) \o h[c]
        BY <2>1, JoinedAppend
    <2> QED
        BY <2>2, <2>3
<1>6. "" \in Lexemes /\ \A text \in Seq(Lexemes), c \in Lexemes : Append(text, c) \in Seq(Lexemes)
    BY AppendProperties DEF Lexemes
<1> QED
    BY <1>2, <1>3, <1>4, <1>5, <1>6

\* And for an argument list.
LEMMA QuoteAppend ==
    /\ Quote(<<>>) = <<>>
    /\ \A text \in Seq(Lexemes) : Quoted(text) \in Seq(Lexemes)
    /\ \A args \in Seq(Seq(Lexemes)) : Quote(args) \in Seq(Lexemes)
    /\ \A args \in Seq(Seq(Lexemes)), text \in Seq(Lexemes) :
          Quote(Append(args, text)) = Quote(args) \o Quoted(text)
<1> DEFINE h == [text \in Seq(Lexemes) |-> Quoted(text)]
<1>1. \A text \in Seq(Lexemes) : Quoted(text) \in Seq(Lexemes)
    <2>1. <<"\"">> \in Seq(Lexemes) /\ <<"\"", " ">> \in Seq(Lexemes)
        BY DEF Lexemes, Whitespace, Quotes
    <2> QED
        BY <2>1, EscapedAppend, ConcatProperties DEF Quoted
<1>2. /\ h \in [Seq(Lexemes) -> Seq(Lexemes)]
      /\ \A text \in Seq(Lexemes) : h[text] = Quoted(text)
    BY <1>1
<1>3. ASSUME NEW args \in Seq(Seq(Lexemes))
      PROVE  Quote(args) = Joined(h, args)
    <2>1. \A i \in DOMAIN args : h[args[i]] = Quoted(args[i])
        BY <1>2, LenProperties, ElementOfSeq
    <2> HIDE DEF h
    <2> QED
        BY <2>1 DEF Quote, Joined
<1> HIDE DEF h
<1>4. Quote(<<>>) = <<>>
    BY <1>3, EmptySeq, JoinedEmpty
<1>5. ASSUME NEW args \in Seq(Seq(Lexemes)), NEW text \in Seq(Lexemes)
      PROVE  /\ Joined(h, args) \in Seq(Lexemes)
             /\ Joined(h, Append(args, text)) = Joined(h, args) \o h[text]
    <2>1. h \in [Seq(Lexemes) -> Seq(Lexemes)]
        BY <1>2
    <2>2. Joined(h, args) \in Seq(Lexemes)
        BY <2>1, JoinedShape
    <2>3. Joined(h, Append(args, text)) = Joined(h, args) \o h[text]
        BY <2>1, JoinedAppend
    <2> QED
        BY <2>2, <2>3
<1>6. /\ <<>> \in Seq(Lexemes)
      /\ \A args \in Seq(Seq(Lexemes)), text \in Seq(Lexemes) :
            Append(args, text) \in Seq(Seq(Lexemes))
    BY EmptySeq, AppendProperties
<1> QED
    BY <1>1, <1>2, <1>3, <1>4, <1>5, <1>6

\* From any state, a run over two pieces is a run over the first and then over
\* the second.
LEMMA ScanConcat ==
    ASSUME NEW start, NEW S, NEW a \in Seq(S), NEW z \in Seq(S)
    PROVE  ScanFrom(start, a \o z) = ScanFrom(ScanFrom(start, a), z)
<1> DEFINE middle == ScanFrom(start, a)
           M == {b \in Seq(S) : ScanFrom(start, a \o b) = ScanFrom(middle, b)}
<1>1. <<>> \in M
    <2>1. a \o <<>> = a /\ <<>> \in Seq(S)
        BY ConcatEmptySeq, EmptySeq
    <2>2. ScanFrom(middle, <<>>) = middle
        <3> HIDE DEF middle
        <3> QED
            BY ScanNothing
    <2> QED
        BY <2>1, <2>2
<1>2. ASSUME NEW b \in Seq(S), NEW c \in S, b \in M PROVE Append(b, c) \in M
    <2>1. a \o b \in Seq(S) /\ Append(b, c) \in Seq(S)
        BY ConcatProperties, AppendProperties
    <2>2. a \o Append(b, c) = Append(a \o b, c)
        <3>1. Append(b, c) = b \o <<c>> /\ Append(a \o b, c) = (a \o b) \o <<c>>
            BY <2>1, AppendIsConcat
        <3>2. <<c>> \in Seq(S)
            OBVIOUS
        <3> QED
            BY <3>1, <3>2, ConcatAssociative
    <2>3. ScanFrom(start, Append(a \o b, c)) = Scan(ScanFrom(start, a \o b), c)
        BY <2>1, ScanAppend
    <2>4. ScanFrom(middle, Append(b, c)) = Scan(ScanFrom(middle, b), c)
        <3> HIDE DEF middle
        <3> QED
            BY ScanAppend
    <2>5. ScanFrom(start, a \o b) = ScanFrom(middle, b)
        BY <1>2
    <2>6. ScanFrom(start, a \o Append(b, c)) = ScanFrom(middle, Append(b, c))
        <3> HIDE DEF middle
        <3> QED
            BY <2>2, <2>3, <2>4, <2>5
    <2> QED
        BY <2>1, <2>6
<1>3. Seq(S) \subseteq M
    <2> HIDE DEF M
    <2> QED
        BY <1>1, <1>2, SequenceInduction
<1> QED
    BY <1>3

\* A run over one character.
LEMMA ScanOne ==
    ASSUME NEW start, NEW c
    PROVE  ScanFrom(start, <<c>>) = Scan(start, c)
<1> DEFINE S == {c}
           none == <<>>
<1>1. none \in Seq(S) /\ c \in S /\ <<c>> = Append(none, c)
    OBVIOUS
<1>2. ScanFrom(start, none) = start
    BY ScanNothing
<1>3. ScanFrom(start, Append(none, c)) = Scan(ScanFrom(start, none), c)
    <2> HIDE DEF S, none
    <2> QED
        BY <1>1, ScanAppend
<1> QED
    BY <1>1, <1>2, <1>3

\* A run over two.
LEMMA ScanTwo ==
    ASSUME NEW start, NEW c, NEW d
    PROVE  ScanFrom(start, <<c, d>>) = Scan(Scan(start, c), d)
<1> DEFINE S == {c, d}
           one == <<c>>
<1>1. one \in Seq(S) /\ d \in S
    OBVIOUS
<1>2. <<c, d>> = Append(one, d)
    OBVIOUS
<1>3. ScanFrom(start, one) = Scan(start, c)
    BY ScanOne
<1>4. ScanFrom(start, Append(one, d)) = Scan(ScanFrom(start, one), d)
    <2> HIDE DEF S, one
    <2> QED
        BY <1>1, ScanAppend
<1> HIDE DEF one
<1> QED
    BY <1>2, <1>3, <1>4

\* The scanner between two arguments, and inside a quoted one.
Between(arguments) ==
    [arguments |-> arguments, current |-> <<>>, started |-> FALSE,
     quote |-> "", escape |-> FALSE]
Inside(arguments, text) ==
    [arguments |-> arguments, current |-> text, started |-> TRUE,
     quote |-> "\"", escape |-> FALSE]

\* An escaped character adds itself.
LEMMA ScanEscaped ==
    ASSUME NEW arguments, NEW text, NEW c
    PROVE  ScanFrom(Inside(arguments, text), Escaped(c))
              = Inside(arguments, Append(text, c))
<1> DEFINE s == Inside(arguments, text)
           next == Inside(arguments, Append(text, c))
<1>1. CASE c \in {"\"", Backslash}
    <2> DEFINE back == [s EXCEPT !.escape = TRUE]
    <2>1. Escaped(c) = <<Backslash, c>>
        BY <1>1 DEF Escaped
    <2>2. Scan(s, Backslash) = back
        BY DEF Scan, Inside, Backslash
    <2>3. Scan(back, c) = Take([back EXCEPT !.escape = FALSE], Unescape(c))
        BY DEF Scan, Inside
    <2>4. Unescape(c) = c
        BY <1>1 DEF Unescape, Backslash
    <2>5. ASSUME NEW r, r = Take([back EXCEPT !.escape = FALSE], c) PROVE r = next
        BY <2>5 DEF Take, Inside
    <2>6. ScanFrom(s, <<Backslash, c>>) = Scan(Scan(s, Backslash), c)
        <3> HIDE DEF s
        <3> QED
            BY ScanTwo
    <2> HIDE DEF s, next, back
    <2>7. Scan(back, c) = next
        BY <2>3, <2>4, <2>5
    <2> QED
        BY <2>1, <2>2, <2>6, <2>7 DEF s, next
<1>2. CASE c \notin {"\"", Backslash}
    <2>1. Escaped(c) = <<c>>
        BY <1>2 DEF Escaped
    <2>2. Scan(s, c) = Take(s, c)
        BY <1>2 DEF Scan, Inside
    <2>3. ASSUME NEW r, r = Take(s, c) PROVE r = next
        BY <2>3 DEF Take, Inside
    <2>4. ScanFrom(s, <<c>>) = Scan(s, c)
        <3> HIDE DEF s
        <3> QED
            BY ScanOne
    <2> HIDE DEF s, next
    <2> QED
        BY <2>1, <2>2, <2>3, <2>4 DEF s, next
<1> QED
    BY <1>1, <1>2

\* The text between the quotes is read as it was.
LEMMA ScanText ==
    ASSUME NEW arguments
    PROVE  \A text \in Seq(Lexemes) :
              ScanFrom(Inside(arguments, <<>>), EscapedText(text)) = Inside(arguments, text)
<1> DEFINE s == Inside(arguments, <<>>)
           M == {text \in Seq(Lexemes) :
                    ScanFrom(s, EscapedText(text)) = Inside(arguments, text)}
<1>0. "" \in Lexemes /\ <<>> \in Seq(Lexemes)
    BY EmptySeq DEF Lexemes
<1>1. <<>> \in M
    <2>1. ScanFrom(s, <<>>) = s
        BY ScanNothing
    <2> QED
        BY <1>0, <2>1, EscapedAppend
<1>2. ASSUME NEW text \in Seq(Lexemes), NEW c \in Lexemes, text \in M
      PROVE  Append(text, c) \in M
    <2>1. EscapedText(Append(text, c)) = EscapedText(text) \o Escaped(c)
        BY EscapedAppend
    <2>2. EscapedText(text) \in Seq(Lexemes) /\ Escaped(c) \in Seq(Lexemes)
        <3>1. Backslash \in Lexemes
            BY DEF Lexemes
        <3>2. <<c>> \in Seq(Lexemes) /\ <<Backslash, c>> \in Seq(Lexemes)
            BY <3>1
        <3> QED
            BY <3>2, EscapedAppend DEF Escaped
    <2> DEFINE before == EscapedText(text)
               last == Escaped(c)
               typed == EscapedText(Append(text, c))
    <2>3. ScanFrom(s, typed) = ScanFrom(ScanFrom(s, before), last)
        <3> HIDE DEF s, before, last, typed
        <3> QED
            BY <2>1, <2>2, ScanConcat DEF before, last, typed
    <2>4. ScanFrom(s, before) = Inside(arguments, text)
        BY <1>2
    <2>5. ScanFrom(Inside(arguments, text), last) = Inside(arguments, Append(text, c))
        <3> HIDE DEF last
        <3> QED
            BY ScanEscaped DEF last
    <2>6. ScanFrom(s, typed) = Inside(arguments, Append(text, c))
        <3> HIDE DEF s, before, last, typed
        <3> QED
            BY <2>3, <2>4, <2>5
    <2> QED
        BY <2>6, AppendProperties
<1>3. Seq(Lexemes) \subseteq M
    <2> HIDE DEF M
    <2> QED
        BY <1>1, <1>2, SequenceInduction
<1> QED
    BY <1>3

\* The end of a quoted argument: it is added to the list.
LEMMA EndInside ==
    ASSUME NEW arguments, NEW text, NEW s,
           s = EndArgument([Inside(arguments, text) EXCEPT !.quote = ""])
    PROVE  s = Between(Append(arguments, text))
BY DEF EndArgument, Inside, Between

\* A quoted argument ends up in the list, and the next one starts from nothing.
LEMMA ScanQuoted ==
    ASSUME NEW arguments, NEW text \in Seq(Lexemes)
    PROVE  ScanFrom(Between(arguments), Quoted(text)) = Between(Append(arguments, text))
<1> DEFINE open == <<"\"">>
           body == EscapedText(text)
           close == <<"\"", " ">>
           front == open \o body
           typed == front \o close
           s == Between(arguments)
           r == Inside(arguments, text)
<1>1. /\ open \in Seq(Lexemes) /\ body \in Seq(Lexemes) /\ close \in Seq(Lexemes)
      /\ front \in Seq(Lexemes)
    <2>1. open \in Seq(Lexemes) /\ close \in Seq(Lexemes)
        <3>1. "\"" \in Lexemes /\ " " \in Lexemes
            BY DEF Lexemes, Whitespace, Quotes
        <3>2. \A c, d \in Lexemes : <<c>> \in Seq(Lexemes) /\ <<c, d>> \in Seq(Lexemes)
            OBVIOUS
        <3> QED
            BY <3>1, <3>2
    <2>2. body \in Seq(Lexemes)
        BY EscapedAppend
    <2>3. front \in Seq(Lexemes)
        BY <2>1, <2>2, ConcatProperties
    <2> QED
        BY <2>1, <2>2, <2>3
<1>2. ScanFrom(s, typed) = ScanFrom(ScanFrom(s, front), close)
    <2>1. front \in Seq(Lexemes) /\ close \in Seq(Lexemes)
        BY <1>1
    <2> HIDE DEF s, front, close
    <2> QED
        BY <2>1, ScanConcat
<1>3. ScanFrom(s, front) = ScanFrom(ScanFrom(s, open), body)
    <2>1. open \in Seq(Lexemes) /\ body \in Seq(Lexemes)
        BY <1>1
    <2> HIDE DEF s, open, body
    <2> QED
        BY <2>1, ScanConcat
<1>4. ScanFrom(s, open) = Inside(arguments, <<>>)
    <2>1. Scan(s, "\"") = [s EXCEPT !.quote = "\"", !.started = TRUE]
        BY DEF Scan, Between, Quotes, Backslash
    <2>2. ASSUME NEW q, q = [s EXCEPT !.quote = "\"", !.started = TRUE]
          PROVE  q = Inside(arguments, <<>>)
        BY <2>2 DEF Between, Inside
    <2>3. ScanFrom(s, open) = Scan(s, "\"")
        <3> HIDE DEF s
        <3> QED
            BY ScanOne
    <2> QED
        <3> HIDE DEF s, open
        <3> QED
            BY <2>1, <2>2, <2>3
<1>5. ScanFrom(Inside(arguments, <<>>), body) = r
    BY ScanText
<1>6. ScanFrom(r, close) = Between(Append(arguments, text))
    <2> DEFINE closed == [r EXCEPT !.quote = ""]
               ended == EndArgument(closed)
    <2>1. Scan(r, "\"") = closed
        BY DEF Scan, Inside, Backslash
    <2>2. Scan(closed, " ") = ended
        BY DEF Scan, Inside, Backslash, Quotes, Whitespace
    <2>3. ended = Between(Append(arguments, text))
        <3>1. ended = EndArgument([r EXCEPT !.quote = ""])
            OBVIOUS
        <3> HIDE DEF ended
        <3> QED
            BY <3>1, EndInside
    <2>4. ScanFrom(r, close) = Scan(Scan(r, "\""), " ")
        <3> DEFINE c == "\""
                   d == " "
        <3>1. close = <<c, d>>
            OBVIOUS
        <3> HIDE DEF r, c, d
        <3>2. ScanFrom(r, <<c, d>>) = Scan(Scan(r, c), d)
            BY ScanTwo
        <3> QED
            BY <3>1, <3>2 DEF c, d
    <2> HIDE DEF r, close, closed, ended
    <2> QED
        BY <2>1, <2>2, <2>3, <2>4
<1>7. Quoted(text) = typed
    BY DEF Quoted
<1> HIDE DEF open, body, close, front, typed, s, r
<1>8. ScanFrom(s, typed) = Between(Append(arguments, text))
    BY <1>2, <1>3, <1>4, <1>5, <1>6
<1> QED
    BY <1>7, <1>8 DEF s

\* parse: what is typed for an argument list is read as that list.
THEOREM QuoteRoundTrip ==
    \A arguments \in Seq(Seq(Lexemes)) : Parse(Quote(arguments)) = arguments
<1> DEFINE M == {arguments \in Seq(Seq(Lexemes)) :
                    ScanFrom(ScanStart, Quote(arguments)) = Between(arguments)}
<1>0. "" \in Lexemes /\ <<>> \in Seq(Lexemes) /\ <<>> \in Seq(Seq(Lexemes))
    BY EmptySeq DEF Lexemes
<1>1. <<>> \in M
    <2>1. ScanFrom(ScanStart, <<>>) = ScanStart
        BY ScanNothing
    <2>2. ScanStart = Between(<<>>)
        BY DEF ScanStart, Between
    <2> QED
        BY <1>0, <2>1, <2>2, QuoteAppend
<1>2. ASSUME NEW arguments \in Seq(Seq(Lexemes)), NEW text \in Seq(Lexemes),
             arguments \in M
      PROVE  Append(arguments, text) \in M
    <2>1. Quote(Append(arguments, text)) = Quote(arguments) \o Quoted(text)
        BY QuoteAppend
    <2>2. Quote(arguments) \in Seq(Lexemes) /\ Quoted(text) \in Seq(Lexemes)
        BY QuoteAppend
    <2> DEFINE before == Quote(arguments)
               last == Quoted(text)
               typed == Quote(Append(arguments, text))
    <2>3. ScanFrom(ScanStart, typed) = ScanFrom(ScanFrom(ScanStart, before), last)
        <3> HIDE DEF before, last, typed
        <3> QED
            BY <2>1, <2>2, ScanConcat DEF before, last, typed
    <2>4. ScanFrom(ScanStart, before) = Between(arguments)
        BY <1>2
    <2>5. ScanFrom(Between(arguments), last) = Between(Append(arguments, text))
        BY ScanQuoted
    <2>6. ScanFrom(ScanStart, typed) = Between(Append(arguments, text))
        <3> HIDE DEF before, last, typed
        <3> QED
            BY <2>3, <2>4, <2>5
    <2> QED
        BY <2>6, AppendProperties
<1>3. Seq(Seq(Lexemes)) \subseteq M
    <2> HIDE DEF M
    <2> QED
        BY <1>1, <1>2, SequenceInduction
<1>4. ASSUME NEW arguments \in Seq(Seq(Lexemes))
      PROVE  Parse(Quote(arguments)) = arguments
    <2>1. Scanned(Quote(arguments)) = Between(arguments)
        BY <1>3 DEF Scanned
    <2>2. EndArgument(Between(arguments)).arguments = arguments
        BY DEF EndArgument, Between
    <2> QED
        BY <2>1, <2>2 DEF Parse
<1> QED
    BY <1>4

-----------------------------------------------------------------------------
(* The line of a request *)

\* The line is empty but for a request of execute, and only an admitted one is
\* sent.
LineInv ==
    /\ line \in Lines \cup {<<>>}
    /\ phase = "idle" \/ route # "execute" => line = <<>>
    /\ phase = "exchange" /\ line # <<>> => Admitted(line)

\* execute: the line is checked before it is sent, and forgotten once it is.
LEMMA LineInvHolds == HttpCommandsSpec => []LineInv
<1>1. HttpCommandsInit => LineInv
    BY DEF HttpCommandsInit, LineInv
<1>2. LineInv /\ [HttpCommandsNext]_requestVars => LineInv'
    <2> SUFFICES ASSUME LineInv, [HttpCommandsNext]_requestVars PROVE LineInv'
        OBVIOUS
    <2>1. CASE ReceiveRequest
        BY <2>1 DEF ReceiveRequest, LineInv
    <2>2. CASE RefuseLine \/ RefuseEmptyKey \/ RespondBusy
        BY <2>2 DEF RefuseLine, RefuseEmptyKey, RespondBusy, RespondQuoting, Respond, LineInv
    <2>3. CASE SendCommand
        BY <2>3 DEF SendCommand, LineInv
    <2>4. CASE AwaitReply \/ FinishResponse
        BY <2>4 DEF AwaitReply, FinishResponse, LineInv
    <2>5. CASE ReadReply \/ DetailGoesOn \/ UNCHANGED requestVars
        BY <2>5 DEF ReadReply, DetailGoesOn, requestVars, handlerVars, LineInv
    <2>6. CASE ExecuteAnswers \/ HealthAnswers \/ DetailAnswers
        BY <2>6 DEF ExecuteAnswers, HealthAnswers, DetailAnswers, RespondValue,
               RespondQuoting, Respond, LineInv
    <2>7. CASE BeginDetail
        BY <2>7 DEF BeginDetail, LineInv
    <2> QED
        BY <2>1, <2>2, <2>3, <2>4, <2>5, <2>6, <2>7 DEF HttpCommandsNext
<1> QED
    BY <1>1, <1>2, PTL DEF HttpCommandsSpec

\* execute: a line is made of characters.
LEMMA LineCharacters == LineInv => line \in Seq(Lexemes)
<1> SUFFICES ASSUME LineInv PROVE line \in Seq(Lexemes)
    OBVIOUS
<1>1. line \in Seq(STRING)
    BY ResponseAssumption, EmptySeq DEF ResponseAssumption, LineInv
<1> QED
    BY <1>1, SeqMonotonic DEF Lexemes

\* parse: for every line, quoting the arguments it was split into and parsing
\* that again gives the same arguments.
THEOREM Quotable == HttpCommandsSpec => []ArgumentsQuotable
<1>1. LineInv => ArgumentsQuotable
    BY LineCharacters, ParseShape, QuoteRoundTrip DEF ArgumentsQuotable
<1> QED
    BY <1>1, LineInvHolds, PTL

\* execute: the policy decides on the words that reach the child.
LEMMA AdmittedDemand ==
    ASSUME NEW l \in Seq(Lexemes), Admitted(l), CommandName(l) \in Windowed,
           ~KeyTakenForClause(l), NEW n \in Nat
    PROVE  Demand(CommandName(l), CommandArgs(l), n) <= DemandLimit(CommandName(l))
<1> DEFINE k == Len(Parse(l))
           words == [i \in DOMAIN Argv(l) |-> Normalize(Argv(l)[i])]
           W == {words[i] : i \in 1..k}
<1>1. DOMAIN Parse(l) = 1..k /\ k \in Nat \ {0}
    <2>1. DOMAIN Parse(l) = 1..k /\ k \in Nat
        BY ParseShape, LenProperties
    <2>2. k \in 1..MAX_ARGUMENTS
        BY DEF Admitted, Parses
    <2> QED
        BY <2>1, <2>2, LineAssumption DEF LineAssumption
<1>2. DOMAIN Argv(l) = 1..k /\ DOMAIN words = 1..k
    BY <1>1 DEF Argv
<1>3. words \in [1..k -> W]
    <2>1. words = [i \in 1..k |-> words[i]]
        BY <1>2
    <2> HIDE DEF words
    <2> QED
        BY <2>1
<1>4. words \in Seq(W) /\ Len(words) = k
    <2> HIDE DEF words, W
    <2>1. words \in Seq(W)
        BY <1>1, <1>3, SeqDef
    <2> QED
        BY <1>1, <1>3, <2>1, LenProperties
<1>5. Len(Argv(l)) = k
    <2> DEFINE T == {Argv(l)[i] : i \in 1..k}
    <2>1. Argv(l) \in [1..k -> T]
        BY <1>1 DEF Argv
    <2> HIDE DEF T
    <2>2. Argv(l) \in Seq(T)
        BY <1>1, <2>1, SeqDef
    <2> QED
        BY <1>1, <2>1, <2>2, LenProperties
<1>6. CommandName(l) = words[1]
    BY <1>1, <1>2 DEF CommandName
<1>7. CASE words[1] = "COMMAND"
    <2>1. CommandName(l) \notin Windowed
        BY <1>6, <1>7 DEF Windowed, IndexRanges, StringRanges, BoundRanges, StreamRanges,
               Pops, RandomReads
    <2> QED
        BY <2>1
<1>8. CASE words[1] # "COMMAND"
    <2> DEFINE args == SubSeq(words, 2, k)
    <2>1. NameOf(words) = CommandName(l) /\ ArgumentsOf(words) = args
        BY <1>4, <1>6, <1>8 DEF NameOf, ArgumentsOf, From
    <2>2. \/ ArityAllows(CommandName(l), Len(args))
          \/ ArgumentsAllow(CommandName(l), args)
        BY <2>1 DEF Admitted, Allowed
    <2>3. \A i \in 2..k : words[i] \in W
        OBVIOUS
    <2>4. /\ args \in Seq(W) /\ Len(args) = k - 1
          /\ \A i \in 1..(k - 1) : args[i] = words[i + 1]
        <3> HIDE DEF words, W
        <3> QED
            BY <1>1, <2>3, SubSeqProperties
    <2>5. CommandArgs(l) = [i \in 1..(k - 1) |-> words[i + 1]]
        BY <1>1, <1>2, <1>5 DEF CommandArgs
    <2>6. args = CommandArgs(l)
        <3>1. args = [i \in 1..(k - 1) |-> args[i]]
            <4> HIDE DEF args
            <4> QED
                BY <2>4, LenProperties
        <3> HIDE DEF args, words
        <3> QED
            BY <2>4, <2>5, <3>1
    <2>7. ~(CommandName(l) \in BoundRanges /\ args[1] = "LIMIT")
        BY <2>6 DEF KeyTakenForClause
    <2>8. Demand(CommandName(l), args, n) <= DemandLimit(CommandName(l))
        <3> HIDE DEF args, words
        <3> QED
            BY <2>2, <2>4, <2>7, PolicyBoundsDemand
    <2> QED
        BY <2>6, <2>8
<1> QED
    BY <1>7, <1>8

\* execute: for every line, vocabulary, limit and collection, a windowed command
\* that is sent asks for at most one page, unless its key is named LIMIT.
THEOREM DemandBounded == HttpCommandsSpec => []WindowedDemandBounded
<1>1. LineInv => WindowedDemandBounded
    <2> SUFFICES ASSUME LineInv, phase = "exchange", line # <<>>,
                        CommandName(line) \in Windowed, ~KeyTakenForClause(line), NEW n \in Lengths
                 PROVE  Demand(CommandName(line), CommandArgs(line), n)
                            <= DemandLimit(CommandName(line))
        BY DEF WindowedDemandBounded
    <2>1. n \in Nat
        BY DEF Lengths
    <2>2. line \in Seq(Lexemes)
        BY LineCharacters
    <2> QED
        BY <2>1, <2>2, AdmittedDemand DEF LineInv
<1> QED
    BY <1>1, LineInvHolds, PTL

-----------------------------------------------------------------------------
(* The reply decoder *)

Loops == [left : Nat, of : Values]

\* What the loops of a stack have still to read.
Lefts(s) == [i \in DOMAIN s |-> s[i].left]
Due(s) == Cardinality(Slots(DOMAIN s, Lefts(s)))

\* Where the decoder stands: the sender and the loops agree on what is due while
\* a reply is read, values and slots are within the elements charged, and the
\* recursion, which checks its depth before it charges anything, is one level
\* deeper than the limit at most.
DecoderInv ==
    /\ decoding \in {"idle", "value", "line", "payload", "done", "failed"}
    /\ decoding = "line" => incoming \in Values /\ Len(stack) <= MAX_RESP_DEPTH
    /\ stack \in Seq(Loops)
    /\ used \in [bytes : Nat, nodes : Nat, elements : Nat]
    /\ payload \in Nat
    /\ owed \in Int
    /\ decoding \in {"value", "line", "payload"} =>
          phase = "exchange" /\ route # "detail" /\ owed = Awaited
    /\ decoding \in {"idle", "done"} => owed = 0
    /\ decoding \in {"idle", "done", "failed"} => stack = <<>>
    /\ decoding = "idle" => used.nodes = 0
    /\ decoding # "payload" => payload = 0
    /\ used.nodes + Awaited <= 1 + used.elements
    /\ used.elements <= MAX_RESPONSE_ELEMENTS
    /\ used.nodes <= MAX_RESPONSE_NODES
    /\ payload <= used.bytes
    /\ used.bytes <= MAX_RESPONSE_BYTES
    /\ Len(stack) <= MAX_RESP_DEPTH + 1

\* What is awaited, in terms of the stack.
LEMMA AwaitedIsDue ==
    /\ Awaited = (IF decoding = "value" THEN 1 ELSE 0) + Due(stack)
    /\ Awaited' = (IF decoding' = "value" THEN 1 ELSE 0) + Due(stack')
<1>1. ASSUME NEW s
      PROVE  UNION {{i} \X (1..s[i].left) : i \in DOMAIN s} = Slots(DOMAIN s, Lefts(s))
    BY DEF Slots, Lefts
<1> QED
    BY <1>1 DEF Awaited, Due

\* The shape of a stack.
LEMMA LoopsShape ==
    ASSUME NEW s \in Seq(Loops)
    PROVE  /\ Len(s) \in Nat /\ DOMAIN s = 1..Len(s) /\ IsFiniteSet(DOMAIN s)
           /\ \A i \in DOMAIN s : s[i] \in Loops /\ s[i].left \in Nat
           /\ \A i \in DOMAIN s : Lefts(s)[i] = s[i].left
<1>1. Len(s) \in Nat /\ DOMAIN s = 1..Len(s)
    BY LenProperties
<1>2. IsFiniteSet(DOMAIN s)
    BY <1>1, FS_Interval
<1>3. ASSUME NEW i \in DOMAIN s PROVE s[i] \in Loops
    BY <1>1, ElementOfSeq
<1>4. \A loop \in Loops : loop.left \in Nat
    BY DEF Loops
<1> QED
    BY <1>1, <1>2, <1>3, <1>4 DEF Lefts

\* A stack owes a natural number of values, an empty one none.
LEMMA DueType ==
    /\ \A s \in Seq(Loops) : Due(s) \in Nat
    /\ Due(<<>>) = 0
<1>1. ASSUME NEW s \in Seq(Loops) PROVE Due(s) \in Nat
    BY LoopsShape, SlotsFinite DEF Due
<1>2. Slots(DOMAIN <<>>, Lefts(<<>>)) = {}
    BY DEF Slots
<1> QED
    BY <1>1, <1>2, FS_EmptySet DEF Due

\* A new loop adds what it has to read.
LEMMA DueAppend ==
    ASSUME NEW s \in Seq(Loops), NEW loop \in Loops
    PROVE  /\ Append(s, loop) \in Seq(Loops)
           /\ Len(Append(s, loop)) = Len(s) + 1
           /\ Due(Append(s, loop)) = Due(s) + loop.left
<1> DEFINE t == Append(s, loop)
           n == Len(s) + 1
           f == Lefts(t)
<1>1. /\ t \in Seq(Loops) /\ Len(t) = n /\ t[n] = loop
      /\ \A i \in 1..Len(s) : t[i] = s[i]
    BY AppendProperties
<1>2. DOMAIN s = 1..Len(s) /\ Len(s) \in Nat /\ DOMAIN t = 1..n
    BY <1>1, LenProperties
<1>3. n \in DOMAIN t /\ DOMAIN t \ {n} = DOMAIN s
    BY <1>2
<1>4. \A i \in DOMAIN t : f[i] \in Nat
    <2> HIDE DEF t
    <2> QED
        BY <1>1, LoopsShape
<1>5. f[n] = loop.left
    BY <1>1, <1>3 DEF Lefts
<1>6. \A i \in DOMAIN s : f[i] = Lefts(s)[i]
    BY <1>1, <1>2, <1>3 DEF Lefts
<1>7. Slots(DOMAIN t \ {n}, f) = Slots(DOMAIN s, Lefts(s))
    BY <1>3, <1>6 DEF Slots
<1>8. IsFiniteSet(DOMAIN t)
    BY <1>2, FS_Interval
<1>9. Cardinality(Slots(DOMAIN t, f)) = f[n] + Cardinality(Slots(DOMAIN t \ {n}, f))
    <2> HIDE DEF t, n, f
    <2> QED
        BY <1>3, <1>4, <1>8, SlotsSplit
<1>10. Due(s) \in Nat /\ loop.left \in Nat
    BY DueType DEF Loops
<1> QED
    BY <1>1, <1>5, <1>7, <1>9, <1>10 DEF Due

\* read_value_budgeted: returning from a value moves one of the values that the
\* loops wait for to the decoder, and loses none.
LEMMA ProceedAwaits ==
    ASSUME NEW s \in Seq(Loops), Proceed(s)
    PROVE  /\ decoding' \in {"value", "done"}
           /\ stack' \in Seq(Loops) /\ Len(stack') <= Len(s)
           /\ Awaited' = Due(s)
           /\ decoding' = "done" => stack' = <<>> /\ Due(s) = 0
<1>0. /\ DOMAIN s = 1..Len(s) /\ Len(s) \in Nat
      /\ \A i \in DOMAIN s : s[i] \in Loops /\ s[i].left \in Nat
      /\ \A i \in DOMAIN s : Lefts(s)[i] = s[i].left
    BY LoopsShape
<1>1. CASE (\A i \in DOMAIN s : s[i].left = 0) /\ decoding' = "done" /\ stack' = <<>>
    <2>1. Slots(DOMAIN s, Lefts(s)) = {}
        BY <1>1 DEF Slots, Lefts
    <2>2. Due(s) = 0 /\ Due(stack') = 0
        BY <1>1, <2>1, DueType, FS_EmptySet DEF Due
    <2>3. Awaited' = Due(stack')
        BY <1>1, <2>2, AwaitedIsDue
    <2>4. stack' \in Seq(Loops) /\ Len(stack') = 0
        BY <1>1, EmptySeq
    <2> QED
        BY <1>0, <1>1, <2>2, <2>3, <2>4
<1>2. ASSUME NEW last \in DOMAIN s,
             s[last].left > 0, \A i \in (last + 1)..Len(s) : s[i].left = 0,
             decoding' = "value",
             stack' = [SubSeq(s, 1, last) EXCEPT ![last].left = @ - 1]
      PROVE  /\ stack' \in Seq(Loops) /\ Len(stack') <= Len(s)
             /\ Awaited' = Due(s)
    <2> DEFINE r == SubSeq(s, 1, last)
               f == Lefts(s)
               g == Lefts(stack')
    <2>1. last \in 1..Len(s) /\ last \in Nat
        BY <1>0
    <2>2. \A i \in 1..last : s[i] \in Loops
        BY <1>0, <2>1
    <2>3. r \in Seq(Loops) /\ Len(r) = last /\ \A i \in 1..last : r[i] = s[i]
        BY <2>1, <2>2, SubSeqProperties
    <2>4. s[last] \in Loops /\ s[last].left \in Nat /\ s[last].left - 1 \in Nat
        BY <1>2, <2>2, <2>1 DEF Loops
    <2> DEFINE e == [s[last] EXCEPT !.left = s[last].left - 1]
    <2>5. e \in Loops /\ e.left = s[last].left - 1
        <3>1. \A loop \in Loops, n \in Nat :
                 [loop EXCEPT !.left = n] \in Loops /\ [loop EXCEPT !.left = n].left = n
            BY DEF Loops
        <3> QED
            BY <2>4, <3>1
    <2>6. stack' = [r EXCEPT ![last] = e]
        <3>1. r[last] = s[last]
            BY <2>1, <2>3
        <3>2. stack' = [r EXCEPT ![last] = [r[last] EXCEPT !.left = r[last].left - 1]]
            BY <1>2
        <3> HIDE DEF r
        <3> QED
            BY <3>1, <3>2
    <2>7. /\ stack' \in Seq(Loops) /\ Len(stack') = last
          /\ \A j \in 1..last : stack'[j] = IF j = last THEN e ELSE s[j]
        <3> HIDE DEF r, e
        <3> QED
            BY <2>1, <2>3, <2>5, <2>6, ExceptSeq
    <2>8. DOMAIN stack' = 1..last
        BY <2>7, LenProperties
    <2>9. /\ \A i \in 1..last : f[i] \in Nat
          /\ \A i \in 1..last : g[i] \in Nat
          /\ \A i \in (1..last) \ {last} : g[i] = f[i]
          /\ g[last] = f[last] - 1
        <3>1. \A i \in 1..last : f[i] = s[i].left /\ g[i] = stack'[i].left
            BY <1>0, <2>1, <2>8 DEF Lefts
        <3>2. \A i \in 1..last : s[i].left \in Nat
            BY <2>2 DEF Loops
        <3>3. last \in 1..last /\ stack'[last] = e
            BY <2>1, <2>7
        <3>4. \A i \in (1..last) \ {last} : stack'[i] = s[i]
            BY <2>7
        <3> HIDE DEF f, g, e
        <3>5. f[last] = s[last].left /\ g[last] = e.left
            BY <3>1, <3>3
        <3> QED
            BY <2>4, <2>5, <3>1, <3>2, <3>3, <3>4, <3>5
    <2>10. Slots(DOMAIN s, f) = Slots(1..last, f)
        <3>1. \A i \in DOMAIN s \ (1..last) : f[i] = 0
            BY <1>0, <1>2, <2>1 DEF Lefts
        <3>2. 1..last \subseteq DOMAIN s
            BY <1>0, <2>1
        <3> HIDE DEF f
        <3> QED
            BY <3>1, <3>2 DEF Slots
    <2>11. IsFiniteSet(1..last) /\ last \in 1..last
        BY <2>1, FS_Interval
    <2>12. Cardinality(Slots(1..last, g)) - g[last]
              = Cardinality(Slots(1..last, f)) - f[last]
        <3> DEFINE D == 1..last
        <3>1. /\ \A i \in D : f[i] \in Nat
              /\ \A i \in D : g[i] \in Nat
              /\ \A i \in D \ {last} : g[i] = f[i]
              /\ IsFiniteSet(D) /\ last \in D
            BY <2>9, <2>11
        <3> HIDE DEF f, g, D
        <3>2. Cardinality(Slots(D, g)) - g[last] = Cardinality(Slots(D, f)) - f[last]
            BY <3>1, SlotsChange
        <3> QED
            BY <3>2 DEF D
    <2>13. Cardinality(Slots(1..last, g)) \in Nat /\ Cardinality(Slots(1..last, f)) \in Nat
        <3> HIDE DEF f, g
        <3> QED
            BY <2>9, <2>11, SlotsFinite
    <2>14. f[last] \in Nat /\ g[last] \in Nat
        BY <2>9, <2>11
    <2>15. Due(s) = 1 + Due(stack')
        <3>1. Due(s) = Cardinality(Slots(1..last, f))
            BY <2>10 DEF Due
        <3>2. Due(stack') = Cardinality(Slots(1..last, g))
            BY <2>8 DEF Due
        <3> HIDE DEF f, g
        <3>3. g[last] = f[last] - 1
            BY <2>9
        <3> QED
            BY <2>12, <2>13, <2>14, <3>1, <3>2, <3>3
    <2>16. Awaited' = 1 + Due(stack')
        BY <1>2, AwaitedIsDue
    <2> QED
        BY <1>0, <2>1, <2>7, <2>15, <2>16
<1> QED
    BY <1>1, <1>2 DEF Proceed

\* read_value_budgeted: what a first line announces is what the budget reserves
\* and the loop of the aggregate reads; what is charged is never negative.
LEMMA LineShape ==
    ASSUME NEW v \in Values, LengthValid(v)
    PROVE  /\ Reserved(v) \in Nat /\ ToRead(v) = Reserved(v) /\ Announced(v) = Reserved(v)
           /\ LineLength(v) \in Nat /\ PayloadLength(v) \in Nat
           /\ PayloadLength(v) > 0 => Reserved(v) = 0
<1>1. /\ v.size \in Int
      /\ v.kind \in LineKinds \cup BlobKinds \cup AggregateKinds
      /\ v.kind \in LineKinds => v.size \in Nat
    BY DecoderAssumption DEF DecoderAssumption
<1>2. IsNull(v) \/ v.size \in Nat
    BY <1>1, DecoderAssumption DEF DecoderAssumption, LengthValid
<1>3. Reserved(v) \in Nat /\ ToRead(v) = Reserved(v)
    BY <1>1, <1>2 DEF Reserved, ToRead
<1>4. Announced(v) = Reserved(v)
    BY <1>1, <1>2 DEF Announced, Reserved, IsNull, AggregateKinds
<1>5. LineLength(v) \in Nat /\ PayloadLength(v) \in Nat
    BY <1>1, <1>2 DEF LineLength, PayloadLength, LineKinds
<1>6. PayloadLength(v) > 0 => Reserved(v) = 0
    BY DEF PayloadLength, Reserved, BlobKinds, AggregateKinds
<1> QED
    BY <1>3, <1>4, <1>5, <1>6

\* A first line is read: the node was charged, the value that was awaited came.
LEMMA LineKeepsDecoderInv ==
    ASSUME DecoderInv, phase = "exchange", UNCHANGED handlerVars,
           NEW v \in Values, ReadLine(v)
    PROVE  DecoderInv'
<1>1. /\ decoding = "value" /\ owed \in Int /\ owed = Awaited
      /\ stack \in Seq(Loops) /\ Due(stack) \in Nat
      /\ phase' = "exchange" /\ route' = route /\ route # "detail"
    BY DueType DEF DecoderInv, ReadLine, handlerVars
<1>2. /\ decoding' = "line" /\ incoming' = v /\ owed' = owed - 1
      /\ stack' = stack /\ payload' = payload
      /\ Len(stack) <= MAX_RESP_DEPTH
    BY DEF ReadLine
<1>3. Awaited = 1 + Due(stack) /\ Awaited' = Due(stack)
    BY <1>1, <1>2, AwaitedIsDue
<1>4. /\ used' \in [bytes : Nat, nodes : Nat, elements : Nat]
      /\ used'.bytes = used.bytes /\ used'.elements = used.elements
      /\ used'.nodes = used.nodes + 1 /\ used'.nodes <= MAX_RESPONSE_NODES
    <2>1. /\ used \in [bytes : Nat, nodes : Nat, elements : Nat]
          /\ used.nodes < MAX_RESPONSE_NODES /\ MAX_RESPONSE_NODES \in Nat
          /\ used' = [used EXCEPT !.nodes = used.nodes + 1]
        BY DecoderAssumption DEF DecoderInv, ReadLine, DecoderAssumption
    <2> QED
        BY <2>1
<1>5. used'.nodes + Awaited' <= 1 + used'.elements
    BY <1>1, <1>3, <1>4 DEF DecoderInv
<1>6. payload' = 0 /\ Len(stack') <= MAX_RESP_DEPTH + 1
    BY <1>1, <1>2, LenProperties, DecoderAssumption DEF DecoderInv, DecoderAssumption
<1>7. owed' \in Int /\ owed' = Awaited'
    BY <1>1, <1>2, <1>3
<1> QED
    BY <1>1, <1>2, <1>4, <1>5, <1>6, <1>7 DEF DecoderInv

\* It is charged: what is charged, reserved, announced and read goes together.
LEMMA ChargeKeepsDecoderInv ==
    ASSUME DecoderInv, phase = "exchange", UNCHANGED handlerVars, ChargeLine
    PROVE  DecoderInv'
<1> DEFINE v == incoming
           loop == [left |-> ToRead(v), of |-> v]
<1>1. /\ decoding = "line" /\ v \in Values /\ LengthValid(v) /\ Affordable(v)
      /\ used' = Spent(v) /\ payload' = PayloadLength(v)
      /\ owed' = owed + Announced(v)
      /\ Len(stack) <= MAX_RESP_DEPTH /\ stack \in Seq(Loops)
      /\ owed \in Int /\ owed = Awaited
      /\ phase' = "exchange" /\ route' = route /\ route # "detail"
    BY DEF DecoderInv, ChargeLine, handlerVars
<1>2. IF payload' > 0 THEN decoding' = "payload" /\ UNCHANGED stack
                      ELSE Proceed(Append(stack, loop))
    BY DEF ChargeLine
<1> HIDE DEF v
<1>3. Len(stack) \in Nat /\ Due(stack) \in Nat /\ Awaited = Due(stack)
    BY <1>1, AwaitedIsDue, DueType, LenProperties
<1>4. /\ Reserved(v) \in Nat /\ ToRead(v) = Reserved(v) /\ Announced(v) = Reserved(v)
      /\ LineLength(v) \in Nat /\ PayloadLength(v) \in Nat
      /\ PayloadLength(v) > 0 => Reserved(v) = 0
    BY <1>1, LineShape
<1>5. loop \in Loops /\ loop.left = Reserved(v)
    BY <1>1, <1>4 DEF Loops
<1>6. /\ decoding' \in {"value", "payload", "done"}
      /\ stack' \in Seq(Loops) /\ Len(stack') <= MAX_RESP_DEPTH + 1
      /\ Awaited' = Due(stack) + Reserved(v)
      /\ decoding' = "done" => stack' = <<>> /\ Due(stack) + Reserved(v) = 0
      /\ decoding' # "payload" => payload' = 0
    <2>1. CASE payload' > 0
        BY <1>1, <1>2, <1>3, <1>4, <2>1, AwaitedIsDue, DecoderAssumption
        DEF DecoderAssumption
    <2>2. CASE ~(payload' > 0)
        <3>1. /\ Append(stack, loop) \in Seq(Loops)
              /\ Len(Append(stack, loop)) = Len(stack) + 1
              /\ Due(Append(stack, loop)) = Due(stack) + Reserved(v)
            BY <1>1, <1>5, DueAppend
        <3>2. Proceed(Append(stack, loop)) /\ payload' = 0
            BY <1>1, <1>2, <1>4, <2>2
        <3> HIDE DEF loop
        <3>3. /\ decoding' \in {"value", "done"}
              /\ stack' \in Seq(Loops) /\ Len(stack') <= Len(Append(stack, loop))
              /\ Awaited' = Due(Append(stack, loop))
              /\ decoding' = "done" => stack' = <<>> /\ Due(Append(stack, loop)) = 0
            BY <3>1, <3>2, ProceedAwaits
        <3>4. Len(stack') \in Nat /\ MAX_RESP_DEPTH \in Nat
            BY <3>3, LenProperties, DecoderAssumption DEF DecoderAssumption
        <3> QED
            BY <1>1, <1>3, <3>1, <3>2, <3>3, <3>4
    <2> QED
        BY <2>1, <2>2
<1>7. /\ used \in [bytes : Nat, nodes : Nat, elements : Nat]
      /\ used.nodes + Awaited <= 1 + used.elements
      /\ used.nodes <= MAX_RESPONSE_NODES
    BY DEF DecoderInv
<1>8. /\ used' \in [bytes : Nat, nodes : Nat, elements : Nat]
      /\ used'.bytes = used.bytes + LineLength(v) + PayloadLength(v)
      /\ used'.nodes = used.nodes
      /\ used'.elements = used.elements + Reserved(v)
      /\ used'.elements <= MAX_RESPONSE_ELEMENTS
      /\ used'.bytes <= MAX_RESPONSE_BYTES
    <2>1. used' = [used EXCEPT !.bytes = used.bytes + LineLength(v) + PayloadLength(v),
                               !.elements = used.elements + Reserved(v)]
        BY <1>1 DEF Spent
    <2>2. used'.elements <= MAX_RESPONSE_ELEMENTS /\ used'.bytes <= MAX_RESPONSE_BYTES
        BY <1>1 DEF Affordable
    <2>3. ASSUME NEW b \in Nat, NEW e \in Nat,
                 used' = [used EXCEPT !.bytes = b, !.elements = e]
          PROVE  /\ used' \in [bytes : Nat, nodes : Nat, elements : Nat]
                 /\ used'.bytes = b /\ used'.nodes = used.nodes /\ used'.elements = e
        BY <1>7, <2>3
    <2>4. /\ used.bytes + LineLength(v) + PayloadLength(v) \in Nat
          /\ used.elements + Reserved(v) \in Nat
        BY <1>4, <1>7
    <2> QED
        BY <2>1, <2>2, <2>3, <2>4
<1>9. used'.nodes + Awaited' <= 1 + used'.elements
    <2>1. used.nodes \in Nat /\ used.elements \in Nat
        BY <1>7
    <2>2. used.nodes + Due(stack) <= 1 + used.elements
        BY <1>3, <1>7
    <2>3. used'.nodes + Awaited' = used.nodes + (Due(stack) + Reserved(v))
        BY <1>6, <1>8
    <2>4. used'.elements = used.elements + Reserved(v)
        BY <1>8
    <2> QED
        BY <1>3, <1>4, <2>1, <2>2, <2>3, <2>4
<1>10. payload' \in Nat /\ payload' <= used'.bytes
    BY <1>1, <1>4, <1>7, <1>8
<1>11. owed' = Awaited' /\ owed' \in Int /\ (decoding' = "done" => owed' = 0)
    BY <1>1, <1>3, <1>4, <1>6
<1> QED
    BY <1>1, <1>6, <1>7, <1>8, <1>9, <1>10, <1>11 DEF DecoderInv

\* Between two replies the decoder holds nothing and owes nothing; while one is
\* read, only its own steps touch it.
LEMMA DecoderStepHolds == DecoderInv /\ [HttpCommandsNext]_requestVars => DecoderInv'
<1> SUFFICES ASSUME DecoderInv, [HttpCommandsNext]_requestVars PROVE DecoderInv'
    OBVIOUS
<1>0. /\ stack \in Seq(Loops) /\ Len(stack) \in Nat /\ Due(stack) \in Nat
      /\ Awaited = (IF decoding = "value" THEN 1 ELSE 0) + Due(stack)
      /\ Awaited' = (IF decoding' = "value" THEN 1 ELSE 0) + Due(stack')
      /\ Due(<<>>) = 0 /\ <<>> \in Seq(Loops) /\ Len(<<>>) = 0
    BY AwaitedIsDue, DueType, LenProperties, EmptySeq DEF DecoderInv
<1>1. CASE ReadReply
    <2>0. phase = "exchange" /\ UNCHANGED handlerVars
        BY <1>1 DEF ReadReply
    <2>1. ASSUME NEW v \in Values, ReadLine(v) PROVE DecoderInv'
        BY <2>0, <2>1, LineKeepsDecoderInv
    <2>4. CASE ChargeLine
        BY <2>0, <2>4, ChargeKeepsDecoderInv
    <2>2. CASE ReadPayload
        <3>1. /\ decoding = "payload" /\ payload' = 0 /\ used' = used /\ owed' = owed
              /\ Proceed(stack) /\ phase' = phase /\ route' = route
            BY <2>0, <2>2 DEF ReadPayload, handlerVars
        <3>2. /\ decoding' \in {"value", "done"}
              /\ stack' \in Seq(Loops) /\ Len(stack') <= Len(stack)
              /\ Awaited' = Due(stack)
              /\ decoding' = "done" => stack' = <<>> /\ Due(stack) = 0
            BY <1>0, <3>1, ProceedAwaits
        <3>3. Awaited = Due(stack) /\ owed = Due(stack) /\ Len(stack') \in Nat
            BY <1>0, <3>1, <3>2, LenProperties DEF DecoderInv
        <3>4. Len(stack') <= MAX_RESP_DEPTH + 1
            BY <1>0, <3>2, <3>3, DecoderAssumption DEF DecoderInv, DecoderAssumption
        <3>5. used'.bytes \in Nat
            BY <3>1 DEF DecoderInv
        <3> QED
            BY <3>1, <3>2, <3>3, <3>4, <3>5 DEF DecoderInv
    <2>3. CASE ReplyFails
        <3>1. /\ decoding' = "failed" /\ stack' = <<>> /\ payload' = 0
              /\ used' = used /\ owed' = owed
            BY <2>3 DEF ReplyFails, FailReply
        <3>2. Awaited' = 0 /\ Len(stack') = 0
            BY <1>0, <3>1
        <3> QED
            BY <1>0, <3>1, <3>2, DecoderAssumption DEF DecoderInv, DecoderAssumption
    <2> QED
        BY <1>1, <2>1, <2>2, <2>3, <2>4 DEF ReadReply, DecoderStep
<1>2. CASE AwaitReply
    <2>1. /\ decoding = "idle" /\ decoding' = "value" /\ owed' = 1
          /\ phase' = "exchange" /\ route' # "detail"
          /\ UNCHANGED <<stack, used, payload>>
        BY <1>2 DEF AwaitReply, BeginReply
    <2>2. Awaited' = 1 /\ used.nodes = 0 /\ stack = <<>> /\ payload = 0
        BY <1>0, <2>1 DEF DecoderInv
    <2> QED
        BY <2>1, <2>2 DEF DecoderInv
<1>3. CASE FinishResponse
    <2>1. /\ decoding' = "idle" /\ owed' = 0 /\ used' = NoBudgetUsed
          /\ UNCHANGED <<stack, payload>> /\ phase = "responding"
        BY <1>3 DEF FinishResponse
    <2>2. stack = <<>> /\ payload = 0
        BY <2>1 DEF DecoderInv
    <2>3. Awaited' = 0
        BY <1>0, <2>1, <2>2
    <2> QED
        BY <1>0, <2>1, <2>2, <2>3, DecoderAssumption
        DEF DecoderInv, NoBudgetUsed, DecoderAssumption
<1>4. ASSUME UNCHANGED decoderVars,
             decoding \in {"value", "line", "payload"} => UNCHANGED <<phase, route>>
      PROVE  DecoderInv'
    <2>1. /\ UNCHANGED <<decoding, incoming, stack, used, payload, owed>>
          /\ Awaited' = Awaited
        BY <1>4 DEF decoderVars, Awaited
    <2> QED
        BY <1>4, <2>1 DEF DecoderInv
<1>5. CASE DetailGoesOn \/ SendCommand
    BY <1>4, <1>5 DEF DetailGoesOn, SendCommand, handlerVars, DecoderInv
<1>6. CASE \/ ReceiveRequest \/ RefuseLine \/ RefuseEmptyKey \/ RespondBusy
          \/ BeginDetail \/ DetailAnswers
    BY <1>4, <1>6
    DEF ReceiveRequest, RefuseLine, RefuseEmptyKey, RespondBusy, BeginDetail,
        DetailAnswers, DecoderInv
<1>7. CASE ExecuteAnswers \/ HealthAnswers
    BY <1>4, <1>7 DEF ExecuteAnswers, HealthAnswers
<1>8. CASE UNCHANGED requestVars
    BY <1>4, <1>8 DEF requestVars, handlerVars
<1> QED
    BY <1>1, <1>2, <1>3, <1>5, <1>6, <1>7, <1>8 DEF HttpCommandsNext

\* The decoder keeps its invariant in every request, whatever the child sends.
LEMMA DecoderInvHolds == HttpCommandsSpec => []DecoderInv
<1>1. HttpCommandsInit => DecoderInv
    <2> SUFFICES ASSUME HttpCommandsInit PROVE DecoderInv
        OBVIOUS
    <2>1. /\ decoding = "idle" /\ stack = <<>> /\ used = NoBudgetUsed
          /\ payload = 0 /\ owed = 0
        BY DEF HttpCommandsInit, DecoderInit
    <2>2. stack \in Seq(Loops) /\ Len(stack) = 0 /\ Awaited = 0
        BY <2>1, AwaitedIsDue, DueType, EmptySeq
    <2> QED
        BY <2>1, <2>2, DecoderAssumption DEF DecoderInv, NoBudgetUsed, DecoderAssumption
<1> QED
    BY <1>1, DecoderStepHolds, PTL DEF HttpCommandsSpec

\* read_value_budgeted: for every reply and every nesting, the decoder asks for a
\* value exactly as long as the reply lacks one.
THEOREM OneReply == HttpCommandsSpec => []OneReplyRead
<1>1. DecoderInv => OneReplyRead
    BY DEF DecoderInv, OneReplyRead
<1> QED
    BY <1>1, DecoderInvHolds, PTL

\* read_value_budgeted: for every reply and every nesting, its values and slots
\* stay within the element budget, the buffer of a payload within the bytes that
\* were charged, and its recursion one level below the limit.  The line being
\* read is not charged until it is complete, and not covered.
THEOREM ReplyBounded == HttpCommandsSpec => []ReplyWithinBudget
<1>1. DecoderInv => ReplyWithinBudget
    <2> SUFFICES ASSUME DecoderInv PROVE ReplyWithinBudget
        OBVIOUS
    <2>1. /\ used.nodes \in Nat /\ used.elements \in Nat
          /\ stack \in Seq(Loops)
        BY DEF DecoderInv
    <2>2. Awaited \in Nat
        BY <2>1, AwaitedIsDue, DueType
    <2>3. used.nodes + Awaited <= 1 + MAX_RESPONSE_ELEMENTS
        BY <2>1, <2>2, DecoderAssumption DEF DecoderInv, DecoderAssumption
    <2> QED
        BY <2>3 DEF DecoderInv, ReplyWithinBudget
<1> QED
    BY <1>1, DecoderInvHolds, PTL

-----------------------------------------------------------------------------
(* The key detail *)

Steps == {"none", "type", "ttl", "length", "page", "done", "failed"}

\* A value of the key that the answer may show under the reported type.
Shown(v) == v.type \in {detail.type, "none"}

\* What the answers so far say of the values of the key since TYPE.
AnswersSeen ==
    /\ keyValue \in seen
    /\ detail.type # "none"
    /\ \E v \in seen : v.type = detail.type
    /\ detailStep \in {"length", "page", "done"} /\ detail.gone => Absent \in seen
    /\ detailStep \in {"page", "done"} =>
          /\ detail.limit = PageLimit(detail.type)
          /\ \E v \in seen : Shown(v) /\ detail.total = v.size
    /\ detailStep = "page" => detail.type \notin Omitted
    /\ detailStep = "done" =>
          \E v \in seen : Shown(v) /\ detail.returned = Least(v.size, detail.limit)

DetailInv ==
    /\ keyValue \in KeyValues
    /\ detailStep \in Steps
    /\ detail = [type |-> detail.type, gone |-> detail.gone, total |-> detail.total,
                 returned |-> detail.returned, limit |-> detail.limit]
    /\ detailStep \in {"ttl", "length", "page"} => detail.returned = 0
    /\ detailStep \in {"ttl", "length", "page"} => AnswersSeen
    /\ detailStep = "done" /\ detail.type # "none" => AnswersSeen

\* A value has a size, and only the absent key has no type.
LEMMA KeyValuesShape ==
    ASSUME NEW v \in KeyValues
    PROVE  /\ v.size \in Nat
           /\ v.type = "none" <=> v = Absent
BY DetailAssumption DEF DetailAssumption, KeyValues, Absent, Collections, Unsupported

\* What a page returns is the value, or its first PageLimit elements: half of
\* the reply to ZRANGE WITHSCORES.
LEMMA PageReturned ==
    ASSUME NEW type, keyValue \in KeyValues
    PROVE  Returned(type) = Least(keyValue.size, PageLimit(type))
<1>1. keyValue.size \in Nat
    BY KeyValuesShape
<1>2. PageLimit(type) \in Nat
    BY DetailAssumption DEF DetailAssumption, PageLimit
<1>3. Least(keyValue.size, PageLimit(type)) \in Nat
    BY <1>1, <1>2 DEF Least
<1>4. \A n \in Nat : (2 * n) \div 2 = n
    OBVIOUS
<1> QED
    BY <1>3, <1>4 DEF Returned, ReplyLength

\* At the start nothing has been asked.
LEMMA InitDetailInv == DetailInit => DetailInv
BY DEF DetailInit, DetailInv, KeyValues, Steps, NoDetail

\* Each command keeps the invariant, and so does a write between two of them.
LEMMA NextDetailInv == DetailInv /\ [DetailNext]_detailVars => DetailInv'
<1> SUFFICES ASSUME DetailInv, [DetailNext]_detailVars PROVE DetailInv'
    OBVIOUS
<1>1. CASE StartDetail
    BY <1>1 DEF StartDetail, DetailInv, Steps
<1>2. CASE ReadType
    <2>1. detailStep' \in {"ttl", "done"} /\ detail'.type = keyValue.type
          /\ detail'.returned = 0 /\ keyValue' = keyValue /\ seen' = {keyValue}
        BY <1>2 DEF ReadType, NoDetail
    <2>2. detailStep' = "done" => detail'.type = "none"
        BY <1>2, <2>1 DEF ReadType, Absent
    <2>3. detailStep' = "ttl" => detail'.type # "none"
        BY <1>2, <2>1, KeyValuesShape DEF ReadType, DetailInv
    <2>4. detailStep' = "ttl" => AnswersSeen'
        BY <2>1, <2>3 DEF AnswersSeen
    <2> QED
        BY <1>2, <2>1, <2>2, <2>4 DEF ReadType, DetailInv, Steps, NoDetail
<1>3. CASE ReadTtl
    <2>1. AnswersSeen
        BY <1>3 DEF ReadTtl, DetailInv
    <2>2. detail'.gone => keyValue = Absent
        BY <1>3 DEF ReadTtl, DetailInv
    <2>3. detail'.type = detail.type /\ detail'.returned = detail.returned
        BY <1>3 DEF ReadTtl, DetailInv
    <2>4. detailStep' = "length" /\ seen' = seen /\ keyValue' = keyValue
        BY <1>3 DEF ReadTtl
    <2>5. AnswersSeen'
        BY <2>1, <2>2, <2>3, <2>4 DEF AnswersSeen
    <2> QED
        BY <1>3, <2>3, <2>4, <2>5 DEF ReadTtl, DetailInv, Steps
<1>4. CASE ReadLength
    <2>1. AnswersSeen /\ detail.returned = 0
        BY <1>4 DEF ReadLength, DetailInv
    <2>2. /\ detail'.type = detail.type /\ detail'.gone = detail.gone
          /\ detail'.returned = 0
          /\ detail'.total = keyValue.size /\ detail'.limit = PageLimit(detail.type)
        BY <1>4, <2>1 DEF ReadLength, DetailInv
    <2>3. /\ detailStep' = IF detail.type \in Omitted THEN "done" ELSE "page"
          /\ seen' = seen /\ keyValue' = keyValue
          /\ keyValue.type \in {detail.type, "none"}
        BY <1>4 DEF ReadLength, Readable
    <2>4. keyValue \in seen' /\ Shown(keyValue)'
        BY <2>1, <2>2, <2>3 DEF AnswersSeen, Shown
    <2>5. detail.type \in Omitted => Least(keyValue.size, PageLimit(detail.type)) = 0
        BY KeyValuesShape DEF DetailInv, PageLimit, Omitted, Least
    <2>6. \E v \in seen' : Shown(v)' /\ detail'.total = v.size
        BY <2>2, <2>3, <2>4 DEF Shown
    <2>7. detailStep' = "done" =>
            \E v \in seen' : Shown(v)' /\ detail'.returned = Least(v.size, detail'.limit)
        BY <2>2, <2>3, <2>4, <2>5
    <2>8. detail.gone => Absent \in seen
        BY <1>4, <2>1 DEF ReadLength, AnswersSeen
    <2>9. AnswersSeen'
        BY <2>1, <2>2, <2>3, <2>6, <2>7, <2>8 DEF AnswersSeen, PageLimit
    <2> QED
        BY <1>4, <2>2, <2>3, <2>9 DEF ReadLength, DetailInv, Steps
<1>5. CASE ReadPage
    <2>1. AnswersSeen
        BY <1>5 DEF ReadPage, DetailInv
    <2>2. /\ detail'.type = detail.type /\ detail'.gone = detail.gone
          /\ detail'.total = detail.total /\ detail'.limit = detail.limit
          /\ detail'.returned = Returned(detail.type)
        BY <1>5 DEF ReadPage, DetailInv
    <2>3. detailStep' = "done" /\ seen' = seen /\ keyValue' = keyValue
          /\ keyValue.type \in {detail.type, "none"}
        BY <1>5 DEF ReadPage, Readable
    <2>4. keyValue \in seen' /\ Shown(keyValue)'
        BY <2>1, <2>2, <2>3 DEF AnswersSeen, Shown
    <2>5. detail.limit = PageLimit(detail.type)
        BY <1>5, <2>1 DEF ReadPage, AnswersSeen
    <2>6. detail'.returned = Least(keyValue.size, detail'.limit)
        BY <2>2, <2>5, PageReturned DEF DetailInv
    <2>7. \E v \in seen' : Shown(v)' /\ detail'.total = v.size
        BY <1>5, <2>1, <2>2, <2>3 DEF ReadPage, AnswersSeen, Shown
    <2>8. detail.gone => Absent \in seen
        BY <1>5, <2>1 DEF ReadPage, AnswersSeen
    <2>9. AnswersSeen'
        BY <2>1, <2>2, <2>3, <2>4, <2>5, <2>6, <2>7, <2>8 DEF AnswersSeen, PageLimit
    <2> QED
        BY <1>5, <2>2, <2>3, <2>9 DEF ReadPage, DetailInv, Steps
<1>6. CASE DetailFails
    BY <1>6 DEF DetailFails, DetailInv, Steps
<1>7. CASE OthersWrite
    <2>1. detailStep' = detailStep /\ detail' = detail /\ keyValue' \in KeyValues
        BY <1>7 DEF OthersWrite
    <2>2. detailStep # "done" /\ detailStep \in {"ttl", "length", "page"} =>
            seen' = seen \cup {keyValue'}
        BY <1>7 DEF OthersWrite
    <2>3. detailStep \in {"ttl", "length", "page"} => AnswersSeen'
        BY <2>1, <2>2 DEF DetailInv, AnswersSeen, Shown, PageLimit
    <2>4. detailStep # "done"
        BY <1>7 DEF OthersWrite
    <2> QED
        BY <2>1, <2>3, <2>4 DEF DetailInv
<1>8. CASE DetailEnds
    BY <1>8 DEF DetailEnds, DetailInv, Steps, NoDetail, KeyValues
<1>9. CASE UNCHANGED detailVars
    BY <1>9 DEF detailVars, DetailInv, AnswersSeen, Shown, PageLimit
<1> QED
    BY <1>1, <1>2, <1>3, <1>4, <1>5, <1>6, <1>7, <1>8, <1>9
    DEF DetailNext, DetailCommand

\* A key detail keeps its invariant, whatever other clients write meanwhile.
LEMMA DetailInvHolds == DetailSpec => []DetailInv
BY InitDetailInv, NextDetailInv, PTL DEF DetailSpec

\* detail puts together four answers that other clients write between; each of
\* its numbers was true of the key, or of the key being gone, since TYPE.
THEOREM DetailSeen == DetailSpec => []DetailFromSeenValues
<1>1. DetailInv => DetailFromSeenValues
    BY DEF DetailInv, AnswersSeen, Shown, DetailFromSeenValues, Answered
<1> QED
    BY <1>1, DetailInvHolds, PTL


\* key_detail: whatever else the handler does, what it does to the view of a key
\* is a run of KeyDetail.
THEOREM DetailRefinement == HttpCommandsSpec => DetailSpec
<1>1. HttpCommandsInit => DetailInit
    BY DEF HttpCommandsInit
<1>2. [HttpCommandsNext]_requestVars => [DetailNext]_detailVars
    BY DEF HttpCommandsNext, requestVars, ReceiveRequest, RefuseLine, RefuseEmptyKey,
           RespondBusy, SendCommand, AwaitReply, ReadReply, ExecuteAnswers,
           HealthAnswers, BeginDetail, DetailGoesOn, DetailAnswers, FinishResponse,
           DetailNext
<1> QED
    BY <1>1, <1>2, PTL DEF HttpCommandsSpec, DetailSpec

\* key_detail, detail: the handler's answers about a key were true of it.
THEOREM DetailAnswersSeen == HttpCommandsSpec => []DetailFromSeenValues
BY DetailRefinement, DetailSeen, PTL
==============================================================================
