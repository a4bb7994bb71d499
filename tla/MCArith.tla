------------------------------ MODULE MCArith ------------------------------
(* Calls for the runs of Arith: the edges of each function. *)
EXTENDS Arith

Fractions == {0, 1, 1234567, 2 ^ 22, 2 ^ 23 - 2, 2 ^ 23 - 1}
Operands  == {<<s, e, f>> : s \in 0 .. 1, e \in {124, 127, 128}, f \in Fractions}
Numbers   == {0, 1, 2, 3, 7, 100, 65535, 2 ^ 24 - 1, 2 ^ 24, 2 ^ 24 + 1, 2 ^ 30 - 1, 2147483647}
Quarter(n) == FP_Div(FP_ToFloat(n), FP_ToFloat(4))
MCFloatCalls ==
    {<<f, a, b>> : f \in {"add", "mult", "div", "cmp"}, a \in Operands, b \in Operands}
    \union {<<"long", n>> : n \in Numbers \union {-n : n \in Numbers}}
    \union {<<f, Quarter(n)>> : f \in {"sqrt", "log"}, n \in {1, 2, 3, 4, 5, 7, 10, 40, 41, 100, 399, 4000}}
    \union {<<"cos", Quarter(n)>> : n \in -27 .. 27}
    \union {<<"atan", Quarter(n)>> : n \in -12 .. 12}
    \union {<<"atan2", Quarter(y), Quarter(x)>> : y \in {-5, 1, 9}, x \in {-7, -1, 2, 5}}
    \union {<<"pow", Quarter(n), Two>> : n \in {2, 3, 5, 13}}
    \union {<<"soft", a, b>> : a \in 0 .. 31, b \in 0 .. 31}

\* Sixteen cells; strings of up to three characters, or a different value in each cell.
Cells == 0 .. 15
Strings == {[a \in Cells |-> IF a \in 1 .. Len(x) THEN x[a] ELSE IF a = Len(x) + 1 THEN 0
                             ELSE IF a \in 9 .. 8 + Len(y) THEN y[a - 8] ELSE IF a = 9 + Len(y) THEN 0 ELSE 9] :
            x, y \in SeqOf({1, 2}, 3)}
Different == [a \in Cells |-> 100 + a]
MCMemoryCalls ==
    {<<f, m, 1, 9, n>> : f \in {"strcpy", "strcat", "strncpy", "strncat", "strncat_size", "compare"}, m \in Strings, n \in 0 .. 3}
    \union {<<f, Different, d, s, n>> : f \in {"memcpy", "memmove", "memset"}, d \in 0 .. 5, s \in 0 .. 5, n \in 0 .. 9}

D(width, point) == <<"d", width, point>>
X == <<"x", 4, FALSE>>
Blank == <<"char", Space>>
MCTextCalls ==
    {<<"number", n, b>> : n \in {0, 1, 9, 10, 99, 12345678, 99999999, 999999999, 1000000000, 2147483647}, b \in {10, 16}}
    \union {<<"number", n, b>> : n \in {-1, -9, -10, -12345678, -99999999, -2147483647, Smallest}, b \in {10, 16}}
    \union {<<"format", <<D(w, p), Blank, X, Blank, D(0, FALSE), <<"char", Newline>>>>, <<a, 255, b>>>> :
              w \in {0, 2, 4}, p \in BOOLEAN, a \in {0, 7, -3, -1234, 99999}, b \in {-1, 0, 31}}

MCSortCalls == {<<"sort", s>> : s \in SeqOf(0 .. 3, 4)} \union {<<"sort", s>> : s \in [1 .. 6 -> {1, 2, 4}]}

\* The ends of February and of the year, at three times of the day.
YearEdges == {1, 57, 58, 59, 60, 364, 365}
StartOf(year) == mktime([year |-> year, mon |-> 0, mday |-> 1, hour |-> 0, min |-> 0, sec |-> 0, isdst |-> FALSE])
MCTimeCalls == {<<"date", StartOf(y) + d * DAY + s>> : y \in 80 .. 147, d \in YearEdges, s \in {0, 7261, DAY - 1}}
               \union {<<"dst", StartOf(y) + d * DAY>> : y \in 80 .. 147, d \in {0, 200}}

IpHead == <<69, 0, 0, 40, 0, 0, 64, 0, 255, 6, 9, 9, 192, 168, 100, 10, 10, 255, 0, 1>>
MCSumCalls ==
    {<<"checksum", [head |-> IpHead, protocol |-> p, body |-> b \o c]>> :
        p \in {PING, UDP, TCP}, b \in {[i \in 1 .. 18 |-> (i * 41) % 256]}, c \in SeqOf({0, 1, 255}, 3)}
    \union {<<"crc", s>> : s \in SeqOf({0, 1, 170, 255}, 3)}
MCCalls == MCFloatCalls \union MCMemoryCalls \union MCTextCalls \union MCSortCalls \union MCTimeCalls \union MCSumCalls
=============================================================================
