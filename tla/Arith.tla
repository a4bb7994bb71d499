------------------------------- MODULE Arith -------------------------------
(***************************************************************************)
(* Calls of the kernel's library: one call with its arguments, then what   *)
(* it returns. The properties compare that with definitions that do not    *)
(* go the way of the code.                                                 *)
(***************************************************************************)
EXTENDS PlasmaFloat, PlasmaLibc

CONSTANTS Calls,      \* <<function, arguments...>>
          SoftBits    \* bits of the words that are multiplied without a multiplier: 32 in the code

VARIABLES call, result  \* result: <<>> until the call returns
arithVars == <<call, result>>

FloatResult(c) ==
    CASE c[1] = "add"  -> FP_Add(c[2], c[3])
      [] c[1] = "mult" -> FP_Mult(c[2], c[3])
      [] c[1] = "div"  -> FP_Div(c[2], c[3])
      [] c[1] = "cmp"  -> FP_Cmp(c[2], c[3])
      [] c[1] = "long" -> FP_ToFloat(c[2])
      [] c[1] = "sqrt" -> FP_Sqrt(c[2])
      [] c[1] = "cos"  -> FP_Cos(c[2])
      [] c[1] = "atan" -> FP_Atan(c[2])
      [] c[1] = "atan2" -> FP_Atan2(c[2], c[3])
      [] c[1] = "log"  -> FP_Log(c[2])
      [] c[1] = "pow"  -> FP_Pow(c[2], c[3])
      [] c[1] = "soft" -> <<mulsi3(c[2], c[3], 0, SoftBits), DivideMod(c[2], c[3], SoftBits), divsi3(-c[2], c[3], SoftBits)>>
MemoryResult(c) ==
    CASE c[1] = "strcpy"  -> strcpy(c[2], c[3], c[4])
      [] c[1] = "strcat"  -> strcat(c[2], c[3], c[4])
      [] c[1] = "strncpy" -> strncpy(c[2], c[3], c[4], c[5])
      [] c[1] = "strncat" -> strncat(c[2], c[3], c[4], c[5])
      [] c[1] = "strncat_size" -> strncat_size(c[2], c[3], c[4], c[5])
      [] c[1] = "memcpy"  -> memcpy(c[2], c[3], c[4], c[5])
      [] c[1] = "memmove" -> memmove(c[2], c[3], c[4], c[5])
      [] c[1] = "memset"  -> memset(c[2], c[3], 7, c[5])
      [] c[1] = "compare" -> <<strcmp(c[2], c[3], c[4]), strstr(c[2], c[3], c[4]), memcmp(c[2], c[3], c[4], c[5])>>
TextResult(c) ==
    CASE c[1] = "number" -> itoa(c[2], c[3])
      [] c[1] = "format" -> sprintf(c[2], c[3])
SortResult(c) == qsort(c[2])
TimeResult(c) ==
    CASE c[1] = "date" -> gmtime_r(c[2], NoDst)
      [] c[1] = "dst"  -> gmtimeDstSet(c[2])
SumResult(c) ==
    CASE c[1] = "checksum" -> Filled(c[2])
      [] c[1] = "crc"      -> Trailer(c[2])

Floats   == {"add", "mult", "div", "cmp", "long", "sqrt", "cos", "atan", "atan2", "log", "pow", "soft"}
Memories == {"strcpy", "strcat", "strncpy", "strncat", "strncat_size", "memcpy", "memmove", "memset", "compare"}
Texts    == {"number", "format"}
Sorts    == {"sort"}
Times    == {"date", "dst"}
Sums     == {"checksum", "crc"}

Init == call \in Calls /\ result = <<>>
Return(functions, Result(_)) ==
    /\ call[1] \in functions
    /\ result = <<>>
    /\ result' = <<Result(call)>>
    /\ UNCHANGED call
Next == \/ Return(Floats, FloatResult) \/ Return(Memories, MemoryResult) \/ Return(Texts, TextResult)
        \/ Return(Sorts, SortResult) \/ Return(Times, TimeResult) \/ Return(Sums, SumResult)
Spec == Init /\ [][Next]_arithVars

-----------------------------------------------------------------------------
Size(n) == IF n < 0 THEN -n ELSE n
\* A float of the small sets in units of its last place at exponent LowExp.
LowExp == 124
Scaled(a) == Negated(a[1], IF a[2] >= LowExp THEN Full(a) * 2 ^ (a[2] - LowExp)
                           ELSE IF LowExp - a[2] < 25 THEN Full(a) \div 2 ^ (LowExp - a[2]) ELSE 0)
\* a and b differ by less than 2 ^ -bits of 1, or of b if it is greater.
Near(a, b, bits) == LET d == FP_Sub(a, b) IN d = Zero \/ d[2] + bits < (IF b[2] > 127 THEN b[2] ELSE 127)
\* n towards zero to its 24 highest bits.
Rounded(n) == LET k == CHOOSE k \in 0 .. 7 : Size(n) \div 2 ^ k < 2 ^ 24 /\ \A i \in 0 .. k - 1 : Size(n) \div 2 ^ i >= 2 ^ 24
              IN Quot(n, 2 ^ k) * 2 ^ k

(* A sum is off by less than three units in the last place of the greater    *)
(* operand, a product and a quotient by two (the quotient is multiplied      *)
(* back; the assertion of FP_Div about its remainder holds), a comparison    *)
(* has the sign of the difference, integers of 24 bits survive the           *)
(* conversions, and the series satisfy the laws of their functions; without  *)
(* a multiplier the product and the quotient of words are the same           *)
(* (trunk/kernel/math.c).                                                    *)
FloatsRight ==
    (call[1] \in Floats /\ result # <<>>) =>
    LET r == result[1] a == call[2] b == IF Len(call) > 2 THEN call[3] ELSE call[2]
        Is(f) == call[1] = f
    IN /\ Is("add")  => Size(Scaled(r) - Scaled(a) - Scaled(b)) < 3 * 2 ^ ((IF a[2] > b[2] THEN a[2] ELSE b[2]) - LowExp)
       /\ Is("mult") => /\ Size(ProductFrom(Full(a), Full(b), IF r[2] = a[2] + b[2] - 127 THEN 23 ELSE 24) - Full(r)) <= 1
                        /\ r[1] = 0 <=> a[1] = b[1]
       /\ Is("div")  => /\ Size(ProductFrom(Full(r), Full(b), IF r[2] = a[2] - b[2] + 127 THEN 23 ELSE 24) - Full(a)) <= 2
                        /\ Size(Remainder(a, b)) < 65535
       /\ Is("cmp")  => r = (IF Scaled(a) > Scaled(b) THEN 1 ELSE IF Scaled(a) = Scaled(b) THEN 0 ELSE -1)
       /\ Is("long") => FP_ToLong(r) = Rounded(a)
       /\ Is("sqrt") => Near(FP_Mult(r, r), a, 18)
       /\ Is("cos")  => LET s == FP_Sin(a) IN Near(FP_Add(FP_Mult(r, r), FP_Mult(s, s)), One, 12)
       /\ Is("atan") => Near(FP_Div(FP_Sin(r), FP_Cos(r)), a, 8)
       /\ Is("atan2") => FP_Cos(r)[1] = b[1] /\ (a # Zero => FP_Sin(r)[1] = a[1])
       /\ Is("log")  => Near(FP_Exp(r), a, 12)
       /\ Is("pow")  => Near(r, FP_Mult(a, a), 12)
       /\ Is("soft") => /\ r[1] = (a * b) % 2 ^ SoftBits
                        /\ b # 0 => r[2] = <<a \div b, a % b>> /\ r[3] = -(a \div b)

(* Each copy leaves in the destination what the source held before the call, *)
(* also where the two overlap (memmove), cut to the count, and changes no    *)
(* character beyond it, the end included (trunk/kernel/libc.c).              *)
MemoryRight ==
    (call[1] \in Memories /\ result # <<>>) =>
    LET m == call[2]  d == call[3]  s == call[4]  n == call[5]  after == result[1]
        Is(f) == call[1] = f
        Same(changed) == \A i \in DOMAIN m \ changed : after[i] = m[i]
        end  == d + LengthAt(m, d)   \* where strcat starts
        Got(at, text) == /\ At(after, at) = text
                         /\ Same(at .. at + Len(text) + 1)
        Cut(count) == SubSeq(At(m, s), 1, Least(count, LengthAt(m, s)))
        IsSub(at) == \A i \in 1 .. Len(At(m, s)) : at + i - 1 < d + LengthAt(m, d) /\ m[at + i - 1] = At(m, s)[i]
    IN /\ Is("strcpy")  => Got(d, At(m, s))
       /\ Is("strcat")  => At(after, d) = At(m, d) \o At(m, s) /\ Got(end, At(m, s))
       /\ Is("strncpy") => Got(d, Cut(n)) /\ Same(d .. d + n)
       /\ Is("strncat") => Got(end, Cut(n)) /\ Same(end .. end + n)
       /\ Is("strncat_size") => LengthAt(after, d) <= (IF n - 1 > LengthAt(m, d) THEN n - 1 ELSE LengthAt(m, d))
       /\ Is("memmove") \/ (Is("memcpy") /\ (d <= s \/ d >= s + n))
            => (\A i \in 0 .. n - 1 : after[d + i] = m[s + i]) /\ Same(d .. d + n - 1)
       /\ Is("memset")  => (\A i \in 0 .. n - 1 : after[d + i] = 7) /\ Same(d .. d + n - 1)
       /\ Is("compare") =>
            /\ after[1] = 0 <=> At(m, d) = At(m, s)
            /\ after[1] = -strcmp(m, s, d)
            /\ IF after[2] = -1 THEN ~\E at \in d .. d + LengthAt(m, d) : IsSub(at)
               ELSE IsSub(after[2]) /\ ~\E at \in d .. after[2] - 1 : IsSub(at)
            /\ after[3] = 0 <=> \A i \in 0 .. n - 1 : m[d + i] = m[s + i]

(* A number of up to nine digits that is printed is read back as it was, one *)
(* of up to eight also with the reader behind its last digit, alone and in a *)
(* format with fields that are filled with blanks; a field is as wide as     *)
(* asked for or as its number (itoa, strtol, sprintf, sscanf).               *)
TextRight ==
    (call[1] \in Texts /\ result # <<>>) =>
    LET text == result[1] IN
    /\ call[1] = "number" =>
         LET read   == strtol(text, 1, call[3])
             digits == IF text[1] = Minus THEN Len(text) - 1 ELSE Len(text)
         IN /\ digits <= MaxDigits => read[1] = call[2]
            /\ digits < MaxDigits => read[2] = Len(text) + 1
            /\ Len(text) > 1 => text[1] # 0
    /\ call[1] = "format" =>
         LET fields == SelectSeq(call[2], LAMBDA item : item[1] # "char")
         IN /\ (\A i \in DOMAIN fields : ~fields[i][3]) => sscanf(text, call[2]) = call[3]
            /\ Len(text) >= FoldLeft(LAMBDA n, item : n + (IF item[1] = "char" THEN 1 ELSE item[2]), 0, call[2])

(* Sorting keeps the elements and puts them in order, and the search in the  *)
(* result finds each value that is there and no other (qsort, bsearch).      *)
SortRight ==
    (call[1] \in Sorts /\ result # <<>>) =>
    LET before == call[2]  after == result[1]
        Count(s, v) == Len(SelectSeq(s, LAMBDA e : e = v))
    IN /\ \A i \in 1 .. Len(after) - 1 : after[i] <= after[i + 1]
       /\ \A v \in ToSet(before) : Count(after, v) = Count(before, v)
       /\ Len(after) = Len(before)
       /\ \A v \in 0 .. 5 : LET at == bsearch(v, after) IN IF v \in ToSet(after) THEN after[at] = v ELSE at = 0

\* The day after a date, by the calendar.
DaysOf(year, mon) == CASE mon \in {3, 5, 8, 10} -> 30 [] mon = 1 -> IF IsLeapYear(1900 + year) THEN 29 ELSE 28 [] OTHER -> 31
Following(tm) ==
    LET lastDay == tm.mday = DaysOf(tm.year, tm.mon)
        newYear == lastDay /\ tm.mon = 11
    IN [tm EXCEPT !.mday = IF lastDay THEN 1 ELSE tm.mday + 1,
                  !.mon  = IF newYear THEN 0 ELSE IF lastDay THEN tm.mon + 1 ELSE tm.mon,
                  !.year = IF newYear THEN tm.year + 1 ELSE tm.year,
                  !.yday = IF newYear THEN 0 ELSE tm.yday + 1,
                  !.wday = (tm.wday + 1) % 7]

(* The date of the next day is the day that follows by the calendar, and a   *)
(* date is made back into its time, also while daylight saving is on, which  *)
(* starts and ends on Sundays at two (mktime, gmtime_r, gmtimeDstSet).       *)
TimeRight ==
    (call[1] \in Times /\ result # <<>>) =>
    LET t == call[2]
        Round(x, dst) == mktime(gmtime_r(x, dst)) = x
        Sunday(x) == LET tm == gmtime_r(x, NoDst) IN tm.wday = 0 /\ tm.hour = 2 /\ tm.min = 0 /\ tm.sec = 0
    IN /\ call[1] = "date" => /\ gmtime_r(t + DAY, NoDst) = Following(result[1])
                              /\ mktime(result[1]) = t
       /\ call[1] = "dst" => LET dst == result[1] IN
            /\ dst[1] < dst[2] /\ Sunday(dst[1]) /\ Sunday(dst[2])
            /\ \A x \in {t, dst[1] - 1, dst[1], dst[2] - 1, dst[2]} : Round(x, dst)
            /\ gmtime_r(dst[1], dst).hour = 3 /\ gmtime_r(dst[2] - 1, dst).isdst

(* Daylight saving starts on the second Sunday of March and ends on the      *)
(* first of November: the comment at trunk/kernel/libc.c:630.                *)
DstOnItsSundays ==
    (call[1] = "dst" /\ result # <<>>) =>
    LET start == gmtime_r(result[1][1], NoDst)  end == gmtime_r(result[1][2], NoDst)
    IN start.mday \in 8 .. 14 /\ end.mday \in 1 .. 7

\* What the CRC of a frame with its own CRC behind it always is.
Residue == {0, 1, 3, 4, 5, 6, 8, 10, 11, 12, 14, 15, 18, 24, 25, 26, 30, 31}
ByteOf(bits) == FoldSet(LAMBDA b, n : n + 2 ^ b, 0, bits)
\* Halves are swapped on the line.
OnLine(byte) == ((byte % 16) * 16) + (byte \div 16)
(* What is sent passes the check of the receiver, a packet in which one byte *)
(* has changed does not (IPSendPacket, EthernetVerifyChecksums), and the     *)
(* CRC behind a frame is the one of IEEE 802.3 (CrcInit, EthernetTransmit).  *)
SumsRight ==
    (call[1] \in Sums /\ result # <<>>) =>
    LET sent == result[1] IN
    /\ call[1] = "checksum" =>
         /\ EthernetVerifyChecksums(sent)
         /\ \A i \in DOMAIN sent.body, v \in {0, 1, 128} :
              sent.body[i] # v /\ ~(sent.protocol = UDP /\ i \in {7, 8}) => ~EthernetVerifyChecksums([sent EXCEPT !.body[i] = v])
    /\ call[1] = "crc" => Crc(call[2] \o [i \in 1 .. 4 |-> OnLine(ByteOf(sent[i]))]) = Residue
=============================================================================
