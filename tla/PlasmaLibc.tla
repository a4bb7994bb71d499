----------------------------- MODULE PlasmaLibc -----------------------------
(***************************************************************************)
(* The library of C (trunk/kernel/libc.c). Memory is a function from       *)
(* addresses to characters; characters are small numbers, 0 ends a string. *)
(***************************************************************************)
EXTENDS Integers, FiniteSets, SequencesExt

\* The string at address s, without its end.
LengthAt(m, s) == CHOOSE n \in 0 .. 99 : m[s + n] = 0 /\ \A i \in 0 .. n - 1 : m[s + i] # 0
At(m, s) == [i \in 1 .. LengthAt(m, s) |-> m[s + i - 1]]
Least(a, b) == IF a < b THEN a ELSE b

\* *dst++ = *src++ for each offset of the sequence, in its order.
Moved(m, dst, src, offsets) == FoldLeft(LAMBDA n, i : [n EXCEPT ![dst + i] = n[src + i]], m, offsets)
Up(bytes) == [i \in 1 .. bytes |-> i - 1]

strlen(m, s) == LengthAt(m, s)
\* do ... while(c): a copy that overruns its source goes on with what it wrote.
RECURSIVE strcpy(_, _, _)
strcpy(m, dst, src) ==
    LET n == [m EXCEPT ![dst] = m[src]] IN IF n[dst] = 0 THEN n ELSE strcpy(n, dst + 1, src + 1)

\* Up to count characters, the end one of them, and another end behind them.
strncpy(m, dst, src, count) ==
    LET k == Least(count, LengthAt(m, src) + 1) IN [Moved(m, dst, src, Up(k)) EXCEPT ![dst + k] = 0]
strcat(m, dst, src) == strcpy(m, dst + LengthAt(m, dst), src)
strncat(m, dst, src, count) == strncpy(m, dst + LengthAt(m, dst), src, count)
\* STRNCAT_SIZE: the size is that of the whole destination.
strncat_size(m, dst, src, sizeDst) ==
    strncpy(m, dst + LengthAt(m, dst), src, IF sizeDst - LengthAt(m, dst) > 1 THEN sizeDst - LengthAt(m, dst) - 1 ELSE 0)

RECURSIVE strncmp(_, _, _, _)
strncmp(m, a, b, count) ==
    IF count <= 0 THEN 0
    ELSE IF m[a] # m[b] THEN m[a] - m[b]
    ELSE IF m[b] = 0 THEN 0 ELSE strncmp(m, a + 1, b + 1, count - 1)
strcmp(m, a, b) == strncmp(m, a, b, LengthAt(m, b) + 1)

\* The address, or -1 for NULL.
RECURSIVE strstr(_, _, _)
strstr(m, string, find) ==
    LET same == \A i \in 0 .. LengthAt(m, find) - 1 : i <= LengthAt(m, string) /\ m[string + i] = m[find + i]
    IN IF same THEN string ELSE IF m[string] = 0 THEN -1 ELSE strstr(m, string + 1, find)

\* Words when both addresses and the size are multiples of four, else bytes.
memcpy(m, dst, src, bytes) ==
    IF dst % 4 # 0 \/ src % 4 # 0 \/ bytes % 4 # 0 THEN Moved(m, dst, src, Up(bytes))
    ELSE FoldLeft(LAMBDA n, w : [a \in DOMAIN n |-> IF a - dst - 4 * w \in 0 .. 3 THEN n[a - dst + src] ELSE n[a]],
                  m, Up(bytes \div 4))

\* Mutant: always upwards.
memmove_up(m, dst, src, bytes) == Moved(m, dst, src, Up(bytes))

\* Downwards when the destination is behind the source.
memmove(m, dst, src, bytes) == Moved(m, dst, src, IF dst < src THEN Up(bytes) ELSE Reverse(Up(bytes)))
memset(m, dst, c, bytes) == [a \in DOMAIN m |-> IF a \in dst .. dst + bytes - 1 THEN c ELSE m[a]]
memcmp(m, cs, ct, bytes) ==
    LET differ == {i \in 0 .. bytes - 1 : m[cs + i] # m[ct + i]}
    IN IF differ = {} THEN 0 ELSE LET i == CHOOSE i \in differ : \A j \in differ : i <= j IN m[cs + i] - m[ct + i]

(* Numbers as text: digits 0 .. 15 stand for themselves.                    *)
Minus == 16
Hex   == 17   \* the x of 0x
Space == 18
Newline == 19
CarriageReturn == 20
Other   == 21
IsSpace(c) == c \in {Space, Newline, CarriageReturn}

\* Arithmetic of 32 bits: base is 10 or 16, and a negative n stands for n + 2 ^ 32.
WrapDiv(base) == IF base = 16 THEN 2 ^ 28 ELSE 429496729
WrapRem(base) == IF base = 16 THEN 0 ELSE 6
UDiv(n, base) == IF n >= 0 THEN n \div base ELSE (n \div base) + WrapDiv(base) + (((n % base) + WrapRem(base)) \div base)
URem(n, base) == IF n >= 0 THEN n % base ELSE ((n % base) + WrapRem(base)) % base
Smallest == -2147483647 - 1
Neg(n)   == IF n = Smallest THEN n ELSE -n
\* value * base + ch; nine decimal digits fit.
Shifted(v, base, ch) ==
    LET low == v % 2 ^ 28 IN (IF base = 16 THEN (IF low >= 2 ^ 27 THEN low - 2 ^ 28 ELSE low) ELSE v) * base + ch

RECURSIVE Digits(_, _, _)
Digits(n, base, text) ==
    LET t == <<URem(n, base)>> \o text IN IF UDiv(n, base) = 0 THEN t ELSE Digits(UDiv(n, base), base, t)

\* Mutant: the sign is put in before the last digit is.
itoa_signFirst(num, base) == IF base = 10 /\ num < 0 THEN <<Minus>> \o Tail(Digits(Neg(num), base, <<>>)) ELSE Digits(num, base, <<>>)

\* The digits from the right, then the sign.
itoa(num, base) == IF base = 10 /\ num < 0 THEN <<Minus>> \o Digits(Neg(num), base, <<>>) ELSE Digits(num, base, <<>>)

MaxDigits == 9   \* for(i = 0; i <= 8; ++i)
\* <<value, where *end points>> for a text whose number starts at position from.
strtol(text, from, base0) ==
    LET Char(i) == IF i <= Len(text) THEN text[i] ELSE Other
        neg   == Char(from) = Minus
        s1    == IF neg THEN from + 1 ELSE from
        isHex == Char(s1) = 0 /\ Char(s1 + 1) = Hex
        base  == IF isHex THEN 16 ELSE base0
        s2    == IF isHex THEN s1 + 2 ELSE s1
        IsDigit(c) == c < (IF base < 10 THEN 10 ELSE base)
        n     == CHOOSE k \in 0 .. MaxDigits : (k = MaxDigits \/ ~IsDigit(Char(s2 + k))) /\ \A i \in 0 .. k - 1 : IsDigit(Char(s2 + i))
        value == FoldLeft(LAMBDA v, i : Shifted(v, base, Char(s2 + i)), 0, Up(n))
    IN <<IF neg THEN Neg(value) ELSE value, IF n = MaxDigits THEN s2 + n - 1 ELSE s2 + n>>
atoi(text) == strtol(text, 1, 10)[1]

(* A format is a sequence of items: a character <<"char", c>>, or a          *)
(* conversion with its width and whether a point came before its letter.    *)
Fill(c, n) == [i \in 1 .. n |-> c]
Padded(text, width, fill) == Fill(fill, IF width > Len(text) THEN width - Len(text) ELSE 0) \o text
Converted(item, arg) ==
    CASE item[1] = "d" -> Padded(itoa(arg, 10), item[2], IF item[3] THEN 0 ELSE Space)
      [] item[1] = "x" -> Padded(itoa(arg, 16), item[2], 0)
      [] item[1] = "c" -> <<arg>>
\* A newline gets a return before it, unless there is one.
Plain(format, i) == IF format[i][2] = Newline /\ (i = 1 \/ format[i - 1] # <<"char", CarriageReturn>>)
                    THEN <<CarriageReturn, Newline>> ELSE <<format[i][2]>>
sprintf(format, args) ==
    FoldLeft(LAMBDA p, i : IF format[i][1] = "char" THEN <<p[1] \o Plain(format, i), p[2]>>
                           ELSE <<p[1] \o Converted(format[i], args[p[2]]), p[2] + 1>>,
             <<<<>>, 1>>, [i \in DOMAIN format |-> i])[1]

\* sscanf: the arguments stored, up to the end of the string.
RECURSIVE Scan(_, _, _, _)
Scan(text, s, format, stored) ==
    LET Skip(from, Stop(_)) == CHOOSE k \in from .. Len(text) + 1 :
                                  (k > Len(text) \/ Stop(text[k])) /\ \A i \in from .. k - 1 : ~Stop(text[i])
        item == Head(format)
        at   == Skip(s, LAMBDA c : ~IsSpace(c))
    IN IF s > Len(text) \/ format = <<>> THEN stored
       ELSE IF item[1] = "char"
            THEN LET k == Skip(s, LAMBDA c : c = item[2]) IN Scan(text, IF k > Len(text) THEN k ELSE k + 1, Tail(format), stored)
       ELSE IF item[1] = "c" THEN Scan(text, at + 1, Tail(format), Append(stored, IF at > Len(text) THEN 0 ELSE text[at]))
       ELSE LET r == strtol(text, at, IF item[1] = "d" THEN 10 ELSE 16)
            IN Scan(text, r[2], Tail(format), Append(stored, r[1]))
sscanf(text, format) == Scan(text, 1, format, <<>>)

(* qsort and bsearch for a comparison that subtracts.                        *)
QsortSwap(base, left, right) == [base EXCEPT ![left] = base[right], ![right] = base[left]]
\* Mutant: the last element is left out.
Partition_short(base, left, right) ==
    FoldLeft(LAMBDA p, i : IF p[1][i] < p[1][left] THEN <<QsortSwap(p[1], p[2] + 1, i), p[2] + 1>> ELSE p,
             <<QsortSwap(base, left, (left + right) \div 2), left>>, [i \in 1 .. right - left - 1 |-> left + i])

\* The loop of qsort2: <<array, last>>.
Partition(base, left, right) ==
    FoldLeft(LAMBDA p, i : IF p[1][i] < p[1][left] THEN <<QsortSwap(p[1], p[2] + 1, i), p[2] + 1>> ELSE p,
             <<QsortSwap(base, left, (left + right) \div 2), left>>, [i \in 1 .. right - left |-> left + i])

RECURSIVE qsort2(_, _, _)
qsort2(base, left, right) ==
    IF left >= right THEN base
    ELSE LET p == Partition(base, left, right)
             placed == QsortSwap(p[1], left, p[2])
         IN qsort2(qsort2(placed, left, p[2] - 1), p[2] + 1, right)
qsort(base) == qsort2(base, 1, Len(base))

\* The position found, or 0 for NULL.
RECURSIVE Search(_, _, _, _)
Search(key, base, low, high) ==
    LET mid == (low + high) \div 2
    IN IF low > high THEN 0
       ELSE IF key < base[mid] THEN Search(key, base, low, mid - 1)
       ELSE IF key > base[mid] THEN Search(key, base, mid + 1, high) ELSE mid
bsearch(key, base) == Search(key, base, 1, Len(base))

-----------------------------------------------------------------------------
(***************************************************************************)
(* time.h of trunk/kernel/libc.c: seconds from the start of 1980 and dates *)
(* made of them. tm_mon counts from 0, tm_year from 1900, tm_wday from     *)
(* Sunday. Times of 31 bits: up to 2047.                                   *)
(***************************************************************************)

DAY  == 24 * 60 * 60
YEAR == 365 * DAY
DaysUntilMonth == <<0, 31, 59, 90, 120, 151, 181, 212, 243, 273, 304, 334, 365>>
DaysInMonth    == <<31, 28, 31, 30, 31, 30, 31, 31, 30, 31, 30, 31>>

IsLeapYear(year) == (year % 4 = 0 /\ year % 100 # 0) \/ year % 400 = 0
Leap(year) == IF IsLeapYear(year) THEN 1 ELSE 0

\* Mutant: a leap day counts from the start of its year.
LeapDays_early(tm) == LET last == 1900 + tm.year
                IN Len(SelectSeq([i \in 1 .. (last - 1976) \div 4 |-> 1976 + 4 * i], LAMBDA y : y % 100 # 0 \/ y % 400 = 0))

\* The loop over every fourth year; January and February belong to the year before.
LeapDays(tm) == LET last == 1900 + tm.year - (IF tm.mon < 2 THEN 1 ELSE 0)
                IN Len(SelectSeq([i \in 1 .. (last - 1976) \div 4 |-> 1976 + 4 * i], LAMBDA y : y % 100 # 0 \/ y % 400 = 0))
mktime(tm) ==
    LET days == tm.mday - 1 + DaysUntilMonth[tm.mon + 1] + 365 * (tm.year - 80)
    IN tm.sec + 60 * (tm.min + 60 * (tm.hour + 24 * days)) - (IF tm.isdst THEN 3600 ELSE 0) + LeapDays(tm) * DAY

\* The two loops of gmtime_r: <<years or months, what is left of the seconds>>.
RECURSIVE Years(_, _), Months(_, _, _)
Years(year, seconds) ==
    LET delta == YEAR + Leap(1980 + year) * DAY
    IN IF seconds >= delta THEN Years(year + 1, seconds - delta) ELSE <<year, seconds>>
Months(year, month, seconds) ==
    LET delta == DAY * (DaysInMonth[month + 1] + IF month = 1 THEN Leap(1980 + year) ELSE 0)
    IN IF seconds >= delta THEN Months(year, month + 1, seconds - delta) ELSE <<month, seconds>>

\* dst = <<DstTimeIn, DstTimeOut>>
gmtime_r(t, dst) ==
    LET isdst   == dst[1] <= t /\ t < dst[2]
        seconds == IF isdst THEN t + 3600 ELSE t
        y    == Years(0, seconds)
        m    == Months(y[1], 0, y[2])
        left == m[2] % DAY
    IN [year |-> y[1] + 80, yday |-> y[2] \div DAY, mon |-> m[1], mday |-> (m[2] \div DAY) + 1,
        hour |-> left \div 3600, min |-> (left % 3600) \div 60, sec |-> left % 60,
        wday |-> (((seconds % (DAY * 7)) \div DAY) + 2) % 7, isdst |-> isdst]

NoDst == <<0, 0>>
FirstAtTwo(year, mon) ==
    mktime([year |-> year, mon |-> mon, mday |-> 1, hour |-> 2, min |-> 0, sec |-> 0, isdst |-> FALSE])

\* Mutant: the days are counted to the Monday.
DaysToSunday_late(t) == 8 - gmtime_r(t, NoDst).wday

DaysToSunday(t) == 7 - gmtime_r(t, NoDst).wday
\* From the Sunday after the first week of March to the Sunday after the first of November.
gmtimeDstSet(t) ==
    LET year  == gmtime_r(t, NoDst).year
        march == FirstAtTwo(year, 2)
        november == FirstAtTwo(year, 10)
    IN <<march + (DaysToSunday(march) + 7) * DAY, november + DaysToSunday(november) * DAY>>

-----------------------------------------------------------------------------
(***************************************************************************)
(* The checksum of IP (trunk/kernel/tcpip.c) and the CRC of Ethernet       *)
(* (trunk/kernel/ethernet.c). A packet is the record of its parts; a word  *)
(* of the CRC is the set of its bits that are set, of CrcBits bits.        *)
(***************************************************************************)

Bytes(word) == <<word \div 256, word % 256>>
ByteAt(data, i) == IF i <= Len(data) THEN data[i] ELSE 0
RECURSIVE Folded(_)
Folded(sum) == IF sum > 65535 THEN Folded((sum % 65536) + (sum \div 65536)) ELSE sum

\* Mutant: the last byte of an odd length is left out.
IPChecksum_even(checksum, data) ==
    65535 - Folded(FoldLeft(LAMBDA sum, i : sum + 256 * data[2 * i - 1] + data[2 * i], 65535 - checksum, [i \in 1 .. Len(data) \div 2 |-> i]))

\* The sum goes on from that of an earlier part.
IPChecksum(checksum, data) ==
    65535 - Folded(FoldLeft(LAMBDA sum, i : sum + 256 * data[2 * i - 1] + ByteAt(data, 2 * i),
                            65535 - checksum, [i \in 1 .. (Len(data) + 1) \div 2 |-> i]))

(* packet.head: the header of IP, whose checksum is in head[11..12]; body:  *)
(* what follows it, whose checksum is at SumAt(protocol) and the next byte. *)
(* The lengths in the headers are those of the parts.                       *)
PING == 1
UDP  == 17
TCP  == 6
SumAt(protocol) == CASE protocol = PING -> 3 [] protocol = UDP -> 7 [] protocol = TCP -> 17
Pseudo(p) == SubSeq(p.head, 13, 20) \o <<0, p.protocol>> \o Bytes(Len(p.body))
Start(p)  == IF p.protocol = PING THEN 65535 ELSE IPChecksum(65535, Pseudo(p))
Set(data, at, word) == [data EXCEPT ![at] = Bytes(word)[1], ![at + 1] = Bytes(word)[2]]

\* IPSendPacket.
Filled(p) ==
    LET at   == SumAt(p.protocol)
        head == Set(p.head, 11, 0)
        body == Set(p.body, at, 0)
    IN [p EXCEPT !.head = Set(head, 11, IPChecksum(65535, head)), !.body = Set(body, at, IPChecksum(Start(p), body))]

EthernetVerifyChecksums(p) ==
    /\ IPChecksum(65535, p.head) = 0
    /\ (p.protocol = UDP /\ p.body[7] = 0 /\ p.body[8] = 0) \/ IPChecksum(Start(p), p.body) = 0

CrcBits == 32
POLYNOMIAL == {0, 1, 2, 4, 5, 7, 8, 10, 11, 12, 16, 22, 23, 26}
Xor(a, b) == (a \ b) \union (b \ a)
ShiftUp(a, n) == {i + n : i \in a} \ (CrcBits .. CrcBits + n - 1)
Bits(byte)  == {i \in 0 .. 7 : (byte \div 2 ^ i) % 2 = 1}
Reflect(a, bits) == {bits - 1 - i : i \in a}

\* Mutant: the top bit is lost before it is looked at.
Divided_late(remainder, bit) == IF CrcBits - 2 \in remainder THEN Xor(ShiftUp(remainder, 1), POLYNOMIAL) ELSE ShiftUp(remainder, 1)
Divided(remainder, bit) == IF CrcBits - 1 \in remainder THEN Xor(ShiftUp(remainder, 1), POLYNOMIAL) ELSE ShiftUp(remainder, 1)
CrcTable(dividend) == FoldLeft(Divided, ShiftUp(dividend, CrcBits - 8), [bit \in 1 .. 8 |-> bit])

\* reflect[byte] ^ (crc >> 24), then CrcTable[byte] ^ (crc << 8).
CrcNext(crc, byte) ==
    Xor(CrcTable(Xor(Reflect(Bits(byte), 8), {i - (CrcBits - 8) : i \in crc \cap (CrcBits - 8 .. CrcBits - 1)})), ShiftUp(crc, 8))
Crc(data) == FoldLeft(CrcNext, 0 .. CrcBits - 1, data)

\* reflectNibble of the byte number i of the CRC, from the top: each half turned round and inverted.
Nibble(crc, i, half) == LET low == CrcBits - 8 * i + (IF half = "high" THEN 4 ELSE 0)
                        IN (0 .. 3) \ Reflect({b - low : b \in crc \cap (low .. low + 3)}, 4)
CrcByte(crc, i) == Nibble(crc, i, "low") \union {b + 4 : b \in Nibble(crc, i, "high")}
\* The bytes behind a frame, halves swapped on the line as all others are.
Trailer(data) == [i \in 1 .. 4 |-> CrcByte(Crc(data), i)]
=============================================================================
