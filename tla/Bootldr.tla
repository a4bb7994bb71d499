------------------------------- MODULE Bootldr -------------------------------
(* The boot loader of the Plasma board (tools/bootldr.c) and the command      *)
(* "reboot" of the kernel (netutil.c), which both copy an image to the flash  *)
(* and start one. A key is its character code, a byte a number, a half word   *)
(* of the flash two bytes. Memory that is no RAM is not looked at; the board  *)
(* may be reset at any time, also in the middle of an erasure.                *)
EXTENDS Integers, Sequences, SequencesExt, FiniteSetsExt

CONSTANTS
    WORD_BYTES,     \* bytes of an unsigned long: 4
    MAX_DIGITS,     \* keys of getnum: 16
    RAM_BASE,       \* RAM_EXTERNAL_BASE
    IMAGE,          \* bytes that are copied to the flash: 128 * 1024
    UPLOAD,         \* bytes that an upload may have: 1024 * 1024
    PASSWORD,       \* 0x12345678
    Numbers,        \* what is typed for a number: sequences of keys
    Images,         \* files of "reboot" and what is uploaded: sequences of bytes
    MaxSteps, MaxResets    \* bounds: commands of the menu, resets

VARIABLE boot

Digits == 2 * WORD_BYTES                \* hex digits of a word
WORD   == 16 ^ Digits
Erased == <<255, 255>>
MAGIC  == <<60, 28>>                    \* 0x3c1c
NONE   == <<>>

\* at: the step of the program; from: what is copied to the flash, after: the
\* step that follows; sent: the bytes of an upload; ran: what was started last.
\* History: meant is the image whose copy was asked for, whole the one that the
\* last copy was meant to leave in the flash, if that ran to its end.
NewBoot(switch, flash) == [
    at |-> "start", switch |-> switch, ram |-> [a \in 0..UPLOAD - 1 |-> 0],
    flash |-> flash, whole |-> NONE, meant |-> NONE, from |-> NONE, after |-> "start", i |-> 0,
    sent |-> NONE, number |-> [value |-> 0, most |-> 0, shown |-> NONE],
    ran |-> [by |-> "nobody", image |-> NONE, whole |-> NONE, sent |-> NONE], steps |-> 0, resets |-> 0]

-----------------------------------------------------------------------------
(* Numbers *)

\* The value of a key, which for a key that is no letter and no digit is its code
Value(ch) == CASE ch \in 48..57  -> ch - 48
               [] ch \in 65..90  -> ch - 55
               [] ch \in 97..122 -> ch - 87
               [] OTHER          -> ch

NEWLINE == {10, 13}
BACKSPACE == 8

\* A digit of a number; most: how many digits there were at once.
Digit(n, ch) == [value |-> (16 * n.value + Value(ch)) % WORD, most |-> Max({n.most, Len(n.shown) + 1}),
                 shown |-> Append(n.shown, ch)]
Less(shown) == IF shown = NONE THEN NONE ELSE Front(shown)

\* A key of getnum: a backspace takes the last digit back.
Key(n, ch) ==
    IF ch # BACKSPACE THEN Digit(n, ch) ELSE [n EXCEPT !.value = @ \div 16, !.shown = Less(@)]

\* It ends with the line or with the last digit that it takes.
getnum(keys) ==
    FoldLeft(LAMBDA n, ch : IF ch \in NEWLINE \/ Len(n.shown) = MAX_DIGITS THEN n ELSE Key(n, ch),
             [value |-> 0, most |-> 0, shown |-> NONE], keys)

\* The digits of a word
xtoa(num) == [d \in 1..Digits |-> (num \div 16 ^ (Digits - d)) % 16]

-----------------------------------------------------------------------------
(* Memory; addresses are those of the RAM. *)

IsRam(address, n) == RAM_BASE <= address /\ address + n <= RAM_BASE + UPLOAD
Byte(x, address) == x.ram[address - RAM_BASE]
BytesOf(x, address, n) == [k \in 1..n |-> Byte(x, address + k - 1)]

Write(x, address, bytes) ==
    [x EXCEPT !.ram = [a \in DOMAIN @ |-> LET k == a + RAM_BASE - address + 1
                                          IN  IF k \in DOMAIN bytes THEN bytes[k] ELSE @[a]]]
MemoryWrite(x, address, value) ==
    Write(x, address, [k \in 1..WORD_BYTES |-> (value \div 256 ^ (WORD_BYTES - k)) % 256])

\* What is started is what is there.
Jump(x, by) == [x EXCEPT !.at = "running",
                         !.ran = [by |-> by, image |-> x.ram, whole |-> x.whole, sent |-> x.sent]]

-----------------------------------------------------------------------------
(* The flash *)

Half(bytes, k) == <<bytes[2 * k + 1], bytes[2 * k + 2]>>
FlashRead(x) == Write(x, RAM_BASE, [k \in 1..IMAGE |-> x.flash[(k - 1) \div 2][((k - 1) % 2) + 1]])

\* Writing clears bits: of what was not erased, something else is left.
FlashWrite(x, k) == [x EXCEPT !.flash[k] = IF @ = Erased THEN Half(x.from, k) ELSE <<0, 0>>]

Copy(x, bytes, after) == [x EXCEPT !.at = "erase", !.from = bytes, !.after = after]
Meant(x, image) == [x EXCEPT !.meant = image]

\* FlashErase: the command, and its end
EraseBegins == boot.at = "erase" /\ boot' = [boot EXCEPT !.at = "erasing", !.whole = NONE]
EraseEnds ==
    /\ boot.at = "erasing"
    /\ boot' = [boot EXCEPT !.at = "write", !.i = 0, !.flash = [k \in DOMAIN @ |-> Erased]]

Written(x) == [x EXCEPT !.at = x.after, !.whole = x.meant, !.from = NONE, !.i = 0]

\* Mutant: the last half word is left out.
FlashWrites_short ==
    /\ boot.at = "write"
    /\ boot' = IF 2 * (boot.i + 1) < Len(boot.from) THEN [FlashWrite(boot, boot.i) EXCEPT !.i = @ + 1]
               ELSE Written(boot)

\* One half word after the other.
FlashWrites ==
    /\ boot.at = "write"
    /\ boot' = IF 2 * boot.i < Len(boot.from) THEN [FlashWrite(boot, boot.i) EXCEPT !.i = @ + 1]
               ELSE Written(boot)

-----------------------------------------------------------------------------
(* The boot loader *)

Boots ==
    /\ boot.at = "start"
    /\ boot' = IF boot.switch /\ boot.flash[0] = MAGIC THEN Jump(FlashRead(boot), "flash")
               ELSE [boot EXCEPT !.at = "menu"]

\* A command of the menu with its address and the second number, if it asks for
\* one; those that only show something leave everything as it is.
Chosen(x, c, address, n) ==
    CASE c = 2 -> MemoryWrite(x, address, n)
      [] c = 4 -> Write(x, address, <<n % 256>>)
      [] c = 5 -> Jump(x, "menu")
      [] c \in {0, 1, 3, 6, 8, 9} -> x

Reaches(c, address, n) ==
    /\ c \in {1, 2, 9} => address % WORD_BYTES = 0
    /\ IsRam(address, CASE c \in {6, 8} -> n [] c = 9 -> n + WORD_BYTES [] c \in {1, 2} -> WORD_BYTES [] OTHER -> 1)

Step(x) == [x EXCEPT !.steps = @ + 1]
AtMenu == boot.at = "menu" /\ boot.steps < MaxSteps

Menu == \E c \in 0..9 \ {7}, first, second \in Numbers :
    LET address == getnum(first).value
        n       == IF c \in {2, 4, 6, 8, 9} THEN getnum(second) ELSE getnum(first)
    IN  /\ AtMenu /\ Reaches(c, address, n.value)
        /\ boot' = [Chosen(Step(boot), c, address, n.value) EXCEPT !.number = n]

\* Raw memory write: the bytes that follow go to the memory.
MenuRawWrite == \E first \in Numbers, bytes \in Images :
    LET n == getnum(first) IN
    /\ AtMenu /\ IsRam(n.value, Len(bytes))
    /\ boot' = [Write(Step(boot), n.value, bytes) EXCEPT !.number = n]

\* The image in the RAM goes to the flash, after a confirmation.
MenuCopy == \E keys \in Numbers :
    LET n == getnum(keys)
        x == [Step(boot) EXCEPT !.number = n]
    IN  /\ AtMenu
        /\ boot' = IF n.value = PASSWORD THEN Meant(Copy(x, BytesOf(x, RAM_BASE, IMAGE), "menu"), [k \in 1..IMAGE |-> x.ram[k - 1]])
                  ELSE x

\* The first byte of an image is a command, which stores it.
MenuUpload == \E image \in Images :
    /\ AtMenu /\ image[1] = MAGIC[1]
    /\ boot' = [Write(Step(boot), RAM_BASE, <<image[1]>>) EXCEPT !.at = "upload", !.from = image, !.i = 1, !.sent = <<image[1]>>]

\* One more byte comes in time; the one after the last that fits is dropped.
UploadByte ==
    /\ boot.at = "upload" /\ boot.i < Len(boot.from)
    /\ LET b == boot.from[boot.i + 1]
           x == [boot EXCEPT !.i = @ + 1, !.sent = Append(@, b)]
       IN  boot' = IF boot.i < UPLOAD THEN Write(x, RAM_BASE + boot.i, <<b>>) ELSE Jump(x, "upload")

\* kbhit says no 10000 times: what came is started, also when more was to come.
UploadEnds == boot.at = "upload" /\ boot' = Jump(boot, "upload")

-----------------------------------------------------------------------------
(* The kernel that was started: ConsoleReboot *)

RebootToFlash == \E file \in Images :
    /\ boot.at = "running" /\ boot.resets < MaxResets
    /\ Len(file) % 2 = 0 /\ Len(file) <= IMAGE
    /\ boot' = [Meant(Copy(boot, file, "start"), file) EXCEPT !.resets = @ + 1]

\* Its first bytes, as many as there is memory for, replace the kernel.
FirstOf(file) == SubSeq(file, 1, Min({Len(file), IMAGE}))
RebootToFile == \E file \in Images :
    /\ boot.at = "running" /\ boot.resets < MaxResets
    /\ LET x == [boot EXCEPT !.sent = FirstOf(file), !.resets = @ + 1]
       IN  boot' = Jump(Write(x, RAM_BASE, FirstOf(file)), "file")

\* "reboot" alone and a reset of the board; in an erasure a part of the flash is erased.
Reset ==
    /\ boot.resets < MaxResets
    /\ \E part \in SUBSET DOMAIN boot.flash :
          /\ boot.at # "erasing" => part = {}
          /\ boot' = [boot EXCEPT !.at = "start", !.resets = @ + 1, !.from = NONE, !.sent = NONE, !.i = 0,
                                  !.flash = [k \in DOMAIN @ |-> IF k \in part THEN Erased ELSE @[k]]]

BootInit == \E switch \in BOOLEAN, image \in Images \union {NONE} :
    /\ Len(image) \in {0, IMAGE}
    /\ boot = NewBoot(switch, [k \in 0..IMAGE \div 2 - 1 |-> IF image = NONE THEN Erased ELSE Half(image, k)])
BootNext == \/ Boots \/ Menu \/ MenuRawWrite \/ MenuCopy \/ MenuUpload \/ UploadByte \/ UploadEnds
            \/ EraseBegins \/ EraseEnds \/ FlashWrites \/ RebootToFlash \/ RebootToFile \/ Reset

-----------------------------------------------------------------------------
(* Properties *)

\* What is started from the flash is the image of the last copy, as it was in the
\* RAM or the file when the copy was asked for, unless a reset broke it off; what
\* is started after an upload is what was sent (main, FlashRead, FlashWrite).
ImagesRight ==
    LET ran == boot.ran IN
    /\ ran.by = "flash" /\ ran.whole # NONE =>
          \A k \in DOMAIN ran.whole : ran.image[k - 1] = ran.whole[k]
    /\ ran.by \in {"upload", "file"} =>
          \A k \in DOMAIN ran.sent : k <= UPLOAD => ran.image[k - 1] = ran.sent[k]

\* A number of digits that fit a word is the one that the terminal shows, after
\* any backspaces (getnum).
NumbersRight ==
    LET n == boot.number IN
    n.most <= Digits /\ (\A d \in DOMAIN n.shown : Value(n.shown[d]) < 16)
        => xtoa(n.value) = [d \in 1..Digits |-> LET k == d - Digits + Len(n.shown) IN IF k < 1 THEN 0 ELSE Value(n.shown[k])]
=============================================================================
