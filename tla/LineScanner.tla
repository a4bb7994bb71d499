----------------------------- MODULE LineScanner -----------------------------
(***************************************************************************)
(* PureJavaSensor.checkJavaRules() on one source file: it reads the file    *)
(* line by line and each line word by word, with a handful of flags for     *)
(* where it is - header, comment, declaration, use clause - and raises the  *)
(* issues of the rules whose Engine is Java.  Of a line the model knows its *)
(* words, the header rules whose format it matches, whether it begins with  *)
(* a tabulation, and what it says in VHDL.  The language check (STD_02700), *)
(* which looks at the same lines with variables of its own, is left out.    *)
(***************************************************************************)
EXTENDS Naturals, Sequences, FiniteSets

CONSTANTS
    Words,      \* the words of these lines, with the marks they carry
    Lines,      \* the lines a file may consist of
    Profiles,   \* sets of active rules
    MaxLines,   \* bound: lines of the file
    CommentLimit, SizeLimit   \* parameters of STD_02800 and CNE_02700

HeaderRules == {"STD_02200", "STD_02300", "STD_02500", "CNE_02800"}

\* The rules on a single word.
WordRules == [procedure |-> "STD_06900", function |-> "STD_06900",
              buffer |-> "STD_03300", wait |-> "STD_06700",
              std_logic_arith |-> "STD_02600"]

Rules == HeaderRules \cup {WordRules[w] : w \in DOMAIN WordRules}
         \cup {"CNE_00300", "STD_06000", "STD_06100", "STD_05400", "CNE_05400",
               "STD_02000", "STD_02800", "CNE_02700"}

\* What delimits comments and strings.  A word is what the scanner splits a line
\* into, at blanks and at ; , . ( ): it may begin with a mark, hold one and end
\* with one.
Marks == {"", "--", "/*", "*/", "quote"}

\* What the scanner looks for: only at the beginning or the end of a word.
StartsLine(w)  == w.first = "--"
StartsBlock(w) == w.first = "/*"
EndsBlock(w)   == w.last = "*/"

\* VHDL instead reads mark after mark, wherever it stands.
ReadMark(s, m) ==
    CASE s = "code" /\ m = "--"      -> "line"
      [] s = "code" /\ m = "/*"      -> "block"
      [] s = "code" /\ m = "quote"   -> "string"
      [] s = "block" /\ m = "*/"     -> "code"
      [] s = "string" /\ m = "quote" -> "code"
      [] OTHER -> s

NotAPackageName == {"all", "std", "ieee"}

ASSUME WordsAssumption ==
    Words \subseteq [text : STRING, first : Marks, inner : Marks, last : Marks]
ASSUME LinesAssumption == \A l \in Lines : l.words \in Seq(Words)
ASSUME ProfilesAssumption == Profiles \subseteq SUBSET Rules
ASSUME BoundAssumption == MaxLines \in Nat

VARIABLES
    file,       \* the lines of the file
    rules,      \* the active rules
    isTop,      \* inTopFile
    pc,         \* "open", "read", "words", "done", "failed"
    lineNumber,
    word,       \* the next word of the line
    commentedLines,
    inBlockComment, inHeader, inComment, emptyLine,
    arrayDeclaration, stdDeclaration, packageDeclaration, useClause1,
    inPackageFile,
    vhdlPackage,    \* its name ("" at first) and the packages it uses
    unmatched,      \* header rules no line has matched (std2200issue, ...)
    cne300Issue,
    issues,
    real,           \* history: what the scanned text is in VHDL
    commented,      \* history: the lines with a comment in VHDL
    misread         \* history: the lines with a mark the scanner takes wrongly

input == <<file, rules, isTop>>
flags == <<arrayDeclaration, stdDeclaration, packageDeclaration, useClause1,
           inPackageFile, vhdlPackage, cne300Issue>>
vars  == <<input, pc, lineNumber, word, commentedLines, inBlockComment, inHeader,
           inComment, emptyLine, flags, unmatched, issues, real, commented, misread>>

-----------------------------------------------------------------------------
TypeOK ==
    /\ file \in Seq(Lines)
    /\ rules \in Profiles
    /\ isTop \in BOOLEAN
    /\ pc \in {"open", "read", "words", "done", "failed"}
    /\ lineNumber \in 0 .. Len(file)
    /\ pc = "words" => lineNumber # 0
    /\ pc = "words" => word \in 1 .. Len(file[lineNumber].words) + 1
    /\ commentedLines \in Nat
    /\ inBlockComment \in BOOLEAN /\ inHeader \in BOOLEAN
    /\ inComment \in BOOLEAN /\ emptyLine \in BOOLEAN
    /\ arrayDeclaration \in BOOLEAN /\ stdDeclaration \in BOOLEAN
    /\ packageDeclaration \in BOOLEAN /\ useClause1 \in BOOLEAN
    /\ inPackageFile \in BOOLEAN /\ cne300Issue \in BOOLEAN
    /\ unmatched \subseteq HeaderRules
    /\ \A i \in issues : i.rule \in rules /\ i.line \in 0 .. lineNumber
    /\ real \in {"code", "line", "block", "string"}
    /\ commented \subseteq 1 .. lineNumber
    /\ misread \subseteq 1 .. lineNumber

Init ==
    /\ file \in UNION {[1 .. k -> Lines] : k \in 0 .. MaxLines}
    /\ rules \in Profiles
    /\ isTop \in BOOLEAN
    /\ pc = "open"
    /\ lineNumber = 0 /\ word = 1 /\ commentedLines = 0
    /\ inBlockComment = FALSE /\ inHeader = TRUE
    /\ inComment = FALSE /\ emptyLine = TRUE
    /\ arrayDeclaration = FALSE /\ stdDeclaration = FALSE
    /\ packageDeclaration = FALSE /\ useClause1 = FALSE /\ inPackageFile = FALSE
    /\ vhdlPackage = [name |-> "", uses |-> {}]
    /\ unmatched = HeaderRules
    /\ cne300Issue = FALSE
    /\ issues = {}
    /\ real = "code" /\ commented = {} /\ misread = {}

\* An issue on the file as a whole has line 0.
OnFile(R) == {[rule |-> r, line |-> 0] : r \in R}

\* The formats of the active header rules are read; that of STD_02500 is, if
\* STD_02300 is active: from null if STD_02500 is not (NullPointerException).
Open ==
    /\ pc = "open"
    /\ pc' = IF "STD_02300" \in rules /\ "STD_02500" \notin rules THEN "failed" ELSE "read"
    /\ UNCHANGED <<input, lineNumber, word, commentedLines, inBlockComment, inHeader,
                   inComment, emptyLine, flags, unmatched, issues, real, commented, misread>>

\* The rules whose format is known.
Formats == IF "STD_02300" \in rules THEN HeaderRules \cap rules
           ELSE (HeaderRules \cap rules) \ {"STD_02500"}

\* Mutant: only lines on which a comment begins are counted.
NextLine_uncounted ==
    /\ pc = "read" /\ lineNumber < Len(file)
    /\ lineNumber' = lineNumber + 1
    /\ unmatched' = IF inHeader THEN unmatched \ (file[lineNumber'].info \cap Formats)
                    ELSE unmatched
    /\ inComment' = FALSE /\ emptyLine' = TRUE
    /\ word' = 1
    /\ pc' = "words"
    /\ real' = IF real \in {"line", "string"} THEN "code" ELSE real
    /\ commented' = IF real = "block" THEN commented \cup {lineNumber'} ELSE commented
    /\ UNCHANGED <<input, commentedLines, inHeader, inBlockComment, flags, issues, misread>>

\* Mutant: the header is the file.
NextLine_allHeader ==
    /\ pc = "read" /\ lineNumber < Len(file)
    /\ lineNumber' = lineNumber + 1
    /\ commentedLines' = IF inBlockComment THEN commentedLines + 1 ELSE commentedLines
    /\ unmatched' = unmatched \ (file[lineNumber'].info \cap Formats)
    /\ inComment' = FALSE /\ emptyLine' = TRUE
    /\ word' = 1
    /\ pc' = "words"
    /\ real' = IF real \in {"line", "string"} THEN "code" ELSE real
    /\ commented' = IF real = "block" THEN commented \cup {lineNumber'} ELSE commented
    /\ UNCHANGED <<input, inHeader, inBlockComment, flags, issues, misread>>

\* The next line: it counts if it is in a block comment; if it is in the
\* header, it is matched against the formats as a whole.
NextLine ==
    /\ pc = "read" /\ lineNumber < Len(file)
    /\ lineNumber' = lineNumber + 1
    /\ commentedLines' = IF inBlockComment THEN commentedLines + 1 ELSE commentedLines
    /\ unmatched' = IF inHeader THEN unmatched \ (file[lineNumber'].info \cap Formats)
                    ELSE unmatched
    /\ inComment' = FALSE /\ emptyLine' = TRUE
    /\ word' = 1
    /\ pc' = "words"
    /\ real' = IF real \in {"line", "string"} THEN "code" ELSE real
    /\ commented' = IF real = "block" THEN commented \cup {lineNumber'} ELSE commented
    /\ UNCHANGED <<input, inHeader, inBlockComment, flags, issues, misread>>

-----------------------------------------------------------------------------
(* The words of a line.                                                     *)
HasWord == pc = "words" /\ word <= Len(file[lineNumber].words)
Word == file[lineNumber].words[word]

\* What the marks of the word make of the text in VHDL.  The scanner takes one
\* wrongly if a comment begins inside a word or "--" stands in a string.
RealStep ==
    LET begun == ReadMark(real, Word.first)
        held  == ReadMark(begun, Word.inner)
        ended == ReadMark(held, Word.last)
    IN  /\ real' = ended
        /\ commented' = IF {real, begun, held, ended} \cap {"line", "block"} # {}
                        THEN commented \cup {lineNumber} ELSE commented
        /\ misread' = IF \/ begun = "code" /\ Word.inner \in {"--", "/*"}
                         \/ held = "code" /\ Word.last \in {"--", "/*"}
                         \/ real = "string" /\ StartsLine(Word)
                      THEN misread \cup {lineNumber} ELSE misread

\* Every word that is not behind "--" ends an empty line; the first "library"
\* among them ends the header.
WordStep ==
    /\ HasWord
    /\ word' = word + 1
    /\ RealStep
    /\ UNCHANGED <<input, pc, lineNumber, unmatched>>

SeenStep ==
    /\ ~inComment
    /\ WordStep
    /\ emptyLine' = FALSE
    /\ inHeader' = (inHeader /\ Word.text # "library")

CommentWord ==
    /\ inComment
    /\ WordStep
    /\ UNCHANGED <<commentedLines, inBlockComment, inHeader, inComment, emptyLine,
                   flags, issues>>

LineCommentBegins ==
    /\ SeenStep
    /\ StartsLine(Word)
    /\ inComment' = TRUE
    /\ commentedLines' = commentedLines + 1
    /\ UNCHANGED <<inBlockComment, flags, issues>>

BlockCommentBegins ==
    /\ SeenStep
    /\ StartsBlock(Word)
    /\ inBlockComment' = TRUE
    /\ commentedLines' = commentedLines + 1
    /\ UNCHANGED <<inComment, flags, issues>>

BlockCommentEnds ==
    /\ SeenStep
    /\ EndsBlock(Word) /\ ~StartsBlock(Word) /\ ~StartsLine(Word)
    /\ inBlockComment' = FALSE
    /\ UNCHANGED <<inComment, commentedLines, flags, issues>>

Marked == StartsLine(Word) \/ StartsBlock(Word) \/ EndsBlock(Word)

BlockCommentWord ==
    /\ SeenStep
    /\ ~Marked /\ inBlockComment
    /\ UNCHANGED <<inBlockComment, inComment, commentedLines, flags, issues>>

\* Mutant: the word after a range's direction is looked at.
Found_reset ==
    {r \in rules :
        \/ Word.text \in DOMAIN WordRules /\ r = WordRules[Word.text]
        \/ r = "CNE_00300" /\ Word.text = "entity" /\ isTop /\ ~cne300Issue
        \/ r = "STD_06000" /\ Word.text = "downto" /\ arrayDeclaration /\ ~stdDeclaration
        \/ r = "STD_06100" /\ Word.text = "to" /\ stdDeclaration /\ ~arrayDeclaration
        \/ r = "STD_05400" /\ Word.text = "'Z'" /\ ~isTop}

\* The active rules this word violates.
Found ==
    {r \in rules :
        \/ Word.text \in DOMAIN WordRules /\ r = WordRules[Word.text]
        \/ r = "CNE_00300" /\ Word.text = "entity" /\ isTop /\ ~cne300Issue
        \/ r = "STD_06000" /\ Word.text = "downto" /\ arrayDeclaration
        \/ r = "STD_06100" /\ Word.text = "to" /\ stdDeclaration
        \/ r = "STD_05400" /\ Word.text = "'Z'" /\ ~isTop}

\* A word of code.  useClause2 is set and tested on the same word, so that the
\* word after "use" is taken and the one after it is not.
CodeWord ==
    /\ SeenStep
    /\ ~Marked /\ ~inBlockComment
    /\ issues' = issues \cup {[rule |-> r, line |-> lineNumber] : r \in Found}
    /\ cne300Issue' = (cne300Issue \/ "CNE_00300" \in Found)
    /\ arrayDeclaration' =
          /\ Word.text \notin {"to", "downto"}
          /\ arrayDeclaration \/ (Word.text = "array" /\ "STD_06000" \in rules)
    /\ stdDeclaration' =
          /\ Word.text \notin {"to", "downto"}
          /\ stdDeclaration \/ (Word.text = "std_logic_vector" /\ "STD_06100" \in rules)
    /\ vhdlPackage' =
          [name |-> IF packageDeclaration THEN Word.text ELSE vhdlPackage.name,
           uses |-> IF useClause1 /\ Word.text \notin NotAPackageName
                    THEN vhdlPackage.uses \cup {Word.text} ELSE vhdlPackage.uses]
    /\ packageDeclaration' = (Word.text = "package" /\ "CNE_05400" \in rules)
    /\ inPackageFile' = (inPackageFile \/ packageDeclaration')
    /\ useClause1' = (Word.text = "use" /\ "CNE_05400" \in rules /\ inPackageFile)
    /\ UNCHANGED <<commentedLines, inBlockComment, inComment>>

EndOfLine ==
    /\ pc = "words" /\ word = Len(file[lineNumber].words) + 1
    /\ issues' = IF ~emptyLine /\ file[lineNumber].tab /\ "STD_02000" \in rules
                 THEN issues \cup {[rule |-> "STD_02000", line |-> lineNumber]}
                 ELSE issues
    /\ pc' = "read"
    /\ UNCHANGED <<input, lineNumber, word, commentedLines, inBlockComment, inHeader,
                   inComment, emptyLine, flags, unmatched, real, commented, misread>>

Percent == (commentedLines * 100) \div lineNumber

\* The measures; the rules on them; the header rules that nothing matched.
EndOfFile ==
    /\ pc = "read" /\ lineNumber = Len(file)
    /\ issues' = issues \cup OnFile({r \in rules :
          \/ r = "STD_02800" /\ lineNumber # 0 /\ Percent > CommentLimit
          \/ r = "CNE_02700" /\ lineNumber > SizeLimit
          \/ r \in unmatched \cap Formats})
    /\ pc' = "done"
    /\ UNCHANGED <<input, lineNumber, word, commentedLines, inBlockComment, inHeader,
                   inComment, emptyLine, flags, unmatched, real, commented, misread>>

Finished == pc \in {"done", "failed"} /\ UNCHANGED vars

Next ==
    \/ Open \/ NextLine
    \/ CommentWord \/ LineCommentBegins \/ BlockCommentBegins \/ BlockCommentEnds
    \/ BlockCommentWord \/ CodeWord
    \/ EndOfLine \/ EndOfFile
    \/ Finished

Spec == Init /\ [][Next]_vars

-----------------------------------------------------------------------------
(* As long as no comment begins inside a word and no string holds a word     *)
(* that begins with "--", what is a comment in VHDL is taken for one: no word *)
(* of it raises an issue or names a package.                                 *)
CommentsAreSkipped ==
    misread = {} =>
        /\ real = "block" => inBlockComment
        /\ real = "line" => inComment

NoBlocks ==
    \A n \in DOMAIN file : \A j \in DOMAIN file[n].words :
        LET w == file[n].words[j]
        IN  {w.first, w.inner, w.last} \cap {"/*", "*/"} = {}

(* In such a file no line with a comment is left out of the measure, and     *)
(* without block comments none is counted twice.                             *)
CommentsNotMissed ==
    misread = {} =>
        /\ commentedLines >= Cardinality(commented)
        /\ NoBlocks => commentedLines = Cardinality(commented)

WordsOf(n) == {file[n].words[j].text : j \in DOMAIN file[n].words}
Bare(w) == w.first = "" /\ w.inner = "" /\ w.last = ""

(* In a file without block comments, a range in the wrong direction with no  *)
(* mark before it does not go unreported, whatever declarations and comments *)
(* precede it: an array's that runs down, and a vector's that runs up.       *)
RangeRules   == {"STD_06000", "STD_06100"}
Declared(r)  == IF r = "STD_06000" THEN "array" ELSE "std_logic_vector"
Direction(r) == IF r = "STD_06000" THEN "downto" ELSE "to"

\* The j-th word of a line declares what has its range at the k-th.
Misdirected(l, r, j, k) ==
    /\ j < k /\ l.words[j].text = Declared(r) /\ l.words[k].text = Direction(r)
    /\ \A i \in j + 1 .. k - 1 : l.words[i].text \notin {"to", "downto"}
    /\ \A i \in 1 .. k : Bare(l.words[i])

Wrong(l) == {r \in RangeRules : \E j, k \in DOMAIN l.words : Misdirected(l, r, j, k)}

RangesNotMissed ==
    pc = "done" /\ NoBlocks =>
        \A n \in DOMAIN file : \A r \in Wrong(file[n]) \cap rules :
            [rule |-> r, line |-> n] \in issues

(* A header rule is only satisfied by a line of the header: one that no line *)
(* up to the first library clause matches is reported.                       *)
BehindHeader(r) ==
    \A n \in DOMAIN file :
        r \in file[n].info =>
            \E k \in 1 .. n - 1 :
                /\ "library" \in WordsOf(k) /\ k \notin commented
                /\ \A j \in DOMAIN file[k].words : Bare(file[k].words[j])

HeaderNotMissed ==
    pc = "done" =>
        \A r \in Formats : BehindHeader(r) => [rule |-> r, line |-> 0] \in issues

(* Neither what a line says nor what the header lacks goes unreported        *)
(* (checkJavaRules).                                                         *)
RulesNotMissed == CommentsAreSkipped /\ RangesNotMissed /\ HeaderNotMissed
=============================================================================
