-------------------------- MODULE LineScanner_proofs --------------------------
(***************************************************************************)
(* Proofs about LineScanner, for every set of lines, profile and limit:     *)
(* what the scan may hold; that, unless a comment begins inside a word or a  *)
(* string holds "--", no word of a comment is taken for code and no line     *)
(* with a comment is left out of the measure; and that neither a range in    *)
(* the wrong direction nor a header rule that nothing in the header matches  *)
(* goes unreported.                                                          *)
(***************************************************************************)
EXTENDS LineScanner, SequenceTheorems, FiniteSetTheorems, TLAPS

-----------------------------------------------------------------------------
(* The lines of a file and their words.                                     *)

LEMMA FileOfLines ==
  ASSUME Init
  PROVE  file \in Seq(Lines)
<1>1. PICK k \in 0 .. MaxLines : file \in [1 .. k -> Lines]  BY DEF Init
<1>2. k \in Nat  BY BoundAssumption
<1> QED  BY ONLY <1>1, <1>2, SeqDef

LEMMA LineOfFile ==
  ASSUME file \in Seq(Lines), NEW n \in 1 .. Len(file)
  PROVE  /\ file[n] \in Lines
         /\ file[n].words \in Seq(Words)
         /\ Len(file[n].words) \in Nat
<1>1. file[n] \in Lines  BY ElementOfSeq
<1>2. file[n].words \in Seq(Words)  BY <1>1, LinesAssumption
<1> QED  BY <1>1, <1>2, LenProperties

LEMMA InitTypeOK == Init => TypeOK
<1> SUFFICES ASSUME Init PROVE TypeOK  OBVIOUS
<1>1. file \in Seq(Lines)  BY FileOfLines
<1>2. Len(file) \in Nat  BY <1>1, LenProperties
<1>3. lineNumber = 0 /\ commentedLines = 0  BY DEF Init
<1>4. lineNumber \in 0 .. Len(file) /\ commentedLines \in Nat  BY <1>2, <1>3
<1>5. (\A i \in issues : i.rule \in rules /\ i.line \in 0 .. lineNumber)
      /\ commented \subseteq 1 .. lineNumber /\ misread \subseteq 1 .. lineNumber
  BY DEF Init
<1>6. pc = "open" /\ real = "code"  BY DEF Init
<1>7. pc \in {"open", "read", "words", "done", "failed"} /\ pc # "words"
      /\ real \in {"code", "line", "block", "string"}
  BY <1>6
<1> QED  BY <1>1, <1>4, <1>5, <1>7 DEF Init, TypeOK

-----------------------------------------------------------------------------
(* The words of a line leave the types alone.                               *)

LEMMA WordStepTypes ==
  ASSUME TypeOK, WordStep
  PROVE  /\ lineNumber \in 1 .. Len(file)
         /\ lineNumber' \in 0 .. Len(file)
         /\ word' \in 1 .. Len(file[lineNumber].words) + 1
         /\ real' \in {"code", "line", "block", "string"}
         /\ commented' \subseteq 1 .. lineNumber
         /\ misread' \subseteq 1 .. lineNumber
<1>1. Len(file) \in Nat  BY LenProperties DEF TypeOK
<1>2. lineNumber \in 1 .. Len(file)  BY <1>1 DEF TypeOK, WordStep, HasWord
<1>3. Len(file[lineNumber].words) \in Nat  BY <1>2, LineOfFile DEF TypeOK
<1>4. word' \in 1 .. Len(file[lineNumber].words) + 1
  BY <1>3 DEF TypeOK, WordStep, HasWord
<1>5. real' \in {"code", "line", "block", "string"}
  BY DEF WordStep, RealStep, ReadMark, TypeOK
<1>6. commented' \subseteq 1 .. lineNumber /\ misread' \subseteq 1 .. lineNumber
  BY <1>2 DEF TypeOK, WordStep, RealStep
<1> QED  BY <1>1, <1>2, <1>4, <1>5, <1>6 DEF WordStep

(* A word that is not one of code: only the flags of comments change.       *)
LEMMA MarkTypeOK ==
  ASSUME TypeOK, WordStep,
         commentedLines' \in Nat, inBlockComment' \in BOOLEAN,
         inHeader' \in BOOLEAN, inComment' \in BOOLEAN, emptyLine' \in BOOLEAN,
         UNCHANGED <<flags, issues>>
  PROVE  TypeOK'
<1> USE DEF TypeOK, flags
<1>1. /\ word' \in 1 .. Len(file[lineNumber].words) + 1
      /\ real' \in {"code", "line", "block", "string"}
      /\ commented' \subseteq 1 .. lineNumber /\ misread' \subseteq 1 .. lineNumber
      /\ lineNumber # 0
  BY WordStepTypes
<1>2. UNCHANGED <<file, rules, isTop, pc, lineNumber, unmatched>>  BY DEF WordStep, input
<1> QED  BY <1>1, <1>2

LEMMA CodeWordTypeOK ==
  ASSUME TypeOK, CodeWord
  PROVE  TypeOK'
<1> USE DEF TypeOK
<1>1. /\ word' \in 1 .. Len(file[lineNumber].words) + 1
      /\ real' \in {"code", "line", "block", "string"}
      /\ commented' \subseteq 1 .. lineNumber /\ misread' \subseteq 1 .. lineNumber
      /\ lineNumber # 0
      /\ lineNumber \in 1 .. Len(file)
  BY WordStepTypes DEF CodeWord, SeenStep
<1>2. UNCHANGED <<file, rules, isTop, pc, lineNumber, unmatched, commentedLines,
                  inBlockComment, inComment>>
  BY DEF CodeWord, SeenStep, WordStep, input
<1>3. \A i \in issues' : i.rule \in rules /\ i.line \in 0 .. lineNumber
  <2>1. \A r \in Found : r \in rules  BY DEF Found
  <2>2. lineNumber \in 0 .. lineNumber  BY <1>1, LenProperties
  <2>3. issues' = issues \cup {[rule |-> r, line |-> lineNumber] : r \in Found}  BY DEF CodeWord
  <2> QED  BY <2>1, <2>2, <2>3
<1>4. inHeader' \in BOOLEAN  BY DEF CodeWord, SeenStep
<1>5. emptyLine' \in BOOLEAN  BY DEF CodeWord, SeenStep
<1>6. arrayDeclaration' \in BOOLEAN  BY DEF CodeWord
<1>7. stdDeclaration' \in BOOLEAN  BY DEF CodeWord
<1>8. packageDeclaration' \in BOOLEAN  BY DEF CodeWord
<1>9. useClause1' \in BOOLEAN  BY DEF CodeWord
<1>10. inPackageFile' \in BOOLEAN  BY <1>8 DEF CodeWord
<1>11. cne300Issue' \in BOOLEAN  BY DEF CodeWord
<1> HIDE DEF TypeOK
<1>12. TypeOK  OBVIOUS
<1> QED  BY <1>1, <1>2, <1>3, <1>4, <1>5, <1>6, <1>7, <1>8, <1>9, <1>10, <1>11, <1>12 DEF TypeOK

LEMMA NextLineTypeOK ==
  ASSUME TypeOK, NextLine
  PROVE  TypeOK'
<1> USE DEF TypeOK
<1>1. Len(file) \in Nat  BY LenProperties
<1>2. lineNumber' \in 1 .. Len(file)  BY <1>1 DEF NextLine
<1>3. Len(file[lineNumber'].words) \in Nat  BY <1>2, LineOfFile
<1>4. word' \in 1 .. Len(file[lineNumber'].words) + 1  BY <1>3 DEF NextLine
<1>5. UNCHANGED <<file, rules, isTop, inHeader, inBlockComment, arrayDeclaration,
                  stdDeclaration, packageDeclaration, useClause1, inPackageFile,
                  cne300Issue, issues>>
  BY DEF NextLine, input, flags
<1>6. \A i \in issues' : i.rule \in rules' /\ i.line \in 0 .. lineNumber'
  BY <1>1, <1>5 DEF NextLine
<1>7. commentedLines' \in Nat  BY DEF NextLine
<1>8. unmatched' \subseteq HeaderRules  BY DEF NextLine
<1>9. real' \in {"code", "line", "block", "string"}  BY DEF NextLine
<1>10. commented' \subseteq 1 .. lineNumber' /\ misread' \subseteq 1 .. lineNumber'
  BY <1>1 DEF NextLine
<1>11. inComment' \in BOOLEAN /\ emptyLine' \in BOOLEAN /\ pc' = "words"  BY DEF NextLine
<1>12. lineNumber' \in 0 .. Len(file) /\ lineNumber' # 0  BY <1>1, <1>2
<1> QED  BY <1>4, <1>5, <1>6, <1>7, <1>8, <1>9, <1>10, <1>11, <1>12

LEMMA NextTypeOK == TypeOK /\ [Next]_vars => TypeOK'
<1> SUFFICES ASSUME TypeOK, [Next]_vars PROVE TypeOK'  OBVIOUS
<1>1. CASE Open
  BY <1>1 DEF TypeOK, Open, input, flags
<1>2. CASE NextLine
  BY <1>2, NextLineTypeOK
<1>3. CASE CommentWord
  BY <1>3, MarkTypeOK DEF CommentWord, TypeOK
<1>4. CASE LineCommentBegins
  <2>1. commentedLines' = commentedLines + 1 /\ commentedLines \in Nat
    BY <1>4 DEF LineCommentBegins, TypeOK
  <2>2. commentedLines' \in Nat  BY <2>1
  <2>3. inHeader' \in BOOLEAN  BY <1>4 DEF LineCommentBegins, SeenStep, TypeOK
  <2> QED  BY <1>4, <2>2, <2>3, MarkTypeOK DEF LineCommentBegins, SeenStep, TypeOK
<1>5. CASE BlockCommentBegins
  <2>1. commentedLines' = commentedLines + 1 /\ commentedLines \in Nat
    BY <1>5 DEF BlockCommentBegins, TypeOK
  <2>2. commentedLines' \in Nat  BY <2>1
  <2>3. inHeader' \in BOOLEAN  BY <1>5 DEF BlockCommentBegins, SeenStep, TypeOK
  <2> QED  BY <1>5, <2>2, <2>3, MarkTypeOK DEF BlockCommentBegins, SeenStep, TypeOK
<1>6. CASE BlockCommentEnds
  BY <1>6, MarkTypeOK DEF BlockCommentEnds, SeenStep, TypeOK
<1>7. CASE BlockCommentWord
  BY <1>7, MarkTypeOK DEF BlockCommentWord, SeenStep, TypeOK
<1>8. CASE CodeWord
  BY <1>8, CodeWordTypeOK
<1>9. CASE EndOfLine
  <2>1. lineNumber \in 0 .. lineNumber  BY LenProperties DEF TypeOK
  <2>2. \A i \in issues' : i.rule \in rules /\ i.line \in 0 .. lineNumber
    BY <1>9, <2>1 DEF TypeOK, EndOfLine
  <2>3. pc' = "read" /\ UNCHANGED <<file, rules, lineNumber>>  BY <1>9 DEF EndOfLine, input
  <2>4. UNCHANGED <<isTop, word, commentedLines, inBlockComment, inHeader, inComment,
                    emptyLine, flags, unmatched, real, commented, misread>>
    BY <1>9 DEF EndOfLine, input
  <2> QED  BY <2>2, <2>3, <2>4 DEF TypeOK, flags
<1>10. CASE EndOfFile
  <2>1. 0 \in 0 .. lineNumber  BY LenProperties DEF TypeOK
  <2>2. \A i \in issues' : i.rule \in rules /\ i.line \in 0 .. lineNumber
    BY <1>10, <2>1 DEF TypeOK, EndOfFile, OnFile
  <2>3. pc' = "done" /\ UNCHANGED <<file, rules, lineNumber>>  BY <1>10 DEF EndOfFile, input
  <2>4. UNCHANGED <<isTop, word, commentedLines, inBlockComment, inHeader, inComment,
                    emptyLine, flags, unmatched, real, commented, misread>>
    BY <1>10 DEF EndOfFile, input
  <2> QED  BY <2>2, <2>3, <2>4 DEF TypeOK, flags
<1>11. CASE UNCHANGED vars
  BY <1>11 DEF TypeOK, vars, input, flags
<1> QED
  BY <1>1, <1>2, <1>3, <1>4, <1>5, <1>6, <1>7, <1>8, <1>9, <1>10, <1>11 DEF Next, Finished

(* The flags, the counters and the issues of a scan stay in their types; an  *)
(* issue is always of an active rule and on a line already read.             *)
THEOREM TypeCorrect == Spec => []TypeOK
  BY InitTypeOK, NextTypeOK, PTL DEF Spec

-----------------------------------------------------------------------------
(* Comments.  inBlockComment may stay up after the comment ("/*x*/", or "*/" *)
(* behind "--"), so that inComment does not mean that the text is behind     *)
(* "--"; that it then is in what the scan believes to be a block comment is  *)
(* what keeps it from losing track of a comment that begins there.           *)
CommentInv ==
    /\ CommentsAreSkipped
    /\ misread = {} /\ inComment => inBlockComment \/ real = "line"

LEMMA InitCommentInv == Init => CommentInv
  BY DEF Init, CommentInv, CommentsAreSkipped

(* What has been misread stays so.                                          *)
LEMMA MisreadStays ==
  ASSUME WordStep, misread' = {}
  PROVE  misread = {}
BY DEF WordStep, RealStep

(* Outside comments, a word that begins with no comment's mark and is not    *)
(* misread begins no comment.                                                *)
LEMMA QuietWord ==
  ASSUME TypeOK, WordStep, misread' = {}, real \notin {"line", "block"},
         ~StartsLine(Word), ~StartsBlock(Word)
  PROVE  real' \in {"code", "string"} /\ commented' = commented
<1> DEFINE begun == ReadMark(real, Word.first)
           held  == ReadMark(begun, Word.inner)
           ended == ReadMark(held, Word.last)
<1>1. real \in {"code", "string"}  BY DEF TypeOK
<1>2. begun \in {"code", "string"}  BY <1>1 DEF ReadMark, StartsLine, StartsBlock
<1>3. ~(begun = "code" /\ Word.inner \in {"--", "/*"})  BY DEF WordStep, RealStep
<1>4. held \in {"code", "string"}  BY <1>2, <1>3 DEF ReadMark
<1>5. ~(held = "code" /\ Word.last \in {"--", "/*"})  BY DEF WordStep, RealStep
<1>6. ended \in {"code", "string"}  BY <1>4, <1>5 DEF ReadMark
<1>7. {real, begun, held, ended} \cap {"line", "block"} = {}  BY <1>1, <1>2, <1>4, <1>6
<1>8. real' = ended /\ commented' = commented  BY <1>7 DEF WordStep, RealStep
<1> QED  BY <1>6, <1>8

(* Behind "--" the text is a comment to the end of the line.                 *)
LEMMA LineWord ==
  ASSUME WordStep, real = "line"
  PROVE  real' = "line"
BY DEF WordStep, RealStep, ReadMark

LEMMA NextCommentInv == TypeOK /\ CommentInv /\ [Next]_vars => CommentInv'
<1> SUFFICES ASSUME TypeOK, CommentInv, [Next]_vars, misread' = {}
             PROVE  /\ real' = "block" => inBlockComment'
                    /\ real' = "line" => inComment'
                    /\ inComment' => inBlockComment' \/ real' = "line"
  BY DEF CommentInv, CommentsAreSkipped
<1> USE DEF CommentInv, CommentsAreSkipped
<1>1. CASE Open
  BY <1>1 DEF Open
<1>2. CASE NextLine
  BY <1>2 DEF NextLine, TypeOK
<1>3. CASE CommentWord
  <2>1. misread = {} /\ WordStep /\ UNCHANGED <<inBlockComment, inComment>> /\ inComment
    BY <1>3, MisreadStays DEF CommentWord
  <2>2. CASE real = "line"  BY <2>1, <2>2, LineWord
  <2>3. CASE inBlockComment  BY <2>1, <2>3
  <2> QED  BY <2>1, <2>2, <2>3
<1>4. CASE LineCommentBegins
  <2>1. misread = {} /\ WordStep /\ inBlockComment' = inBlockComment /\ inComment'
        /\ ~inComment /\ StartsLine(Word)
    BY <1>4, MisreadStays DEF LineCommentBegins, SeenStep
  <2>2. real \in {"code", "block"}
    BY <2>1 DEF WordStep, RealStep, TypeOK
  <2>3. CASE real = "code"
    <3>1. ReadMark(real, Word.first) = "line"  BY <2>1, <2>3 DEF ReadMark, StartsLine
    <3>2. real' = "line"  BY <2>1, <3>1 DEF WordStep, RealStep, ReadMark
    <3> QED  BY <2>1, <3>2
  <2>4. CASE real = "block"  BY <2>1, <2>4
  <2> QED  BY <2>2, <2>3, <2>4
<1>5. ASSUME SeenStep, ~inComment', ~StartsLine(Word),
             StartsBlock(Word) => inBlockComment',
             inBlockComment' = inBlockComment \/ StartsBlock(Word) \/ EndsBlock(Word)
      PROVE  /\ real' = "block" => inBlockComment'
             /\ real' # "line"
  <2>1. misread = {} /\ WordStep /\ real # "line"
    BY <1>5, MisreadStays DEF SeenStep
  <2> DEFINE begun == ReadMark(real, Word.first)
             held  == ReadMark(begun, Word.inner)
  <2>2. /\ ~(begun = "code" /\ Word.inner \in {"--", "/*"})
        /\ ~(held = "code" /\ Word.last \in {"--", "/*"})
        /\ real' = ReadMark(held, Word.last)
    BY <2>1 DEF WordStep, RealStep
  <2>3. begun # "line" /\ (begun = "block" => real = "block" \/ StartsBlock(Word))
    BY <1>5, <2>1 DEF ReadMark, StartsLine, StartsBlock
  <2>4. held # "line" /\ (held = "block" => begun = "block")
    BY <2>2, <2>3 DEF ReadMark
  <2>5. real' # "line"
        /\ (real' = "block" => held = "block" /\ ~EndsBlock(Word))
    BY <2>2, <2>4 DEF ReadMark, EndsBlock
  <2>6. ASSUME real' = "block" PROVE inBlockComment'
    <3>1. real = "block" \/ StartsBlock(Word)  BY <2>3, <2>4, <2>5, <2>6
    <3>2. real = "block" => inBlockComment  BY <2>1
    <3> QED  BY <1>5, <2>5, <2>6, <3>1, <3>2
  <2> QED  BY <2>5, <2>6
<1>6. CASE BlockCommentBegins
  <2>1. SeenStep /\ ~inComment' /\ StartsBlock(Word) /\ inBlockComment'
    BY <1>6 DEF BlockCommentBegins, SeenStep
  <2>2. ~StartsLine(Word)  BY <2>1 DEF StartsLine, StartsBlock
  <2> QED  BY <1>5, <2>1, <2>2
<1>7. CASE BlockCommentEnds
  <2>1. /\ SeenStep /\ ~inComment' /\ EndsBlock(Word) /\ ~StartsBlock(Word)
        /\ ~StartsLine(Word)
    BY <1>7 DEF BlockCommentEnds, SeenStep
  <2> QED  BY <1>5, <2>1
<1>8. CASE BlockCommentWord \/ CodeWord
  <2>1. /\ SeenStep /\ ~inComment' /\ ~Marked /\ inBlockComment' = inBlockComment
    <3>1. CASE BlockCommentWord  BY <3>1 DEF BlockCommentWord, SeenStep
    <3>2. CASE CodeWord  BY <3>2 DEF CodeWord, SeenStep
    <3> QED  BY <1>8, <3>1, <3>2
  <2> QED  BY <1>5, <2>1 DEF Marked
<1>9. CASE EndOfLine
  BY <1>9 DEF EndOfLine
<1>10. CASE EndOfFile
  BY <1>10 DEF EndOfFile
<1>11. CASE UNCHANGED vars
  BY <1>11 DEF vars
<1> QED
  BY <1>1, <1>2, <1>3, <1>4, <1>6, <1>7, <1>8, <1>9, <1>10, <1>11 DEF Next, Finished

(* No word of a comment is taken for code, whatever marks the comments and   *)
(* strings of a file begin and end with, unless a comment begins inside a    *)
(* word or a string holds a word that begins with "--".                      *)
THEOREM CommentsSkipped == Spec => []CommentsAreSkipped
<1>1. Init => TypeOK /\ CommentInv  BY InitTypeOK, InitCommentInv
<1>2. TypeOK /\ CommentInv /\ [Next]_vars => (TypeOK /\ CommentInv)'
  BY NextTypeOK, NextCommentInv
<1>3. CommentInv => CommentsAreSkipped  BY DEF CommentInv
<1> QED  BY <1>1, <1>2, <1>3, PTL DEF Spec

-----------------------------------------------------------------------------
(* The lines and marks of the current word.                                  *)
LEMMA WordOfFile ==
  ASSUME TypeOK, HasWord
  PROVE  /\ lineNumber \in DOMAIN file
         /\ word \in DOMAIN file[lineNumber].words
<1>1. lineNumber \in 1 .. Len(file)  BY LenProperties DEF TypeOK, HasWord
<1>2. Len(file[lineNumber].words) \in Nat  BY <1>1, LineOfFile DEF TypeOK
<1>3. word \in 1 .. Len(file[lineNumber].words)  BY <1>2 DEF TypeOK, HasWord
<1>4. file[lineNumber].words \in Seq(Words)  BY <1>1, LineOfFile DEF TypeOK
<1>5. word \in DOMAIN file[lineNumber].words  BY <1>3, <1>4, LenProperties
<1>6. lineNumber \in DOMAIN file  BY <1>1, LenProperties DEF TypeOK
<1> QED  BY <1>5, <1>6

LEMMA NoBlockMarks ==
  ASSUME TypeOK, HasWord, NoBlocks
  PROVE  /\ Word.first \notin {"/*", "*/"}
         /\ Word.inner \notin {"/*", "*/"}
         /\ Word.last \notin {"/*", "*/"}
         /\ ~StartsBlock(Word) /\ ~EndsBlock(Word)
<1>1. lineNumber \in DOMAIN file /\ word \in DOMAIN file[lineNumber].words
  BY WordOfFile
<1>2. {Word.first, Word.inner, Word.last} \cap {"/*", "*/"} = {}
  BY <1>1 DEF NoBlocks, Word
<1> QED  BY <1>2 DEF StartsBlock, EndsBlock

(* The file, and so what it has of block comments, does not change.          *)
LEMMA FileStays ==
  ASSUME [Next]_vars
  PROVE  /\ UNCHANGED <<file, rules>>
         /\ NoBlocks' = NoBlocks
<1>1. file' = file /\ rules' = rules
  BY DEF Next, vars, input, Open, NextLine, CommentWord, LineCommentBegins,
         BlockCommentBegins, BlockCommentEnds, BlockCommentWord, CodeWord, SeenStep,
         WordStep, EndOfLine, EndOfFile, Finished
<1> QED  BY <1>1 DEF NoBlocks

(* The measure.  A line is in "commented" as soon as the scan is in one of   *)
(* its comments, so that only the words that are counted can add it; without *)
(* block comments a line that is in it has no more words that count.         *)
Counted ==
    /\ commentedLines >= Cardinality(commented)
    /\ pc = "words" /\ (inComment \/ real \in {"line", "block"}) => lineNumber \in commented

CountedOnce ==
    /\ commentedLines = Cardinality(commented)
    /\ ~inBlockComment /\ real # "block"
    /\ pc = "words" /\ lineNumber \in commented => inComment

CountInv ==
    /\ IsFiniteSet(commented)
    /\ pc \in {"open", "read"} => lineNumber + 1 \notin commented
    /\ misread = {} => Counted /\ (NoBlocks => CountedOnce)

LEMMA CardinalityStep ==
  ASSUME NEW S, IsFiniteSet(S), NEW x, NEW c \in Nat, c >= Cardinality(S)
  PROVE  /\ IsFiniteSet(S \cup {x})
         /\ c + 1 >= Cardinality(S \cup {x})
         /\ c + 1 >= Cardinality(S)
         /\ c = Cardinality(S) /\ x \notin S => c + 1 = Cardinality(S \cup {x})
<1>1. Cardinality(S) \in Nat  BY FS_CardinalityType
<1>2. /\ IsFiniteSet(S \cup {x})
      /\ Cardinality(S \cup {x}) = IF x \in S THEN Cardinality(S) ELSE Cardinality(S) + 1
  BY FS_AddElement
<1> QED  BY <1>1, <1>2

LEMMA InitCountInv == Init => CountInv
<1> SUFFICES ASSUME Init PROVE CountInv  OBVIOUS
<1>1. commented = {} /\ commentedLines = 0 /\ pc = "open"  BY DEF Init
<1>2. IsFiniteSet(commented) /\ Cardinality(commented) = 0
  BY <1>1, FS_EmptySet
<1>3. lineNumber + 1 \notin commented /\ pc # "words"  BY <1>1
<1>4. ~inBlockComment /\ real = "code"  BY DEF Init
<1>5. commentedLines >= Cardinality(commented) /\ commentedLines = Cardinality(commented)
  BY <1>1, <1>2
<1> QED  BY <1>1, <1>2, <1>3, <1>4, <1>5 DEF CountInv, Counted, CountedOnce

LEMMA WordKeepsFinite ==
  ASSUME TypeOK, CountInv, WordStep
  PROVE  /\ IsFiniteSet(commented') /\ pc = "words" /\ pc' = "words" /\ HasWord
         /\ lineNumber' = lineNumber
         /\ commented' \in {commented, commented \cup {lineNumber}}
         /\ NoBlocks' = NoBlocks
<1>1. commented' \in {commented, commented \cup {lineNumber}}
  BY DEF WordStep, RealStep
<1>2. IsFiniteSet(commented')  BY <1>1, FS_AddElement DEF CountInv
<1> QED  BY <1>1, <1>2 DEF WordStep, HasWord, NoBlocks, input

(* A word that is counted: it begins a comment, or stands in one.            *)
LEMMA CountedWord ==
  ASSUME TypeOK, CommentInv, CountInv, LineCommentBegins \/ BlockCommentBegins
  PROVE  CountInv'
<1>1. /\ WordStep /\ commentedLines' = commentedLines + 1 /\ ~inComment
      /\ commentedLines \in Nat
  BY DEF LineCommentBegins, BlockCommentBegins, SeenStep, TypeOK
<1>2. /\ IsFiniteSet(commented') /\ pc = "words" /\ pc' = "words" /\ HasWord
      /\ lineNumber' = lineNumber
      /\ commented' \in {commented, commented \cup {lineNumber}}
      /\ NoBlocks' = NoBlocks
  BY <1>1, WordKeepsFinite
<1> SUFFICES ASSUME misread' = {} PROVE Counted' /\ (NoBlocks => CountedOnce')
  BY <1>2 DEF CountInv
<1>3. misread = {}  BY <1>1, MisreadStays
<1>4. commentedLines' >= Cardinality(commented')
  BY <1>1, <1>2, <1>3, CardinalityStep DEF CountInv, Counted
<1>5. real' \in {"line", "block"} => lineNumber \in commented'
  BY <1>1 DEF WordStep, RealStep
<1>6. CASE BlockCommentBegins
  <2>1. ~inComment' /\ StartsBlock(Word)  BY <1>6 DEF BlockCommentBegins, SeenStep
  <2>2. ~NoBlocks  BY <1>2, <2>1, NoBlockMarks
  <2> QED  BY <1>2, <1>4, <1>5, <2>1, <2>2 DEF Counted
<1>7. CASE LineCommentBegins
  <2>1. inComment' /\ StartsLine(Word) /\ inBlockComment' = inBlockComment
    BY <1>7 DEF LineCommentBegins
  <2>2. real \in {"code", "block"}
    BY <1>1, <1>3, <2>1 DEF WordStep, RealStep, TypeOK, CommentInv, CommentsAreSkipped
  <2>3. real = "code" => ReadMark(real, Word.first) = "line"
    BY <2>1 DEF ReadMark, StartsLine
  <2>4. commented' = commented \cup {lineNumber}
    BY <1>1, <2>2, <2>3 DEF WordStep, RealStep
  <2>5. Counted'  BY <1>2, <1>4, <2>4 DEF Counted
  <2>6. ASSUME NoBlocks PROVE CountedOnce'
    <3>1. CountedOnce  BY <1>3, <2>6 DEF CountInv
    <3>2. lineNumber \notin commented  BY <1>1, <1>2, <3>1 DEF CountedOnce
    <3>3. commentedLines' = Cardinality(commented')
      BY <1>1, <2>4, <3>1, <3>2, CardinalityStep DEF CountInv, CountedOnce
    <3>4. real = "code"  BY <2>2, <3>1 DEF CountedOnce
    <3>5. real' = "line"
      BY <1>1, <2>3, <3>4 DEF WordStep, RealStep, ReadMark
    <3> QED  BY <2>1, <3>1, <3>3, <3>5 DEF CountedOnce
  <2> QED  BY <2>5, <2>6
<1> QED  BY <1>6, <1>7

(* A word that is not: the line is in "commented" already, or stays out.     *)
LEMMA OtherWord ==
  ASSUME TypeOK, CommentInv, CountInv, WordStep, UNCHANGED <<commentedLines, inComment>>,
         inComment \/ (~StartsLine(Word) /\ ~StartsBlock(Word)),
         inBlockComment' => inBlockComment
  PROVE  CountInv'
<1>1. /\ IsFiniteSet(commented') /\ pc = "words" /\ pc' = "words" /\ HasWord
      /\ lineNumber' = lineNumber
      /\ commented' \in {commented, commented \cup {lineNumber}}
      /\ NoBlocks' = NoBlocks
  BY WordKeepsFinite
<1> SUFFICES ASSUME misread' = {} PROVE Counted' /\ (NoBlocks => CountedOnce')
  BY <1>1 DEF CountInv
<1>2. misread = {}  BY MisreadStays
<1>3. Counted /\ (NoBlocks => CountedOnce)  BY <1>2 DEF CountInv
<1>4. commented' = commented
  <2>1. CASE inComment \/ real \in {"line", "block"}
    BY <1>1, <1>3, <2>1 DEF Counted
  <2>2. CASE ~inComment /\ real \notin {"line", "block"}
    BY <2>2, QuietWord
  <2> QED  BY <2>1, <2>2
<1>5. Counted'
  <2>1. CASE inComment \/ real \in {"line", "block"}
    BY <1>1, <1>3, <1>4, <2>1 DEF Counted
  <2>2. CASE ~inComment /\ real \notin {"line", "block"}
    <3>1. real' \in {"code", "string"}  BY <2>2, QuietWord
    <3> QED  BY <1>1, <1>3, <1>4, <2>2, <3>1 DEF Counted
  <2> QED  BY <2>1, <2>2
<1>6. ASSUME NoBlocks PROVE CountedOnce'
  <2>1. real' # "block"
    BY <1>1, <1>3, <1>6, NoBlockMarks DEF CountedOnce, WordStep, RealStep, ReadMark
  <2> QED  BY <1>1, <1>3, <1>4, <1>6, <2>1 DEF CountedOnce
<1> QED  BY <1>5, <1>6

LEMMA NextCountInv == TypeOK /\ CommentInv /\ CountInv /\ [Next]_vars => CountInv'
<1> SUFFICES ASSUME TypeOK, CommentInv, CountInv, [Next]_vars PROVE CountInv'  OBVIOUS
<1>0. NoBlocks' = NoBlocks  BY FileStays
<1>1. CASE Open
  BY <1>0, <1>1 DEF Open, CountInv, Counted, CountedOnce
<1>2. CASE NextLine
  <2>1. /\ pc = "read" /\ pc' = "words" /\ ~inComment' /\ misread' = misread
        /\ lineNumber' = lineNumber + 1 /\ inBlockComment' = inBlockComment
        /\ commentedLines' = IF inBlockComment THEN commentedLines + 1 ELSE commentedLines
    BY <1>2 DEF NextLine
  <2>2. lineNumber' \notin commented  BY <2>1 DEF CountInv
  <2>3. commentedLines \in Nat  BY DEF TypeOK
  <2>4. CASE real = "block"
    <3>1. commented' = commented \cup {lineNumber'}  BY <1>2, <2>4 DEF NextLine
    <3>2. IsFiniteSet(commented')  BY <3>1, FS_AddElement DEF CountInv
    <3>3. ASSUME misread = {} PROVE Counted' /\ ~NoBlocks
      <4>1. commentedLines' = commentedLines + 1
        BY <2>1, <2>4, <3>3 DEF CommentInv, CommentsAreSkipped
      <4>2. commentedLines' >= Cardinality(commented')
        BY <2>3, <3>1, <3>3, <4>1, CardinalityStep DEF CountInv, Counted
      <4> QED  BY <2>1, <2>4, <3>1, <3>3, <4>2 DEF CountInv, Counted, CountedOnce
    <3> QED  BY <1>0, <2>1, <3>2, <3>3 DEF CountInv
  <2>5. CASE real # "block"
    <3>1. commented' = commented /\ real' \in {"code"}
      BY <1>2, <2>5 DEF NextLine, TypeOK
    <3>2. ASSUME misread = {} PROVE Counted'
      <4>1. commentedLines' >= Cardinality(commented)
        BY <2>1, <2>3, <3>2, CardinalityStep DEF CountInv, Counted
      <4> QED  BY <2>1, <3>1, <4>1 DEF Counted
    <3>3. ASSUME misread = {}, NoBlocks PROVE CountedOnce'
      BY <2>1, <2>2, <3>1, <3>3 DEF CountInv, CountedOnce
    <3> QED  BY <1>0, <2>1, <3>1, <3>2, <3>3 DEF CountInv
  <2> QED  BY <2>4, <2>5
<1>3. CASE CommentWord
  BY <1>3, OtherWord DEF CommentWord
<1>4. CASE LineCommentBegins \/ BlockCommentBegins
  BY <1>4, CountedWord
<1>6. CASE BlockCommentEnds
  BY <1>6, OtherWord DEF BlockCommentEnds, SeenStep
<1>7. CASE BlockCommentWord
  BY <1>7, OtherWord DEF BlockCommentWord, SeenStep, Marked
<1>8. CASE CodeWord
  BY <1>8, OtherWord DEF CodeWord, SeenStep, Marked
<1>9. CASE EndOfLine
  <2>1. lineNumber + 1 \notin commented  BY LenProperties DEF TypeOK
  <2> QED  BY <1>0, <1>9, <2>1 DEF EndOfLine, CountInv, Counted, CountedOnce
<1>10. CASE EndOfFile
  BY <1>0, <1>10 DEF EndOfFile, CountInv, Counted, CountedOnce
<1>11. CASE UNCHANGED vars
  BY <1>0, <1>11 DEF vars, CountInv, Counted, CountedOnce
<1> QED
  BY <1>1, <1>2, <1>3, <1>4, <1>6, <1>7, <1>8, <1>9, <1>10, <1>11 DEF Next, Finished

(* Unless a comment is misread, the measure of commented lines is never below *)
(* the number of lines with a comment (it may be above: a line with two marks *)
(* of block comments counts twice), and is it in a file without such comments. *)
THEOREM CommentsCounted == Spec => []CommentsNotMissed
<1>1. Init => TypeOK /\ CommentInv /\ CountInv
  BY InitTypeOK, InitCommentInv, InitCountInv
<1>2. TypeOK /\ CommentInv /\ CountInv /\ [Next]_vars => (TypeOK /\ CommentInv /\ CountInv)'
  BY NextTypeOK, NextCommentInv, NextCountInv
<1>3. CountInv => CommentsNotMissed
  BY DEF CountInv, Counted, CountedOnce, CommentsNotMissed
<1> QED  BY <1>1, <1>2, <1>3, PTL DEF Spec
-----------------------------------------------------------------------------
(* Ranges.  Of the word a range's direction belongs to, the scan keeps only a *)
(* flag; that the flag is up on every word between the two, and that a file   *)
(* without block comments never has the scan in one, is what carries a        *)
(* declaration to its range.                                                  *)
Flag(r) == IF r = "STD_06000" THEN arrayDeclaration ELSE stdDeclaration

Reported(n, r) == [rule |-> r, line |-> n] \in issues

\* A line comment of this line is behind its mark.
BehindMark ==
    pc = "words" /\ inComment =>
        \E i \in 1 .. word - 1 : StartsLine(file[lineNumber].words[i])

LEMMA InitBehindMark == Init => BehindMark
BY DEF Init, BehindMark

LinesSeen ==
    \A n \in 1 .. lineNumber :
        (pc = "words" => n # lineNumber) =>
            \A r \in Wrong(file[n]) \cap rules : Reported(n, r)

WordsSeen ==
    pc = "words" =>
        \A r \in RangeRules \cap rules, j, k \in DOMAIN file[lineNumber].words :
            Misdirected(file[lineNumber], r, j, k) =>
                /\ k < word => Reported(lineNumber, r)
                /\ j < word /\ word <= k => Flag(r)

RangesSeen ==
    /\ pc = "done" => lineNumber = Len(file)
    /\ NoBlocks => ~inBlockComment /\ LinesSeen /\ WordsSeen

LEMMA RangesSeenEnough == TypeOK /\ RangesSeen => RangesNotMissed
<1> SUFFICES ASSUME TypeOK, RangesSeen, pc = "done", NoBlocks,
                    NEW n \in DOMAIN file, NEW r \in Wrong(file[n]) \cap rules
             PROVE  [rule |-> r, line |-> n] \in issues
  BY DEF RangesNotMissed
<1>1. n \in 1 .. lineNumber  BY LenProperties DEF TypeOK, RangesSeen
<1> QED  BY <1>1 DEF RangesSeen, LinesSeen, Reported

LEMMA InitRangesSeen == Init => RangesSeen
<1> SUFFICES ASSUME Init PROVE RangesSeen  OBVIOUS
<1>1. pc = "open" /\ lineNumber = 0 /\ ~inBlockComment  BY DEF Init
<1>2. 1 .. lineNumber = {}  BY <1>1
<1> QED  BY <1>1, <1>2 DEF RangesSeen, LinesSeen, WordsSeen

\* Nothing is misdirected behind "--".
LEMMA NoRangeInComment ==
  ASSUME NEW l, NEW r, NEW j, NEW k \in Nat, Misdirected(l, r, j, k),
         NEW i \in Nat \ {0}, i <= k, StartsLine(l.words[i])
  PROVE  FALSE
<1>1. i \in 1 .. k  OBVIOUS
<1> QED  BY <1>1 DEF Misdirected, Bare, StartsLine

\* The facts about the current word the steps need.
LEMMA WordTypes ==
  ASSUME TypeOK, HasWord
  PROVE  /\ lineNumber \in Nat \ {0}
         /\ word \in Nat \ {0}
         /\ \A j \in DOMAIN file[lineNumber].words : j \in Nat \ {0}
<1>1. lineNumber \in 1 .. Len(file)  BY LenProperties DEF TypeOK, HasWord
<1>2. Len(file[lineNumber].words) \in Nat /\ file[lineNumber].words \in Seq(Words)
  BY <1>1, LineOfFile DEF TypeOK
<1>3. word \in Nat \ {0}  BY <1>2 DEF TypeOK, HasWord
<1>4. DOMAIN file[lineNumber].words = 1 .. Len(file[lineNumber].words)
  BY <1>2, LenProperties
<1>5. Len(file) \in Nat  BY LenProperties DEF TypeOK
<1> QED  BY <1>1, <1>2, <1>3, <1>4, <1>5

\* The lines before this one are as they were.
LEMMA WordLinesSeen ==
  ASSUME LinesSeen, WordStep, issues \subseteq issues'
  PROVE  LinesSeen'
<1>1. UNCHANGED <<file, rules, lineNumber, pc>>  BY DEF WordStep, input
<1> QED  BY <1>1 DEF LinesSeen, Reported, Wrong, Misdirected

\* Words behind a "--" of their line.
LEMMA CommentWordsSeen ==
  ASSUME TypeOK, WordsSeen, WordStep, issues \subseteq issues', 
         NEW i \in Nat \ {0}, i <= word, StartsLine(file[lineNumber].words[i])
  PROVE  WordsSeen'
<1>1. UNCHANGED <<file, rules, lineNumber, pc>> /\ HasWord /\ word' = word + 1 /\ pc = "words"
  BY DEF WordStep, input, HasWord
<1>2. SUFFICES ASSUME NEW r \in RangeRules \cap rules,
                      NEW j \in DOMAIN file[lineNumber].words,
                      NEW k \in DOMAIN file[lineNumber].words,
                      Misdirected(file[lineNumber], r, j, k)
               PROVE  /\ k < word + 1 => Reported(lineNumber, r)'
                      /\ j < word + 1 /\ word + 1 <= k => Flag(r)'
  BY <1>1 DEF WordsSeen, Misdirected
<1>3. word \in Nat /\ k \in Nat  BY <1>1, WordTypes
<1>4. k < word
  <2> SUFFICES ASSUME word <= k PROVE FALSE  BY <1>3
  <2>1. i <= k  BY <1>3
  <2> QED  BY <1>2, <1>3, <2>1, NoRangeInComment
<1>5. Reported(lineNumber, r)'  BY <1>1, <1>2, <1>4 DEF WordsSeen, Reported
<1>6. ~(word + 1 <= k)  BY <1>3, <1>4
<1> QED  BY <1>5, <1>6

\* A word of code: it ends a range that was open, leaves it open or opens it.
LEMMA CodeWordsSeen ==
  ASSUME TypeOK, WordsSeen, CodeWord
  PROVE  WordsSeen'
<1>1. UNCHANGED <<file, rules, lineNumber, pc>> /\ HasWord /\ word' = word + 1 /\ pc = "words"
  BY DEF CodeWord, SeenStep, WordStep, input, HasWord
<1>2. SUFFICES ASSUME NEW r \in RangeRules \cap rules,
                      NEW j \in DOMAIN file[lineNumber].words,
                      NEW k \in DOMAIN file[lineNumber].words,
                      Misdirected(file[lineNumber], r, j, k)
               PROVE  /\ k < word + 1 => Reported(lineNumber, r)'
                      /\ j < word + 1 /\ word + 1 <= k => Flag(r)'
  BY <1>1 DEF WordsSeen, Misdirected
<1>3. word \in Nat /\ j \in Nat /\ k \in Nat  BY <1>1, WordTypes
<1>4. j < k /\ file[lineNumber].words[j].text = Declared(r)
      /\ file[lineNumber].words[k].text = Direction(r)
  BY <1>2 DEF Misdirected
<1>5. /\ k < word => Reported(lineNumber, r)
      /\ j < word /\ word <= k => Flag(r)
  BY <1>1, <1>2 DEF WordsSeen
<1>6. ASSUME k < word + 1 PROVE Reported(lineNumber, r)'
  <2>1. issues' = issues \cup {[rule |-> q, line |-> lineNumber] : q \in Found}
    BY DEF CodeWord
  <2>2. CASE k < word  BY <1>1, <1>5, <2>1, <2>2 DEF Reported
  <2>3. CASE k = word
    <3>1. Flag(r)  BY <1>3, <1>4, <1>5, <2>3
    <3>2. Word.text = Direction(r)  BY <1>4, <2>3 DEF Word
    <3>3. r \in Found  BY <3>1, <3>2 DEF Flag, Direction, Found, RangeRules
    <3> QED  BY <1>1, <2>1, <3>3 DEF Reported
  <2> QED  BY <1>3, <1>6, <2>2, <2>3
<1>7. ASSUME j < word + 1, word + 1 <= k PROVE Flag(r)'
  <2>1. Word.text \notin {"to", "downto"}
    <3>1. CASE j < word
      <4>1. word \in j + 1 .. k - 1  BY <1>3, <1>7, <3>1
      <4> QED  BY <1>2, <4>1 DEF Misdirected, Word
    <3>2. CASE j = word
      <4>1. Word.text = Declared(r)  BY <1>4, <3>2 DEF Word
      <4> QED  BY <4>1 DEF Declared
    <3> QED  BY <1>3, <1>7, <3>1, <3>2
  <2>2. Flag(r) \/ Word.text = Declared(r)
    <3>1. CASE j < word
      <4>1. word <= k  BY <1>3, <1>7
      <4> QED  BY <1>5, <3>1, <4>1
    <3>2. CASE j = word  BY <1>4, <3>2 DEF Word
    <3> QED  BY <1>3, <1>7, <3>1, <3>2
  <2> QED  BY <2>1, <2>2 DEF CodeWord, Flag, Declared, RangeRules
<1> QED  BY <1>6, <1>7

LEMMA NextBehindMark == TypeOK /\ BehindMark /\ [Next]_vars => BehindMark'
<1> SUFFICES ASSUME TypeOK, BehindMark, [Next]_vars, pc' = "words", inComment'
             PROVE  \E i \in 1 .. word' - 1 : StartsLine(file'[lineNumber'].words[i])
  BY DEF BehindMark
<1>1. CASE CommentWord
  <2>1. /\ HasWord /\ pc = "words" /\ inComment /\ word' = word + 1
        /\ UNCHANGED <<file, lineNumber>>
    BY <1>1 DEF CommentWord, WordStep, HasWord, input
  <2>2. PICK i \in 1 .. word - 1 : StartsLine(file[lineNumber].words[i])
    BY <2>1 DEF BehindMark
  <2>3. word \in Nat  BY <2>1, WordTypes
  <2>4. i \in 1 .. word' - 1  BY <2>1, <2>3
  <2> QED  BY <2>1, <2>2, <2>4
<1>2. CASE LineCommentBegins
  <2>1. /\ HasWord /\ StartsLine(Word) /\ word' = word + 1 /\ UNCHANGED <<file, lineNumber>>
    BY <1>2 DEF LineCommentBegins, SeenStep, WordStep, input
  <2>2. word \in Nat \ {0}  BY <2>1, WordTypes
  <2>3. word \in 1 .. word' - 1  BY <2>1, <2>2
  <2> QED  BY <2>1, <2>3 DEF Word
<1>3. CASE UNCHANGED vars
  BY <1>3 DEF vars, input, BehindMark
<1> QED
  BY <1>1, <1>2, <1>3
  DEF Next, Finished, Open, NextLine, BlockCommentBegins, BlockCommentEnds,
      BlockCommentWord, CodeWord, SeenStep, EndOfLine, EndOfFile

LEMMA NextRangesSeen == TypeOK /\ BehindMark /\ RangesSeen /\ [Next]_vars => RangesSeen'
<1> SUFFICES ASSUME TypeOK, BehindMark, RangesSeen, [Next]_vars PROVE RangesSeen'  OBVIOUS
<1>1. NoBlocks' => NoBlocks  BY FileStays
<1>2. CASE Open
  BY <1>1, <1>2 DEF Open, input, flags, RangesSeen, LinesSeen, WordsSeen, Reported,
                    Wrong, Misdirected
<1>3. CASE NextLine
  <2>1. /\ pc = "read" /\ pc' = "words" /\ lineNumber' = lineNumber + 1 /\ word' = 1
        /\ ~inComment' /\ UNCHANGED <<file, rules, inBlockComment, issues>>
    BY <1>3 DEF NextLine, input
  <2>2. ASSUME NoBlocks PROVE LinesSeen'
    <3>1. LinesSeen  BY <2>2 DEF RangesSeen
    <3>2. lineNumber \in Nat  BY LenProperties DEF TypeOK
    <3>3. \A n \in 1 .. lineNumber + 1 : n # lineNumber + 1 => n \in 1 .. lineNumber
      BY <3>2
    <3> QED  BY <2>1, <3>1, <3>3 DEF LinesSeen, Reported, Wrong, Misdirected
  <2>3. WordsSeen'
    <3>1. lineNumber' \in 1 .. Len(file)  BY <1>3, LenProperties DEF NextLine, TypeOK
    <3>2. file[lineNumber'].words \in Seq(Words)  BY <3>1, LineOfFile DEF TypeOK
    <3>3. DOMAIN file[lineNumber'].words = 1 .. Len(file[lineNumber'].words)
          /\ Len(file[lineNumber'].words) \in Nat
      BY <3>2, LenProperties
    <3>4. \A k \in DOMAIN file[lineNumber'].words : ~(k < 1)  BY <3>3
    <3> QED  BY <2>1, <3>4 DEF WordsSeen
  <2> QED  BY <1>1, <2>1, <2>2, <2>3 DEF RangesSeen
<1>4. ASSUME WordStep, NoBlocks, issues \subseteq issues', ~inBlockComment', WordsSeen'
      PROVE  RangesSeen'
  <2>1. pc' = "words"  BY <1>4 DEF WordStep, HasWord
  <2>2. LinesSeen'  BY <1>4, WordLinesSeen DEF RangesSeen
  <2> QED  BY <1>4, <2>1, <2>2 DEF RangesSeen
<1>5. ASSUME WordStep, ~NoBlocks PROVE RangesSeen'
  BY <1>1, <1>5 DEF WordStep, HasWord, RangesSeen
<1>6. CASE CommentWord
  <2>1. CASE NoBlocks
    <3>1. /\ WordStep /\ pc = "words" /\ inComment /\ word' = word + 1
          /\ UNCHANGED <<file, lineNumber, inBlockComment, inComment, issues>>
      BY <1>6 DEF CommentWord, WordStep, HasWord, input
    <3>2. PICK i \in 1 .. word - 1 : StartsLine(file[lineNumber].words[i])
      BY <3>1 DEF BehindMark
    <3>3. word \in Nat  BY <3>1, WordTypes DEF WordStep
    <3>4. i \in Nat \ {0} /\ i <= word /\ i \in 1 .. word' - 1  BY <3>1, <3>3
    <3>5. WordsSeen'  BY <2>1, <3>1, <3>2, <3>4, CommentWordsSeen DEF RangesSeen
    <3> QED  BY <1>4, <2>1, <3>1, <3>5 DEF RangesSeen
  <2> QED  BY <1>5, <1>6, <2>1 DEF CommentWord
<1>7. CASE LineCommentBegins
  <2>1. CASE NoBlocks
    <3>1. /\ WordStep /\ StartsLine(Word) /\ word' = word + 1
          /\ UNCHANGED <<file, lineNumber, inBlockComment, issues>>
      BY <1>7 DEF LineCommentBegins, SeenStep, WordStep, input
    <3>2. word \in Nat \ {0}  BY <3>1, WordTypes DEF WordStep
    <3>3. StartsLine(file[lineNumber].words[word])  BY <3>1 DEF Word
    <3>4. word <= word /\ word \in 1 .. word' - 1  BY <3>1, <3>2
    <3>5. WordsSeen'  BY <2>1, <3>1, <3>2, <3>3, <3>4, CommentWordsSeen DEF RangesSeen
    <3> QED  BY <1>4, <2>1, <3>1, <3>5 DEF RangesSeen
  <2> QED  BY <1>5, <1>7, <2>1 DEF LineCommentBegins, SeenStep
<1>8. CASE BlockCommentBegins \/ BlockCommentEnds \/ BlockCommentWord
  <2>1. WordStep  BY <1>8 DEF BlockCommentBegins, BlockCommentEnds, BlockCommentWord, SeenStep
  <2>2. ~NoBlocks
    BY <1>8, <2>1, NoBlockMarks DEF BlockCommentBegins, BlockCommentEnds, BlockCommentWord,
                                    RangesSeen, WordStep
  <2> QED  BY <1>5, <2>1, <2>2
<1>9. CASE CodeWord
  <2>1. WordStep /\ ~inComment' /\ ~inBlockComment' /\ issues \subseteq issues'
    BY <1>9 DEF CodeWord, SeenStep
  <2>3. CASE NoBlocks
    <3>1. WordsSeen'  BY <1>9, <2>3, CodeWordsSeen DEF RangesSeen
    <3> QED  BY <1>4, <2>1, <2>3, <3>1
  <2> QED  BY <1>5, <2>1, <2>3
<1>10. CASE EndOfLine
  <2>1. /\ pc = "words" /\ pc' = "read" /\ word = Len(file[lineNumber].words) + 1
        /\ UNCHANGED <<file, rules, lineNumber, inBlockComment>> /\ issues \subseteq issues'
    BY <1>10 DEF EndOfLine, input
  <2>2. lineNumber \in 1 .. Len(file)  BY <2>1, LenProperties DEF TypeOK
  <2>3. file[lineNumber].words \in Seq(Words)  BY <2>2, LineOfFile DEF TypeOK
  <2>4. \A k \in DOMAIN file[lineNumber].words : k < word
    <3>1. DOMAIN file[lineNumber].words = 1 .. Len(file[lineNumber].words)
          /\ Len(file[lineNumber].words) \in Nat
      BY <2>3, LenProperties
    <3> QED  BY <2>1, <3>1
  <2>5. ASSUME NoBlocks, NEW r \in Wrong(file[lineNumber]) \cap rules
        PROVE  Reported(lineNumber, r)
    <3>1. PICK j \in DOMAIN file[lineNumber].words, k \in DOMAIN file[lineNumber].words :
             Misdirected(file[lineNumber], r, j, k)
      BY DEF Wrong
    <3>2. r \in RangeRules \cap rules  BY DEF Wrong
    <3> QED  BY <2>1, <2>4, <2>5, <3>1, <3>2 DEF RangesSeen, WordsSeen
  <2>6. ASSUME NoBlocks PROVE LinesSeen'
    <3> SUFFICES ASSUME NEW n \in 1 .. lineNumber, NEW r \in Wrong(file[n]) \cap rules
                 PROVE  Reported(n, r)
      BY <2>1 DEF LinesSeen, Reported, Wrong, Misdirected
    <3> QED  BY <2>5, <2>6 DEF RangesSeen, LinesSeen
  <2> QED  BY <1>1, <2>1, <2>6 DEF RangesSeen, WordsSeen
<1>11. CASE EndOfFile
  <2>1. /\ pc = "read" /\ pc' = "done" /\ lineNumber = Len(file)
        /\ UNCHANGED <<file, rules, lineNumber, inBlockComment>> /\ issues \subseteq issues'
    BY <1>11 DEF EndOfFile, input
  <2> QED
    BY <1>1, <2>1 DEF RangesSeen, WordsSeen, LinesSeen, Reported, Wrong, Misdirected
<1>12. CASE UNCHANGED vars
  BY <1>1, <1>12 DEF vars, input, flags, RangesSeen, BehindMark, WordsSeen, LinesSeen, Reported,
                     Wrong, Misdirected, Flag
<1> QED
  BY <1>2, <1>3, <1>6, <1>7, <1>8, <1>9, <1>10, <1>11, <1>12 DEF Next, Finished
-----------------------------------------------------------------------------
(* The header.  A "library" that has been read on a line without marks has     *)
(* ended it: a line behind it matches no header rule any more.                 *)
BareLine(k) == \A j \in DOMAIN file[k].words : Bare(file[k].words[j])

LibraryEndsHeader ==
    \A k \in 1 .. lineNumber : \A j \in DOMAIN file[k].words :
        /\ file[k].words[j].text = "library"
        /\ pc = "words" /\ k = lineNumber => j < word
        /\ BareLine(k)
        => ~inHeader

UnmatchedStay == \A r \in Formats : BehindHeader(r) => r \in unmatched

HeaderSeen == LibraryEndsHeader /\ UnmatchedStay /\ HeaderNotMissed

LEMMA InitHeaderSeen == Init => HeaderSeen
<1> SUFFICES ASSUME Init PROVE HeaderSeen  OBVIOUS
<1>1. pc = "open" /\ lineNumber = 0 /\ unmatched = HeaderRules  BY DEF Init
<1>2. 1 .. lineNumber = {}  BY <1>1
<1> QED  BY <1>1, <1>2 DEF HeaderSeen, LibraryEndsHeader, UnmatchedStay, HeaderNotMissed, Formats

\* What is behind the header stays so backwards: a line once known to have a
\* comment keeps it.
LEMMA BehindHeaderBefore ==
  ASSUME UNCHANGED <<file, rules>>, commented \subseteq commented'
  PROVE  /\ Formats' = Formats
         /\ \A r \in Formats : BehindHeader(r)' => BehindHeader(r)
  BY DEF Formats, BehindHeader, WordsOf

\* A step within a line or between two, before the end of the file.
LEMMA MiddleHeaderSeen ==
  ASSUME UNCHANGED <<file, rules, unmatched>>, commented \subseteq commented',
         pc' # "done", HeaderSeen, LibraryEndsHeader'
  PROVE  HeaderSeen'
<1>1. UnmatchedStay'  BY BehindHeaderBefore DEF HeaderSeen, UnmatchedStay
<1> QED  BY <1>1 DEF HeaderSeen, HeaderNotMissed

\* A word: it is not "library", or it ends the header, or is behind a mark.
LEMMA WordHeaderSeen ==
  ASSUME TypeOK, HeaderSeen, WordStep, inHeader' => inHeader,
         Word.text = "library" => ~inHeader' \/ ~BareLine(lineNumber)
  PROVE  HeaderSeen'
<1>1. /\ HasWord /\ pc = "words" /\ pc' = "words" /\ word' = word + 1
      /\ UNCHANGED <<file, rules, lineNumber, unmatched>> /\ commented \subseteq commented'
  BY DEF WordStep, RealStep, HasWord, input
<1>2. LibraryEndsHeader'
  <2> SUFFICES ASSUME NEW k \in 1 .. lineNumber, NEW j \in DOMAIN file[k].words,
                      file[k].words[j].text = "library",
                      k = lineNumber => j < word + 1,
                      BareLine(k), inHeader'
               PROVE  FALSE
    BY <1>1 DEF LibraryEndsHeader, BareLine
  <2>1. word \in Nat /\ (k = lineNumber => j \in Nat)  BY <1>1, WordTypes
  <2>2. inHeader  OBVIOUS
  <2>3. ~(k = lineNumber => j < word)  BY <1>1, <2>2 DEF HeaderSeen, LibraryEndsHeader
  <2>4. k = lineNumber /\ j = word  BY <2>1, <2>3
  <2>5. Word.text = "library"  BY <2>4 DEF Word
  <2> QED  BY <2>2, <2>4, <2>5
<1>3. pc' # "done"  BY <1>1
<1> QED  BY <1>1, <1>2, <1>3, MiddleHeaderSeen

LEMMA NextHeaderSeen == TypeOK /\ BehindMark /\ HeaderSeen /\ [Next]_vars => HeaderSeen'
<1> SUFFICES ASSUME TypeOK, BehindMark, HeaderSeen, [Next]_vars PROVE HeaderSeen'  OBVIOUS
<1>1. CASE Open
  <2>1. /\ pc # "words" /\ pc' # "words" /\ pc' # "done"
        /\ UNCHANGED <<file, rules, lineNumber, word, inHeader, unmatched, commented>>
    BY <1>1 DEF Open, input
  <2>2. LibraryEndsHeader'  BY <2>1 DEF HeaderSeen, LibraryEndsHeader, BareLine
  <2> QED  BY <2>1, <2>2, MiddleHeaderSeen
<1>2. CASE NextLine
  <2>1. /\ pc = "read" /\ pc' = "words" /\ lineNumber' = lineNumber + 1 /\ word' = 1
        /\ UNCHANGED <<file, rules, inHeader>> /\ commented \subseteq commented'
        /\ unmatched' = IF inHeader THEN unmatched \ (file[lineNumber + 1].info \cap Formats)
                        ELSE unmatched
    BY <1>2 DEF NextLine, input
  <2>2. lineNumber \in Nat  BY LenProperties DEF TypeOK
  <2>3. LibraryEndsHeader'
    <3>1. lineNumber' \in 1 .. Len(file)  BY <1>2, LenProperties DEF NextLine, TypeOK
    <3>2. file[lineNumber'].words \in Seq(Words)  BY <3>1, LineOfFile DEF TypeOK
    <3>3. \A j \in DOMAIN file[lineNumber'].words : ~(j < 1)  BY <3>2, LenProperties
    <3>4. \A k \in 1 .. lineNumber' : k # lineNumber' => k \in 1 .. lineNumber
      BY <2>1, <2>2
    <3> QED  BY <2>1, <3>3, <3>4 DEF HeaderSeen, LibraryEndsHeader, BareLine
  <2>4. UnmatchedStay'
    <3>1. Formats' = Formats  BY <2>1, BehindHeaderBefore
    <3>2. SUFFICES ASSUME NEW r \in Formats, BehindHeader(r)' PROVE r \in unmatched'
      BY <3>1 DEF UnmatchedStay
    <3>3. BehindHeader(r)  BY <2>1, <3>2, BehindHeaderBefore
    <3>4. r \in unmatched  BY <3>3 DEF HeaderSeen, UnmatchedStay
    <3>5. ASSUME inHeader PROVE r \notin file[lineNumber + 1].info
      <4> SUFFICES ASSUME r \in file[lineNumber + 1].info PROVE FALSE  OBVIOUS
      <4>1. PICK n \in DOMAIN file : n = lineNumber + 1
        BY <1>2, <2>2, LenProperties DEF NextLine, TypeOK
      <4>2. PICK k \in 1 .. n - 1 : "library" \in WordsOf(k) /\ BareLine(k)
        BY <3>3, <3>5, <4>1 DEF BehindHeader, BareLine
      <4>3. k \in 1 .. lineNumber  BY <2>2, <4>1, <4>2
      <4>4. PICK j \in DOMAIN file[k].words : file[k].words[j].text = "library"
        BY <4>2 DEF WordsOf
      <4> QED  BY <2>1, <3>5, <4>2, <4>3, <4>4 DEF HeaderSeen, LibraryEndsHeader, BareLine
    <3> QED  BY <2>1, <3>4, <3>5
  <2> QED  BY <2>1, <2>3, <2>4 DEF HeaderSeen, HeaderNotMissed
<1>3. CASE CommentWord
  <2>1. WordStep /\ HasWord /\ pc = "words" /\ inComment /\ inHeader' = inHeader
    BY <1>3 DEF CommentWord, WordStep, HasWord
  <2>2. PICK i \in 1 .. word - 1 : StartsLine(file[lineNumber].words[i])
    BY <2>1 DEF BehindMark
  <2>3. i \in DOMAIN file[lineNumber].words
    <3>1. lineNumber \in DOMAIN file /\ word \in DOMAIN file[lineNumber].words
      BY <2>1, WordOfFile
    <3>2. file[lineNumber].words \in Seq(Words)
      BY <3>1, LineOfFile, LenProperties DEF TypeOK
    <3>3. DOMAIN file[lineNumber].words = 1 .. Len(file[lineNumber].words)
          /\ Len(file[lineNumber].words) \in Nat
      BY <3>2, LenProperties
    <3> QED  BY <2>2, <3>1, <3>3
  <2>4. ~BareLine(lineNumber)  BY <2>2, <2>3 DEF BareLine, Bare, StartsLine
  <2> QED  BY <2>1, <2>4, WordHeaderSeen
<1>4. CASE SeenStep
  <2>1. WordStep /\ (inHeader' => inHeader) /\ (Word.text = "library" => ~inHeader')
    BY <1>4 DEF SeenStep
  <2> QED  BY <2>1, WordHeaderSeen
<1>5. CASE EndOfLine
  <2>1. /\ pc = "words" /\ pc' = "read" /\ word = Len(file[lineNumber].words) + 1
        /\ UNCHANGED <<file, rules, lineNumber, word, inHeader, unmatched, commented>>
    BY <1>5 DEF EndOfLine, input
  <2>2. lineNumber \in 1 .. Len(file)  BY <2>1, LenProperties DEF TypeOK
  <2>3. file[lineNumber].words \in Seq(Words)  BY <2>2, LineOfFile DEF TypeOK
  <2>4. \A j \in DOMAIN file[lineNumber].words : j < word  BY <2>1, <2>3, LenProperties
  <2>5. LibraryEndsHeader'  BY <2>1, <2>4 DEF HeaderSeen, LibraryEndsHeader, BareLine
  <2>6. pc' # "done" /\ commented \subseteq commented'  BY <2>1
  <2> QED  BY <2>1, <2>5, <2>6, MiddleHeaderSeen
<1>6. CASE EndOfFile
  <2>1. /\ pc = "read" /\ pc' = "done"
        /\ UNCHANGED <<file, rules, lineNumber, word, inHeader, unmatched, commented>>
        /\ \A r \in rules : r \in unmatched \cap Formats => [rule |-> r, line |-> 0] \in issues'
    BY <1>6 DEF EndOfFile, input, OnFile
  <2>2. Formats \subseteq rules  BY DEF Formats
  <2>3. LibraryEndsHeader'  BY <2>1 DEF HeaderSeen, LibraryEndsHeader, BareLine
  <2>4. /\ Formats' = Formats
        /\ \A r \in Formats : BehindHeader(r)' => BehindHeader(r)
    BY <2>1, BehindHeaderBefore
  <2>5. UnmatchedStay'  BY <2>1, <2>4 DEF HeaderSeen, UnmatchedStay
  <2>6. HeaderNotMissed'  BY <2>1, <2>2, <2>4 DEF HeaderSeen, UnmatchedStay, HeaderNotMissed
  <2> QED  BY <2>3, <2>5, <2>6 DEF HeaderSeen
<1>7. CASE UNCHANGED vars
  BY <1>7 DEF vars, input, HeaderSeen, LibraryEndsHeader, BareLine, UnmatchedStay, HeaderNotMissed,
              Formats, BehindHeader, WordsOf
<1> QED
  BY <1>1, <1>2, <1>3, <1>4, <1>5, <1>6, <1>7
  DEF Next, Finished, LineCommentBegins, BlockCommentBegins, BlockCommentEnds,
      BlockCommentWord, CodeWord

(* Whatever the lines of a file are: unless a comment is misread, no word of *)
(* one is taken for code; no range in the wrong direction with no mark       *)
(* before it goes unreported in a file without block comments, and no header *)
(* rule that only lines behind a bare library clause match.                  *)
THEOREM RulesReported == Spec => []RulesNotMissed
<1> DEFINE Inductive == TypeOK /\ CommentInv /\ BehindMark /\ RangesSeen /\ HeaderSeen
<1>1. Init => Inductive
  BY InitTypeOK, InitCommentInv, InitBehindMark, InitRangesSeen, InitHeaderSeen
<1>2. Inductive /\ [Next]_vars => Inductive'
  BY NextTypeOK, NextCommentInv, NextBehindMark, NextRangesSeen, NextHeaderSeen
<1>3. Inductive => RulesNotMissed
  BY RangesSeenEnough DEF CommentInv, HeaderSeen, RulesNotMissed
<1> QED  BY <1>1, <1>2, <1>3, PTL DEF Spec
=============================================================================
