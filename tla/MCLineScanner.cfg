CONSTANTS
    Words <- MCWords
    Lines <- MCLines
    Profiles <- MCProfiles
    MaxLines = 3
    CommentLimit = 40
    SizeLimit = 2
SPECIFICATION Spec
INVARIANT CommentsNotMissed
INVARIANT RulesNotMissed
