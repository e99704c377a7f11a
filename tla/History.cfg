CONSTANTS
    old = old
    sent = sent
    reply = reply
    edited = edited
    f0 = f0
    f1 = f1
    f2 = f2
    f3 = f3
    f4 = f4
    Nothing = Nothing
    Messages <- MCMessages
    Files <- MCFiles
    FilesOf <- MCFilesOf
    Source <- MCSource
    Edits = {edited}
    Replies = {reply}
    Starts <- MCStarts
SPECIFICATION Spec
INVARIANTS
    HistoryConsistent
    FilesAreKept
PROPERTIES
    RetentionIsExact
    DeletedBytesGo
CHECK_DEADLOCK FALSE
