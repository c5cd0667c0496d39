CONSTANTS
    MaxNesting = 40
    Programs <- MCPrograms
    TypeScripts <- MCTypeScripts
    IntMax = 99
    LongMax = 999
    Sources <- MCSources
    Units <- MCUnits
INIT LanguageInit
NEXT LanguageNext
INVARIANT ReadBack
INVARIANT TypesReadBack
INVARIANT LexedBack
INVARIANT RunsAsWritten
CHECK_DEADLOCK FALSE
