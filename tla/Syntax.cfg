CONSTANTS
    Documents <- MCDocuments
    IndexOf <- MCIndexOf
    Fields <- MCFields
    OneLetter <- MCOneLetter
    Sentences <- MCSentences
SPECIFICATION SyntaxSpec
INVARIANTS
    SyntaxTypeOK
    RewritesAsWritten
PROPERTY EveryStringRewritten
