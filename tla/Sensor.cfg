CONSTANTS
    Conns = {c1, c2}
    MaxSample = 2
    Junk <- MCJunk
SPECIFICATION FairSpec
INVARIANTS NoJunkAnswered AnswerNotOlderThanLastAccept
PROPERTIES NeverBackwards SamplesServed
